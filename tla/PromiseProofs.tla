--------------------------- MODULE PromiseProofs ---------------------------
(* What the services of MCServices have planned they keep, for any profile,    *)
(* ratios, shares, prices, candles, markets, grids and ranges.                 *)
(*                                                                              *)
(* ProfileInv: the goals of a position are ranked and pay, each is served within *)
(* its allocation, and the stop that stands is at break-even once the trade has *)
(* said so. TicksInv: at a tick every frame that closes is due, and what is due *)
(* has its candles; QuietInv: what no run has seen has no trade in it, unless a *)
(* read failed.                                                                 *)
EXTENDS ServiceProofs

-----------------------------------------------------------------------------
(* Sums over a sequence, and counting up to a bound.                           *)

LEMMA CountUp ==
  ASSUME NEW n \in Nat, NEW T, 0 \in T, \A i \in 0 .. n : i < n /\ i \in T => i + 1 \in T
  PROVE  \A i \in 0 .. n : i \in T
<1> SUFFICES ASSUME NEW k \in 0 .. n, k \notin T PROVE FALSE
  OBVIOUS
<1> DEFINE S == {i \in 0 .. n : i \notin T}
<1>1. S \subseteq Nat /\ S # {}
  OBVIOUS
<1>2. PICK m \in S : \A i \in S : m <= i
  BY <1>1, MinIs
<1>3. m \in 0 .. n /\ m # 0 /\ m - 1 \in 0 .. n /\ m - 1 < n /\ m - 1 \notin S
  BY <1>2
<1>4. m - 1 \in T
  BY <1>3
<1>5. (m - 1) + 1 \in T
  BY <1>3, <1>4
<1> QED
  BY <1>2, <1>3, <1>5

SumOf(f, n, sum) == sum = [i \in 0 .. n |-> IF i = 0 THEN 0 ELSE sum[i - 1] + f[i]]
RunsOver(f, n, sum) ==
    sum \in [0 .. n -> Int] /\ sum[0] = 0 /\ \A i \in 0 .. n : i < n => sum[i + 1] = sum[i] + f[i + 1]

LEMMA SumRuns ==
  ASSUME NEW n \in Nat, NEW f, \A i \in 1 .. n : f[i] \in Int, NEW sum, SumOf(f, n, sum)
  PROVE  RunsOver(f, n, sum)
<1>1. DOMAIN sum = 0 .. n /\ \A i \in 0 .. n : sum[i] = IF i = 0 THEN 0 ELSE sum[i - 1] + f[i]
  BY DEF SumOf
<1>2. sum[0] = 0
  BY <1>1
<1>3. \A i \in 0 .. n : i < n => sum[i + 1] = sum[i] + f[i + 1]
  <2> TAKE i \in 0 .. n
  <2> HAVE i < n
  <2>1. i + 1 \in 0 .. n /\ i + 1 # 0 /\ (i + 1) - 1 = i
    OBVIOUS
  <2> QED
    BY <1>1, <2>1
<1> DEFINE T == {i \in 0 .. n : sum[i] \in Int}
<1>4. 0 \in T
  BY <1>2
<1>5. \A i \in 0 .. n : i < n /\ i \in T => i + 1 \in T
  BY <1>3
<1>6. \A i \in 0 .. n : i \in T
  <2> HIDE DEF T
  <2> QED
    BY <1>4, <1>5, CountUp
<1>7. sum = [i \in 0 .. n |-> sum[i]]
  BY DEF SumOf
<1>8. sum \in [0 .. n -> Int]
  BY <1>1, <1>6, <1>7
<1> QED
  BY <1>2, <1>3, <1>8 DEF RunsOver

LEMMA SumExists ==
  ASSUME NEW n \in Nat, NEW f, \A i \in 1 .. n : f[i] \in Int
  PROVE  \E sum : SumOf(f, n, sum)
<1> DEFINE T == {k \in 0 .. n : \E sum : SumOf(f, k, sum)}
<1>1. 0 \in T
  <2>1. SumOf(f, 0, [i \in 0 .. 0 |-> 0])
    BY DEF SumOf
  <2> QED
    BY <2>1
<1>2. ASSUME NEW k \in 0 .. n, k < n, k \in T PROVE k + 1 \in T
  <2>1. PICK old : SumOf(f, k, old)
    BY <1>2
  <2> DEFINE new == [i \in 0 .. k + 1 |-> IF i = k + 1 THEN old[k] + f[k + 1] ELSE old[i]]
  <2>2. \A i \in 0 .. k : old[i] = IF i = 0 THEN 0 ELSE old[i - 1] + f[i]
    BY <2>1 DEF SumOf
  <2>3. \A i \in 0 .. k + 1 : new[i] = IF i = 0 THEN 0 ELSE new[i - 1] + f[i]
    <3> TAKE i \in 0 .. k + 1
    <3>1. CASE i = k + 1
      <4>1. i # 0 /\ i - 1 = k /\ k # k + 1 /\ k \in 0 .. k + 1
        BY <3>1
      <4> QED
        BY <3>1, <4>1
    <3>2. CASE i # k + 1
      <4>1. i \in 0 .. k /\ (i # 0 => i - 1 \in 0 .. k + 1 /\ i - 1 # k + 1)
        BY <3>2
      <4> QED
        BY <3>2, <4>1, <2>2
    <3> QED
      BY <3>1, <3>2
  <2>4. new = [i \in 0 .. k + 1 |-> new[i]]
    OBVIOUS
  <2>5. SumOf(f, k + 1, new)
    <3> HIDE DEF new
    <3> QED
      BY <2>3, <2>4 DEF SumOf
  <2> QED
    BY <2>5, <1>2
<1>3. \A k \in 0 .. n : k \in T
  <2> HIDE DEF T
  <2> QED
    BY <1>1, <1>2, CountUp
<1> QED
  BY <1>3

LEMMA TotalIs ==
  ASSUME NEW f \in Seq(Int)
  PROVE  \E sum : RunsOver(f, Len(f), sum) /\ Total(f) = sum[Len(f)]
<1>1. Len(f) \in Nat /\ \A i \in 1 .. Len(f) : f[i] \in Int
  OBVIOUS
<1>2. \E sum : SumOf(f, Len(f), sum)
  BY <1>1, SumExists
<1>3. \E sum : SumOf(f, Len(f), sum) /\ Total(f) = sum[Len(f)]
  BY <1>2 DEF Total, SumOf
<1> QED
  BY <1>1, <1>3, SumRuns

Linear(f, g, h, c) ==
    Len(g) = Len(f) /\ Len(h) = Len(f) /\ \A i \in 1 .. Len(f) : f[i] = g[i] + c * h[i]

LEMMA TotalLinear ==
  ASSUME NEW f \in Seq(Int), NEW g \in Seq(Int), NEW h \in Seq(Int), NEW c \in Int, Linear(f, g, h, c)
  PROVE  {Total(f), Total(g), Total(h)} \subseteq Int /\ Total(f) = Total(g) + c * Total(h)
<1>1. PICK n \in Nat : n = Len(f) /\ n = Len(g) /\ n = Len(h) /\ \A i \in 1 .. n : f[i] = g[i] + c * h[i]
  BY DEF Linear
<1>2. PICK s : RunsOver(f, n, s) /\ Total(f) = s[n]
  BY <1>1, TotalIs
<1>3. PICK t : RunsOver(g, n, t) /\ Total(g) = t[n]
  BY <1>1, TotalIs
<1>4. PICK u : RunsOver(h, n, u) /\ Total(h) = u[n]
  BY <1>1, TotalIs
<1> DEFINE T == {i \in 0 .. n : s[i] = t[i] + c * u[i]}
<1>5. 0 \in T
  BY <1>2, <1>3, <1>4 DEF RunsOver
<1>6. ASSUME NEW i \in 0 .. n, i < n, i \in T PROVE i + 1 \in T
  <2>0. \A k \in 1 .. n : f[k] \in Int /\ g[k] \in Int /\ h[k] \in Int
    BY <1>1, SeqIs
  <2>1. i + 1 \in 1 .. n /\ f[i + 1] \in Int /\ g[i + 1] \in Int /\ h[i + 1] \in Int
    BY <1>6, <2>0
  <2>2. f[i + 1] = g[i + 1] + c * h[i + 1]
    BY <1>1, <2>1
  <2>3. s[i + 1] = s[i] + f[i + 1] /\ t[i + 1] = t[i] + g[i + 1] /\ u[i + 1] = u[i] + h[i + 1]
    BY <1>2, <1>3, <1>4, <1>6 DEF RunsOver
  <2>4. s[i] \in Int /\ t[i] \in Int /\ u[i] \in Int /\ s[i] = t[i] + c * u[i]
    BY <1>2, <1>3, <1>4, <1>6 DEF RunsOver
  <2>5. PICK b \in Int, d \in Int, x \in Int, y \in Int : b = u[i] /\ d = h[i + 1] /\ x = t[i] /\ y = g[i + 1]
    BY <2>1, <2>4
  <2>6. PICK p \in Int, q \in Int : p = c * b /\ q = c * d /\ c * (b + d) = p + q
    OBVIOUS
  <2>7. s[i + 1] = t[i + 1] + c * u[i + 1]
    <3>1. s[i + 1] = (x + p) + (y + q) /\ t[i + 1] = x + y
      BY <2>2, <2>3, <2>4, <2>5, <2>6
    <3>2. u[i + 1] = b + d
      BY <2>3, <2>5
    <3>3. c * u[i + 1] = p + q
      BY <3>2, <2>6
    <3> QED
      BY <3>1, <3>3
  <2> QED
    BY <2>1, <2>7
<1>7. \A i \in 0 .. n : i \in T
  <2> HIDE DEF T
  <2> QED
    BY <1>5, <1>6, CountUp
<1>8. s[n] \in Int /\ t[n] \in Int /\ u[n] \in Int /\ n \in T
  BY <1>2, <1>3, <1>4, <1>7 DEF RunsOver
<1> QED
  BY <1>2, <1>3, <1>4, <1>8

LEMMA TotalUnder ==
  ASSUME NEW f \in Seq(Int), NEW g \in Seq(Int), Len(g) = Len(f), \A i \in 1 .. Len(f) : f[i] <= g[i]
  PROVE  {Total(f), Total(g)} \subseteq Int /\ Total(f) <= Total(g)
<1>1. PICK n \in Nat : n = Len(f)
  OBVIOUS
<1>2. PICK s : RunsOver(f, n, s) /\ Total(f) = s[n]
  BY <1>1, TotalIs
<1>3. PICK t : RunsOver(g, n, t) /\ Total(g) = t[n]
  BY <1>1, TotalIs
<1> DEFINE T == {i \in 0 .. n : s[i] <= t[i]}
<1>5. 0 \in T
  BY <1>2, <1>3 DEF RunsOver
<1>6. ASSUME NEW i \in 0 .. n, i < n, i \in T PROVE i + 1 \in T
  <2>1. i + 1 \in 1 .. n /\ f[i + 1] \in Int /\ g[i + 1] \in Int
    BY <1>1, <1>6
  <2>2. f[i + 1] <= g[i + 1]
    BY <1>1, <2>1
  <2>3. s[i + 1] = s[i] + f[i + 1] /\ t[i + 1] = t[i] + g[i + 1]
    BY <1>2, <1>3, <1>6 DEF RunsOver
  <2>4. s[i] \in Int /\ t[i] \in Int /\ s[i] <= t[i]
    BY <1>2, <1>3, <1>6 DEF RunsOver
  <2> QED
    BY <2>1, <2>2, <2>3, <2>4
<1>7. \A i \in 0 .. n : i \in T
  <2> HIDE DEF T
  <2> QED
    BY <1>5, <1>6, CountUp
<1>8. s[n] \in Int /\ t[n] \in Int /\ n \in T
  BY <1>2, <1>3, <1>7 DEF RunsOver
<1> QED
  BY <1>2, <1>3, <1>8

LEMMA TotalOfNone ==
  ASSUME NEW f \in Seq(Int), \A i \in 1 .. Len(f) : f[i] = 0
  PROVE  Total(f) = 0
<1>1. PICK c \in Int : c = 1
  OBVIOUS
<1>2. \A i \in 1 .. Len(f) : f[i] = f[i] + c * f[i]
  BY <1>1
<1>3. Linear(f, f, f, c)
  BY <1>2 DEF Linear
<1>4. Total(f) \in Int /\ Total(f) = Total(f) + c * Total(f)
  BY <1>3, TotalLinear
<1> QED
  BY <1>1, <1>4

LEMMA TotalHolds ==
  ASSUME NEW f \in Seq(Nat)
  PROVE  Total(f) \in Nat /\ \A i \in 1 .. Len(f) : f[i] <= Total(f)
<1>1. PICK n \in Nat : n = Len(f)
  OBVIOUS
<1>2. f \in Seq(Int) /\ \A i \in 1 .. n : f[i] \in Nat
  BY <1>1
<1>3. PICK s : RunsOver(f, n, s) /\ Total(f) = s[n]
  BY <1>1, <1>2, TotalIs
<1> DEFINE T == {i \in 0 .. n : s[i] >= 0 /\ \A j \in 1 .. i : f[j] <= s[i]}
<1>5. 0 \in T
  BY <1>3 DEF RunsOver
<1>6. ASSUME NEW i \in 0 .. n, i < n, i \in T PROVE i + 1 \in T
  <2>1. i + 1 \in 1 .. n /\ f[i + 1] \in Nat
    BY <1>1, <1>2, <1>6
  <2>3. s[i + 1] = s[i] + f[i + 1]
    BY <1>3, <1>6 DEF RunsOver
  <2>4. s[i] \in Int /\ s[i] >= 0 /\ \A j \in 1 .. i : f[j] <= s[i]
    BY <1>3, <1>6 DEF RunsOver
  <2>5. \A j \in 1 .. i + 1 : f[j] <= s[i + 1]
    <3> TAKE j \in 1 .. i + 1
    <3>1. CASE j = i + 1
      BY <2>1, <2>3, <2>4, <3>1
    <3>2. CASE j # i + 1
      <4>1. j \in 1 .. i /\ f[j] \in Nat
        BY <3>2, <1>2, <1>6
      <4> QED
        BY <4>1, <2>1, <2>3, <2>4
    <3> QED
      BY <3>1, <3>2
  <2> QED
    BY <2>1, <2>3, <2>4, <2>5
<1>7. \A i \in 0 .. n : i \in T
  <2> HIDE DEF T
  <2> QED
    BY <1>5, <1>6, CountUp
<1>8. s[n] \in Int /\ n \in T
  BY <1>3, <1>7 DEF RunsOver
<1> QED
  BY <1>1, <1>3, <1>8

LEMMA FunctionIsSeq ==
  ASSUME NEW n \in Nat, NEW S, NEW f \in [1 .. n -> S]
  PROVE  f \in Seq(S) /\ Len(f) = n /\ DOMAIN f = 1 .. n
OBVIOUS
SetupIs(s) ==
    /\ DOMAIN s = {"profile", "dir", "entry", "stop", "goals", "floor", "cap"}
    /\ s.profile \in ProfileNames /\ s.dir \in {1, -1} /\ s.entry = SignalPrice
    /\ s.stop \in Int /\ s.floor \in Int /\ s.cap \in Int /\ s.goals \in Seq(Int)
    /\ Len(s.goals) = Len(Shares[s.profile])
ProfileTypes ==
    /\ {lots, entered, fees, adds, giving, candles} \subseteq Nat
    /\ {average, protect, gross, peak, evenAt} \subseteq Int
    /\ trail \in BOOLEAN /\ mover \in {"bar", "manage", "signal"}
    /\ setup = NoSetup \/ SetupIs(setup)
    /\ goals \in Seq(Int) /\ taken \in Seq(Nat) /\ Len(goals) = Len(taken)
    /\ asked \in [price : Int, size : Nat] /\ moves \in Seq([price : Int, even : BOOLEAN])
    /\ candle \in [{"open", "worst", "best", "close", "fast", "slow"} -> Int] /\ candle.worst <= candle.best /\ candle.close <= candle.best
Counts ==
    /\ lots <= entered /\ giving <= lots /\ (setup = NoSetup => entered = 0 /\ goals = <<>>)
    /\ (setup # NoSetup => Len(goals) = Len(Shares[setup.profile]))
    /\ entered = 0 => moves = <<>> /\ asked = NoAsk /\ evenAt = 0 /\ \A i \in DOMAIN taken : taken[i] = 0
    /\ entered > 0 =>
         /\ \A i \in DOMAIN taken : taken[i] <= Allocation(entered)[i]
         /\ lots <= entered - Total(taken)
         /\ setup.profile # "ma_cloud" => lots \in {0, entered - Total(taken)} /\ giving \in {0, lots}
    /\ asked.size > 0 => lots = entered /\ Completed = {}
RiskOf(s) == s.dir * (s.entry - s.stop)
PaysAt(s, i, gain) == gain - EntryFee - ExitFee >= Ratios[s.profile][i] * RiskOf(s)
PlanOK(s) ==
    /\ s.floor <= RiskOf(s) /\ RiskOf(s) < s.cap + Tick
    /\ s.profile # "pattern_targets" =>
         \A i \in 1 .. Len(s.goals) : PaysAt(s, i, s.dir * (s.goals[i] - s.entry))
GoalsPay ==
    setup # NoSetup =>
        /\ PlanOK(setup)
        /\ setup.profile # "pattern_targets" /\ entered > 0 =>
             \A i \in 1 .. Len(goals) : taken[i] = 0 => PaysAt(setup, i, setup.dir * (goals[i] - average))
Covers(x) == gross + lots * (Dir * (x - average)) - fees - ExitFee * lots >= 0
StopOK(m) ==
    Beyond(Dir, m.price, protect) /\ Beyond(Dir, Close, m.price) /\ (m.even => Reduced /\ Covers(m.price))
StopsInv == lots > 0 =>
    /\ \A k \in 1 .. Len(moves) : StopOK(moves[k])
    /\ evenAt # 0 => Reduced /\ ~Beyond(Dir, evenAt, protect) /\ Covers(evenAt)
    /\ Reduced =>
         /\ Beyond(Dir, At(candle.best), protect)
         /\ \A i \in 1 .. Len(goals) : taken[i] < Allocation(entered)[i] => Beyond(Dir, goals[i], At(candle.best))
ProfileInv == ProfileTypes /\ Counts /\ GoalsPay /\ StopsInv


RestOf(size, cut, keep, n, rest) ==
    rest = [i \in 0 .. n |-> IF i = 0 THEN size ELSE IF ~keep /\ i = Len(cut) THEN 0
                             ELSE rest[i - 1] - Lower((size * cut[i]) \div 100, rest[i - 1])]
FallsTo(size, n, rest) ==
    /\ rest \in [0 .. n -> Nat] /\ rest[0] = size
    /\ \A i \in 0 .. n : i < n => rest[i + 1] <= rest[i]

LEMMA Parted ==
  ASSUME NEW size \in Nat, NEW cut \in 1 .. 100, NEW rest \in Nat
  PROVE  rest - Lower((size * cut) \div 100, rest) \in 0 .. rest
<1>1. PICK p \in Nat : p = size * cut
  OBVIOUS
<1>2. p \div 100 \in Nat
  OBVIOUS
<1> QED
  BY <1>1, <1>2 DEF Lower

LEMMA RestExists ==
  ASSUME NEW size \in Nat, NEW cut \in Seq(1 .. 100), NEW keep \in BOOLEAN, NEW n \in 0 .. Len(cut)
  PROVE  \E rest : RestOf(size, cut, keep, n, rest)
<1> DEFINE T == {k \in 0 .. Len(cut) : \E rest : RestOf(size, cut, keep, k, rest)}
<1>0. Len(cut) \in Nat /\ \A i \in 1 .. Len(cut) : cut[i] \in 1 .. 100
  BY SeqIs
<1>1. 0 \in T
  <2>1. RestOf(size, cut, keep, 0, [i \in 0 .. 0 |-> size])
    BY DEF RestOf
  <2> QED
    BY <1>0, <2>1
<1>2. ASSUME NEW k \in 0 .. Len(cut), k < Len(cut), k \in T PROVE k + 1 \in T
  <2>1. PICK old : RestOf(size, cut, keep, k, old)
    BY <1>2
  <2>3. PICK x : x = IF ~keep /\ k + 1 = Len(cut) THEN 0
                     ELSE old[k] - Lower((size * cut[k + 1]) \div 100, old[k])
    OBVIOUS
  <2> DEFINE new == [i \in 0 .. k + 1 |-> IF i = k + 1 THEN x ELSE old[i]]
  <2>5. \A i \in 0 .. k : old[i] = IF i = 0 THEN size ELSE IF ~keep /\ i = Len(cut) THEN 0
                                     ELSE old[i - 1] - Lower((size * cut[i]) \div 100, old[i - 1])
    BY <2>1 DEF RestOf
  <2>6. \A i \in 0 .. k + 1 : new[i] = IF i = 0 THEN size ELSE IF ~keep /\ i = Len(cut) THEN 0
                                      ELSE new[i - 1] - Lower((size * cut[i]) \div 100, new[i - 1])
    <3> TAKE i \in 0 .. k + 1
    <3>1. CASE i = k + 1
      <4>1. i # 0 /\ i - 1 = k /\ k # k + 1 /\ k \in 0 .. k + 1 /\ new[i] = x /\ new[k] = old[k]
        BY <3>1
      <4> QED
        BY <3>1, <4>1, <2>3
    <3>2. CASE i # k + 1
      <4>1. i \in 0 .. k /\ (i # 0 => i - 1 \in 0 .. k + 1 /\ i - 1 # k + 1)
        BY <3>2
      <4>2. new[i] = old[i] /\ (i # 0 => new[i - 1] = old[i - 1])
        BY <3>2, <4>1
      <4> QED
        BY <4>1, <4>2, <2>5
    <3> QED
      BY <3>1, <3>2
  <2>7. new = [i \in 0 .. k + 1 |-> new[i]]
    OBVIOUS
  <2>8. RestOf(size, cut, keep, k + 1, new)
    <3> HIDE DEF new
    <3> QED
      BY <2>6, <2>7 DEF RestOf
  <2>10. k + 1 \in 0 .. Len(cut)
    BY <1>0, <1>2
  <2> QED
    BY <2>8, <2>10
<1>3. \A k \in 0 .. Len(cut) : k \in T
  <2> HIDE DEF T
  <2> QED
    BY <1>0, <1>1, <1>2, CountUp
<1> QED
  BY <1>3

LEMMA RestFalls ==
  ASSUME NEW size \in Nat, NEW cut \in Seq(1 .. 100), NEW keep \in BOOLEAN, NEW n \in 0 .. Len(cut),
         NEW rest, RestOf(size, cut, keep, n, rest)
  PROVE  FallsTo(size, n, rest) /\ (~keep /\ n = Len(cut) /\ n # 0 => rest[n] = 0)
<1>0. Len(cut) \in Nat /\ n \in Nat /\ \A i \in 1 .. Len(cut) : cut[i] \in 1 .. 100
  BY SeqIs
<1>1. DOMAIN rest = 0 .. n /\ rest = [i \in 0 .. n |-> rest[i]]
      /\ \A i \in 0 .. n : rest[i] = IF i = 0 THEN size ELSE IF ~keep /\ i = Len(cut) THEN 0
                                     ELSE rest[i - 1] - Lower((size * cut[i]) \div 100, rest[i - 1])
  BY DEF RestOf
<1>2. rest[0] = size /\ (~keep /\ n = Len(cut) /\ n # 0 => rest[n] = 0)
  <2>1. 0 \in 0 .. n /\ n \in 0 .. n
    BY <1>0
  <2>2. rest[0] = size
    BY <1>1, <2>1
  <2>3. ASSUME ~keep, n = Len(cut), n # 0 PROVE rest[n] = 0
    BY <1>1, <2>1, <2>3
  <2> QED
    BY <2>2, <2>3
<1>3. ASSUME NEW i \in 0 .. n, i < n, rest[i] \in Nat PROVE rest[i + 1] \in 0 .. rest[i]
  <2>1. i + 1 \in 0 .. n /\ i + 1 # 0 /\ (i + 1) - 1 = i /\ cut[i + 1] \in 1 .. 100
    BY <1>0, <1>3
  <2>2. rest[i + 1] = IF ~keep /\ i + 1 = Len(cut) THEN 0
                      ELSE rest[i] - Lower((size * cut[i + 1]) \div 100, rest[i])
    BY <1>1, <2>1
  <2>3. rest[i] - Lower((size * cut[i + 1]) \div 100, rest[i]) \in 0 .. rest[i]
    BY <1>3, <2>1, Parted
  <2> QED
    BY <1>3, <2>2, <2>3
<1> DEFINE T == {i \in 0 .. n : rest[i] \in Nat}
<1>4. 0 \in T
  BY <1>0, <1>2
<1>5. \A i \in 0 .. n : i < n /\ i \in T => i + 1 \in T
  BY <1>0, <1>3
<1>6. \A i \in 0 .. n : i \in T
  <2> HIDE DEF T
  <2> QED
    BY <1>0, <1>4, <1>5, CountUp
<1>7. \A i \in 0 .. n : i < n => rest[i + 1] <= rest[i]
  BY <1>3, <1>6
<1>8. rest \in [0 .. n -> Nat]
  BY <1>1, <1>6
<1> QED
  BY <1>2, <1>7, <1>8 DEF FallsTo

(* The orders of the targets: each a part of what is left, all of it together   *)
(* unless the rest is kept for trailing.                                       *)
LEMMA Allots ==
  ASSUME NEW size \in Nat, setup.profile \in ProfileNames
  PROVE  /\ Allocation(size) \in Seq(Nat) /\ Len(Allocation(size)) = Len(Shares[setup.profile])
         /\ Total(Allocation(size)) \in 0 .. size
         /\ setup.profile # "atr_trend" /\ Shares[setup.profile] # <<>> => Total(Allocation(size)) = size
<1>1. PICK cut \in Seq(1 .. 100) : cut = Shares[setup.profile]
  BY ProfileAssumption
<1>2. PICK n \in Nat : n = Len(cut) /\ DOMAIN cut = 1 .. n
  BY SeqIs
<1>3. PICK keep \in BOOLEAN : keep = (setup.profile = "atr_trend")
  OBVIOUS
<1> DEFINE rests(r) == r = [i \in 0 .. Len(Shares[setup.profile]) |->
                         IF i = 0 THEN size
                         ELSE IF setup.profile # "atr_trend" /\ i = Len(Shares[setup.profile]) THEN 0
                         ELSE r[i - 1] - Lower((size * Shares[setup.profile][i]) \div 100, r[i - 1])]
<1>4. \A r : rests(r) <=> RestOf(size, cut, keep, n, r)
  BY <1>1, <1>2, <1>3, SMTT(60) DEF RestOf
<1>5. \E r : rests(r)
  <2> HIDE DEF rests
  <2>1. n \in 0 .. Len(cut)
    BY <1>2
  <2>2. \E r : RestOf(size, cut, keep, n, r)
    BY <2>1, RestExists
  <2> QED
    BY <1>4, <2>2
<1>6. \E r : rests(r) /\ Allocation(size) = [i \in DOMAIN Shares[setup.profile] |-> r[i - 1] - r[i]]
  BY <1>5 DEF Allocation, Allotted
<1>7. PICK r : rests(r) /\ Allocation(size) = [i \in DOMAIN Shares[setup.profile] |-> r[i - 1] - r[i]]
  BY <1>6
<1>8. FallsTo(size, n, r) /\ (~keep /\ n # 0 => r[n] = 0)
  <2> HIDE DEF rests
  <2>1. n \in 0 .. Len(cut) /\ n = Len(cut)
    BY <1>2
  <2> QED
    BY <1>4, <1>7, <2>1, RestFalls
<1>9. Allocation(size) = [i \in 1 .. n |-> r[i - 1] - r[i]]
  BY <1>1, <1>2, <1>7
<1>10. \A i \in 1 .. n : r[i - 1] \in Nat /\ r[i] \in Nat /\ r[i] <= r[i - 1]
  <2> TAKE i \in 1 .. n
  <2>1. i - 1 \in 0 .. n /\ i - 1 < n /\ (i - 1) + 1 = i /\ i \in 0 .. n
    OBVIOUS
  <2> QED
    BY <1>8, <2>1 DEF FallsTo
<1>11. Allocation(size) \in [1 .. n -> Nat]
  BY <1>9, <1>10
<1>12. Allocation(size) \in Seq(Nat) /\ Len(Allocation(size)) = n
  BY <1>11, FunctionIsSeq
<1>13. Total(Allocation(size)) = size - r[n]
  <2>1. PICK a \in Seq(Nat) : a = Allocation(size) /\ Len(a) = n
    BY <1>12
  <2>2. a \in Seq(Int)
    BY <2>1
  <2>3. PICK s : RunsOver(a, n, s) /\ Total(a) = s[n]
    BY <2>1, <2>2, TotalIs
  <2> DEFINE T == {i \in 0 .. n : s[i] = size - r[i]}
  <2>4. 0 \in T
    BY <1>8, <2>3 DEF RunsOver, FallsTo
  <2>5. ASSUME NEW i \in 0 .. n, i < n, i \in T PROVE i + 1 \in T
    <3>1. i + 1 \in 1 .. n /\ (i + 1) - 1 = i
      BY <2>5
    <3>2. a[i + 1] = r[i] - r[i + 1]
      BY <1>9, <2>1, <3>1
    <3>3. s[i + 1] = s[i] + a[i + 1] /\ s[i] \in Int
      BY <2>3, <2>5 DEF RunsOver
    <3>4. r[i] \in Nat /\ r[i + 1] \in Nat
      BY <1>10, <3>1
    <3>5. s[i] = size - r[i]
      BY <2>5
    <3>6. s[i + 1] = size - r[i + 1]
      BY <3>2, <3>3, <3>4, <3>5
    <3> QED
      BY <3>1, <3>6
  <2>6. \A i \in 0 .. n : i \in T
    <3> HIDE DEF T
    <3> QED
      BY <2>4, <2>5, CountUp
  <2> QED
    BY <2>1, <2>3, <2>6
<1>14. r[n] \in 0 .. size
  <2> DEFINE T == {i \in 0 .. n : r[i] <= size}
  <2>1. 0 \in T /\ n \in 0 .. n
    BY <1>8 DEF FallsTo
  <2>2. \A i \in 0 .. n : i < n /\ i \in T => i + 1 \in T
    <3> TAKE i \in 0 .. n
    <3> HAVE i < n /\ i \in T
    <3>1. i + 1 \in 0 .. n /\ r[i] \in Nat /\ r[i + 1] \in Nat /\ r[i + 1] <= r[i] /\ r[i] <= size
      BY <1>8 DEF FallsTo
    <3> QED
      BY <3>1
  <2>3. \A i \in 0 .. n : i \in T
    <3> HIDE DEF T
    <3> QED
      BY <2>1, <2>2, CountUp
  <2> QED
    BY <1>8, <2>1, <2>3 DEF FallsTo
<1>15. setup.profile # "atr_trend" /\ Shares[setup.profile] # <<>> => r[n] = 0
  <2>1. Shares[setup.profile] # <<>> => n # 0
    BY <1>1, <1>2
  <2> QED
    BY <1>3, <1>8, <2>1
<1>16. n = Len(Shares[setup.profile])
  BY <1>1, <1>2
<1> QED
  BY <1>12, <1>13, <1>14, <1>15, <1>16

LEMMA Divides ==
  ASSUME NEW x \in Int, NEW t \in Nat, t > 0
  PROVE  x \div t \in Int /\ (x \div t) * t \in Int /\ (x \div t) * t <= x /\ x < (x \div t) * t + t
<1>1. PICK q \in Int : q = x \div t
  OBVIOUS
<1>2. x = q * t + (x % t) /\ x % t \in 0 .. t - 1
  BY <1>1
<1>3. PICK y \in Int : y = q * t
  OBVIOUS
<1> QED
  BY <1>1, <1>2, <1>3

LEMMA LossIs ==
  ASSUME NEW dir \in {1, -1}, NEW price \in Int
  PROVE  /\ Loss(dir, price) \in Int
         /\ dir * Loss(dir, price) <= dir * price /\ dir * price < dir * Loss(dir, price) + Tick
<1>1. PICK x \in Int : x = dir * price
  OBVIOUS
<1>2. Tick \in Nat /\ Tick > 0
  BY ProfileAssumption
<1>3. PICK y \in Int : y = (x \div Tick) * Tick /\ y <= x /\ x < y + Tick
  BY <1>2, Divides
<1>4. Loss(dir, price) = dir * y
  BY <1>1, <1>3 DEF Loss
<1>5. dir * y \in Int /\ dir * (dir * y) = y
  OBVIOUS
<1> QED
  BY <1>1, <1>2, <1>3, <1>4, <1>5

LEMMA GainIs ==
  ASSUME NEW dir \in {1, -1}, NEW price \in Int
  PROVE  Gain(dir, price) \in Int /\ dir * price <= dir * Gain(dir, price)
<1>1. PICK g : g = Loss(-dir, price)
  OBVIOUS
<1>2. -dir \in {1, -1}
  OBVIOUS
<1>3. g \in Int /\ (-dir) * g <= (-dir) * price
  BY <1>1, <1>2, LossIs
<1>4. dir * price <= dir * g
  BY <1>3
<1> QED
  BY <1>1, <1>3, <1>4 DEF Gain

LEMMA DistanceIs ==
  ASSUME NEW x \in Int, NEW atr \in Atrs, NEW range \in Ranges, Floor(atr, range) <= Cap(atr), Tick <= Cap(atr)
  PROVE  /\ Floor(atr, range) \in Nat /\ Cap(atr) \in Nat
         /\ StopDistance(x, atr, range) \in Floor(atr, range) .. Cap(atr)
<1>0. MinStopAtr \in Nat /\ MinStopTicks \in Nat /\ BeyondBar \in Nat /\ MaxStopAtr \in Nat
      /\ atr \in Nat /\ range \in Nat /\ Tick \in Nat
  BY ProfileAssumption
<1>1. PICK a \in Nat, b \in Nat, c \in Nat, d \in Nat :
        a = MinStopAtr * atr /\ b = MinStopTicks * Tick /\ c = BeyondBar * range /\ d = MaxStopAtr * atr
  <2>1. \A x1, x2 \in Nat : x1 * x2 \in Nat
    OBVIOUS
  <2> QED
    BY <1>0, <2>1
<1>2. Floor(atr, range) \in Nat /\ Cap(atr) = d
  BY <1>1 DEF Floor, Cap, Higher
<1>3. PICK f \in Nat : f = Floor(atr, range)
  BY <1>2
<1>4. Tick \in Nat
  BY ProfileAssumption
<1> QED
  BY <1>2, <1>3, <1>4 DEF StopDistance, Bounded, Higher, Lower

LEMMA StructuralIs ==
  ASSUME NEW profile \in ProfileNames, NEW dir \in {1, -1}, NEW depth \in Structures, NEW atr \in Atrs
  PROVE  Structural(profile, dir, depth, atr) \in Int
<1>1. SignalPrice \in Int /\ BufferTicks \in Int /\ Tick \in Int /\ StopAtr \in Int /\ depth \in Int /\ atr \in Int
  BY ProfileAssumption
<1>2. PICK a \in Int, b \in Int : a = BufferTicks * Tick /\ b = StopAtr * atr
  BY <1>1
<1>3. PICK c \in Int, d \in Int : c = SignalPrice - dir * (depth + a) /\ d = SignalPrice - dir * b
  BY <1>1
<1>4. SignalPrice - dir * (depth + BufferTicks * Tick) = c
  BY <1>2, <1>3
<1>5. SignalPrice - dir * StopAtr * atr = d
  BY <1>1, <1>2, <1>3
<1>6. Behind(dir, depth) \in Int /\ AtrStop(dir, atr) \in Int
  BY <1>3, <1>4, <1>5, LossIs DEF Behind, AtrStop
<1> QED
  BY <1>6 DEF Structural, LevelStop, CloudStop

LEMMA GoalsAre ==
  ASSUME NEW profile \in ProfileNames, NEW dir \in {1, -1}, NEW distance \in Int, NEW reach \in Formations
  PROVE  /\ Goals(profile, dir, distance, reach) \in Seq(Int)
         /\ Len(Goals(profile, dir, distance, reach)) = Len(Shares[profile])
         /\ profile # "pattern_targets" => \A i \in 1 .. Len(Shares[profile]) :
              dir * (Goals(profile, dir, distance, reach)[i] - SignalPrice) - EntryFee - ExitFee
                >= Ratios[profile][i] * distance
<1>1. SignalPrice \in Int /\ EntryFee \in Int /\ ExitFee \in Int /\ reach \in Int
  BY ProfileAssumption
<1>2. CASE profile = "pattern_targets"
  <2>1. Loss(dir, SignalPrice + dir * (reach \div 2)) \in Int /\ Loss(dir, SignalPrice + dir * reach) \in Int
    <3>1. SignalPrice + dir * (reach \div 2) \in Int /\ SignalPrice + dir * reach \in Int
      BY <1>1
    <3> QED
      BY <3>1, LossIs
  <2>2. PICK a \in Int, b \in Int : Goals(profile, dir, distance, reach) = <<a, b>>
    BY <1>2, <2>1 DEF Goals
  <2>3. Len(Shares[profile]) = 2
    BY <1>2, ProfileAssumption
  <2>4. <<a, b>> \in Seq(Int) /\ Len(<<a, b>>) = 2
    OBVIOUS
  <2> QED
    BY <1>2, <2>2, <2>3, <2>4
<1>3. CASE profile # "pattern_targets"
  <2>1. PICK n \in Nat : n = Len(Ratios[profile]) /\ n = Len(Shares[profile]) /\ DOMAIN Ratios[profile] = 1 .. n
                         /\ \A i \in 1 .. n : Ratios[profile][i] \in Nat
    BY ProfileAssumption, SeqIs
  <2>2. ASSUME NEW i \in 1 .. n
        PROVE  /\ RTarget(dir, distance, Ratios[profile][i]) \in Int
               /\ dir * (RTarget(dir, distance, Ratios[profile][i]) - SignalPrice) - EntryFee - ExitFee
                    >= Ratios[profile][i] * distance
    <3>1. PICK q \in Int : q = Ratios[profile][i]
      BY <2>1
    <3>2. PICK y \in Int : y = distance * q /\ y = q * distance
      OBVIOUS
    <3>3. PICK p \in Int : p = SignalPrice + dir * (y + EntryFee + ExitFee)
      BY <1>1
    <3>4. PICK g \in Int : g = Gain(dir, p) /\ dir * p <= dir * g
      BY GainIs
    <3>5. RTarget(dir, distance, q) = g
      BY <3>2, <3>3, <3>4 DEF RTarget
    <3>6. dir * (g - SignalPrice) >= y + EntryFee + ExitFee
      BY <1>1, <3>3, <3>4
    <3>7. dir * (g - SignalPrice) - EntryFee - ExitFee >= y
      <4>1. PICK z \in Int : z = dir * (g - SignalPrice)
        BY <1>1
      <4> QED
        BY <4>1, <3>6, <1>1
    <3> QED
      BY <3>1, <3>2, <3>5, <3>7
  <2>3. Goals(profile, dir, distance, reach) = [i \in 1 .. n |-> RTarget(dir, distance, Ratios[profile][i])]
    BY <1>3, <2>1 DEF Goals
  <2>4. [i \in 1 .. n |-> RTarget(dir, distance, Ratios[profile][i])] \in [1 .. n -> Int]
    BY <2>2
  <2>5. Goals(profile, dir, distance, reach) \in Seq(Int) /\ Len(Goals(profile, dir, distance, reach)) = n
    BY <2>3, <2>4, FunctionIsSeq
  <2> QED
    BY <2>1, <2>2, <2>3, <2>5
<1> QED
  BY <1>2, <1>3

LEMMA PlanStep == ProfileInv /\ PlanTrade => ProfileInv'
<1> SUFFICES ASSUME ProfileInv, PlanTrade PROVE ProfileInv'
  OBVIOUS
<1>1. PICK profile \in ProfileNames, dir \in {1, -1}, depth \in Structures, reach \in Formations,
           atr \in Atrs, range \in Ranges :
      LET proposed == Structural(profile, dir, depth, atr)
          stop == Loss(dir, SignalPrice - dir * StopDistance(dir * (SignalPrice - proposed), atr, range))
          prices == Goals(profile, dir, dir * (SignalPrice - stop), reach)
      IN  /\ setup = NoSetup
          /\ Beyond(dir, SignalPrice, proposed)
          /\ Floor(atr, range) <= Cap(atr) /\ Tick <= Cap(atr)
          /\ Ahead(dir, prices)
          /\ setup' = [profile |-> profile, dir |-> dir, entry |-> SignalPrice, stop |-> stop,
                       goals |-> prices, floor |-> Floor(atr, range), cap |-> Cap(atr)]
          /\ goals' = prices /\ taken' = [i \in DOMAIN prices |-> 0]
          /\ UNCHANGED <<lots, entered, average, protect, gross, fees, adds, stance,
                         asked, moves, giving, evenAt, candle, candles, mover>>
  BY Zenon DEF PlanTrade
<1>2. SignalPrice \in Int /\ Tick \in Nat /\ Tick > 0
  BY ProfileAssumption
<1>3. PICK proposed \in Int : proposed = Structural(profile, dir, depth, atr)
  BY StructuralIs
<1>4. Floor(atr, range) <= Cap(atr) /\ Tick <= Cap(atr)
  BY <1>1
<1>5. PICK f \in Nat, c \in Nat, far \in Int :
        f = Floor(atr, range) /\ c = Cap(atr) /\ f <= far /\ far <= c
        /\ far = StopDistance(dir * (SignalPrice - proposed), atr, range)
  <2>1. dir * (SignalPrice - proposed) \in Int
    BY <1>2
  <2> QED
    BY <1>4, <2>1, DistanceIs
<1>6. PICK p \in Int : p = SignalPrice - dir * far
  BY <1>2
<1>7. PICK stop \in Int : stop = Loss(dir, p) /\ dir * stop <= dir * p /\ dir * p < dir * stop + Tick
  BY LossIs
<1>8. PICK risk \in Int : risk = dir * (SignalPrice - stop) /\ f <= risk /\ risk < c + Tick
  BY <1>2, <1>5, <1>6, <1>7
<1>9. PICK prices \in Seq(Int) : prices = Goals(profile, dir, risk, reach)
  BY GoalsAre
<1>10. Len(prices) = Len(Shares[profile]) /\ (profile # "pattern_targets" =>
         \A i \in 1 .. Len(prices) : dir * (prices[i] - SignalPrice) - EntryFee - ExitFee >= Ratios[profile][i] * risk)
  BY <1>9, GoalsAre
<1>11. PICK s : s = [profile |-> profile, dir |-> dir, entry |-> SignalPrice, stop |-> stop,
                     goals |-> prices, floor |-> f, cap |-> c]
  OBVIOUS
<1>12. /\ setup = NoSetup /\ setup' = s /\ goals' = prices /\ taken' = [i \in DOMAIN prices |-> 0]
       /\ UNCHANGED <<lots, entered, average, protect, gross, fees, adds, stance,
                      asked, moves, giving, evenAt, candle, candles, mover>>
  BY <1>1, <1>3, <1>5, <1>6, <1>7, <1>8, <1>9, <1>11
<1>13. PICK n \in Nat : n = Len(prices) /\ DOMAIN prices = 1 .. n
  BY SeqIs
<1>14. taken' \in Seq(Nat) /\ Len(taken') = n /\ DOMAIN taken' = 1 .. n /\ \A i \in 1 .. n : taken'[i] = 0
  BY <1>12, <1>13, FunctionIsSeq
<1>15. SetupIs(s) /\ s # NoSetup
  <2>1. s # NoSetup
    BY <1>11 DEF NoSetup
  <2> QED
    BY <1>10, <1>11, <2>1 DEF SetupIs
<1>16. ProfileTypes'
  BY <1>12, <1>13, <1>14, <1>15 DEF ProfileInv, ProfileTypes, stance
<1>17. lots = 0 /\ entered = 0
  BY <1>12, SMTT(60) DEF ProfileInv, ProfileTypes, Counts
<1>18. Counts'
  <2>1. s.profile = profile
    BY <1>11
  <2> QED
    BY <1>10, <1>12, <1>13, <1>14, <1>15, <1>17, <2>1 DEF ProfileInv, Counts, NoAsk
<1>19. GoalsPay'
  <2>1. s.floor = f /\ s.cap = c /\ s.profile = profile /\ s.dir = dir /\ s.entry = SignalPrice /\ s.goals = prices
        /\ s.stop = stop
    BY <1>11
  <2>2. RiskOf(s) = risk
    BY <1>8, <2>1 DEF RiskOf
  <2>3. PlanOK(s)
    BY <1>8, <1>10, <2>1, <2>2 DEF PlanOK, PaysAt
  <2> QED
    BY <1>12, <1>17, <2>3 DEF GoalsPay
<1>20. StopsInv'
  BY <1>12, <1>17 DEF StopsInv
<1> QED
  BY <1>16, <1>18, <1>19, <1>20 DEF ProfileInv

LEMMA PaysMore ==
  ASSUME NEW s, SetupIs(s), NEW i \in 1 .. Len(s.goals), NEW a \in Int, NEW b \in Int, a <= b, PaysAt(s, i, a)
  PROVE  PaysAt(s, i, b)
<1>1. s.profile \in ProfileNames /\ EntryFee \in Int /\ ExitFee \in Int /\ SignalPrice \in Int /\ s.stop \in Int
      /\ s.dir \in {1, -1} /\ s.entry = SignalPrice /\ Len(s.goals) = Len(Shares[s.profile])
  BY ProfileAssumption DEF SetupIs
<1>2. Ratios[s.profile] \in Seq(Nat) /\ Len(Ratios[s.profile]) = Len(s.goals)
  BY <1>1, ProfileAssumption
<1>3. Ratios[s.profile][i] \in Nat
  BY <1>2, SeqIs
<1>4. RiskOf(s) \in Int
  BY <1>1 DEF RiskOf
<1>5. PICK x \in Int : x = Ratios[s.profile][i] * RiskOf(s)
  BY <1>3, <1>4
<1> QED
  BY <1>1, <1>5 DEF PaysAt

LEMMA SetupParts ==
  ASSUME ProfileInv, setup # NoSetup
  PROVE  /\ SetupIs(setup) /\ Dir \in {1, -1} /\ Dir = setup.dir /\ setup.profile \in ProfileNames
         /\ setup.entry \in Int /\ setup.stop \in Int /\ Risk \in Int /\ Risk = RiskOf(setup)
         /\ setup.goals \in Seq(Int) /\ Len(setup.goals) = Len(goals)
         /\ Len(goals) = Len(Shares[setup.profile]) /\ Len(taken) = Len(goals)
         /\ Len(goals) \in Nat /\ DOMAIN goals = 1 .. Len(goals) /\ DOMAIN taken = 1 .. Len(goals)
         /\ \A i \in 1 .. Len(goals) : goals[i] \in Int /\ taken[i] \in Nat /\ setup.goals[i] \in Int
<1>1. SetupIs(setup) /\ SignalPrice \in Int
  BY ProfileAssumption DEF ProfileInv, ProfileTypes
<1>2. Dir \in {1, -1} /\ Dir = setup.dir /\ setup.profile \in ProfileNames /\ setup.entry \in Int /\ setup.stop \in Int
      /\ setup.goals \in Seq(Int) /\ Len(setup.goals) = Len(Shares[setup.profile])
  BY <1>1 DEF SetupIs, Dir
<1>3. Risk \in Int /\ Risk = RiskOf(setup)
  BY <1>2 DEF Risk, RiskOf
<1>4. goals \in Seq(Int) /\ taken \in Seq(Nat) /\ Len(goals) = Len(taken) /\ Len(goals) = Len(Shares[setup.profile])
  BY DEF ProfileInv, ProfileTypes, Counts
<1>5. /\ Len(goals) \in Nat /\ DOMAIN goals = 1 .. Len(goals) /\ \A i \in 1 .. Len(goals) : goals[i] \in Int
      /\ DOMAIN taken = 1 .. Len(taken) /\ \A i \in 1 .. Len(taken) : taken[i] \in Nat
      /\ \A i \in 1 .. Len(setup.goals) : setup.goals[i] \in Int
  BY <1>2, <1>4, SeqIs
<1> QED
  BY <1>1, <1>2, <1>3, <1>4, <1>5

LEMMA RebasedIs ==
  ASSUME ProfileInv, setup # NoSetup, NEW at \in Int
  PROVE  /\ RebasedGoals(at) \in Seq(Int) /\ Len(RebasedGoals(at)) = Len(goals) /\ RebasedStop(at) \in Int
         /\ setup.profile # "pattern_targets" => \A i \in 1 .. Len(goals) :
              taken[i] = 0 => PaysAt(setup, i, setup.dir * (RebasedGoals(at)[i] - at))
<1>1. /\ SetupIs(setup) /\ Dir \in {1, -1} /\ Dir = setup.dir /\ setup.profile \in ProfileNames /\ Risk \in Int
      /\ setup.entry \in Int /\ setup.goals \in Seq(Int) /\ Len(setup.goals) = Len(goals)
  BY SetupParts
<1>2. PICK n \in Nat : n = Len(goals) /\ DOMAIN goals = 1 .. n
  BY SetupParts
<1>3. \A i \in 1 .. n : goals[i] \in Int /\ taken[i] \in Nat /\ setup.goals[i] \in Int
  BY <1>2, SetupParts
<1>4. ASSUME NEW i \in 1 .. n
      PROVE  \E to \in Int, g \in Int : /\ to = at + setup.goals[i] - setup.entry
                                      /\ g = Gain(Dir, to) /\ Dir * to <= Dir * g
  <2>1. PICK to \in Int : to = at + setup.goals[i] - setup.entry
    BY <1>1, <1>3, SMTT(60)
  <2>2. PICK d \in {1, -1} : d = Dir
    BY <1>1
  <2>3. Gain(d, to) \in Int /\ d * to <= d * Gain(d, to)
    BY GainIs
  <2> QED
    BY <2>1, <2>2, <2>3
<1>5. RebasedGoals(at) = [i \in 1 .. n |-> IF setup.profile = "pattern_targets" \/ taken[i] > 0 THEN goals[i]
                                           ELSE Gain(Dir, at + setup.goals[i] - setup.entry)]
  BY <1>2 DEF RebasedGoals
<1>6. RebasedGoals(at) \in [1 .. n -> Int]
  <2>1. \A i \in 1 .. n : Gain(Dir, at + setup.goals[i] - setup.entry) \in Int
    BY <1>4
  <2> QED
    BY <1>3, <1>5, <2>1
<1>7. RebasedGoals(at) \in Seq(Int) /\ Len(RebasedGoals(at)) = n
  BY <1>6, FunctionIsSeq
<1>8. ASSUME setup.profile # "pattern_targets", NEW i \in 1 .. n, taken[i] = 0
      PROVE  PaysAt(setup, i, setup.dir * (RebasedGoals(at)[i] - at))
  <2>0. PICK to \in Int, g \in Int :
          to = at + setup.goals[i] - setup.entry /\ g = Gain(Dir, to) /\ Dir * to <= Dir * g
    BY <1>4, <1>8
  <2>1. PICK from \in Int : from = Dir * (setup.goals[i] - setup.entry)
    BY <1>1, <1>3
  <2>2. RebasedGoals(at)[i] = g
    BY <1>3, <1>5, <1>8, <2>0
  <2>3. PaysAt(setup, i, from)
    BY <1>1, <1>2, <1>8, <2>1 DEF ProfileInv, GoalsPay, PlanOK
  <2>4. to - at = setup.goals[i] - setup.entry
    BY <1>1, <1>3, <2>0
  <2>5. PICK now2 \in Int : now2 = Dir * (g - at) /\ from <= now2
    <3>1. from = Dir * (to - at)
      BY <2>1, <2>4
    <3>2. CASE Dir = 1
      BY <2>0, <3>1, <3>2
    <3>3. CASE Dir = -1
      BY <2>0, <3>1, <3>3
    <3> QED
      BY <1>1, <3>2, <3>3
  <2>6. i \in 1 .. Len(setup.goals)
    BY <1>1, <1>2
  <2>7. PaysAt(setup, i, now2)
    BY <1>1, <2>3, <2>5, <2>6, PaysMore
  <2> QED
    BY <1>1, <2>2, <2>5, <2>7
<1>9. RebasedStop(at) \in Int
  <2>1. PICK p \in Int, d \in {1, -1} : p = at - Dir * Risk /\ d = Dir
    BY <1>1
  <2>2. Loss(d, p) \in Int
    BY LossIs
  <2> QED
    BY <2>1, <2>2 DEF RebasedStop
<1> QED
  BY <1>2, <1>7, <1>8, <1>9

LEMMA EntryFillStep == ProfileInv /\ EntryIsFilled => ProfileInv'
<1> SUFFICES ASSUME ProfileInv, EntryIsFilled PROVE ProfileInv'
  OBVIOUS
<1>1. PICK size \in Lots, better \in {0, Tick} :
      LET at == SignalPrice - Dir * better
      IN  /\ setup # NoSetup /\ entered = 0
          /\ lots' = size /\ entered' = size /\ average' = at /\ fees' = EntryFee * size
          /\ protect' = RebasedStop(at) /\ goals' = RebasedGoals(at)
          /\ UNCHANGED <<setup, taken, gross, adds, stance, asked, moves, giving, evenAt,
                         candle, candles, mover>>
  BY Zenon DEF EntryIsFilled
<1>2. setup # NoSetup /\ SignalPrice \in Int /\ Tick \in Nat /\ size \in Nat /\ size > 0 /\ EntryFee \in Nat
  BY <1>1, ProfileAssumption
<1>3. PICK at \in Int : at = SignalPrice - Dir * better
  BY <1>2, SetupParts
<1>4. /\ entered = 0 /\ lots' = size /\ entered' = size /\ average' = at /\ fees' = EntryFee * size
      /\ protect' = RebasedStop(at) /\ goals' = RebasedGoals(at)
      /\ UNCHANGED <<setup, taken, gross, adds, stance, asked, moves, giving, evenAt, candle, candles, mover>>
  BY <1>1, <1>3
<1>5. PICK n \in Nat : n = Len(goals) /\ DOMAIN taken = 1 .. n /\ Len(taken) = n
  BY <1>2, SetupParts
<1>6. lots = 0 /\ giving = 0 /\ moves = <<>> /\ asked = NoAsk /\ evenAt = 0 /\ \A i \in 1 .. n : taken[i] = 0
  <2>1. moves = <<>> /\ asked = NoAsk /\ evenAt = 0 /\ \A i \in 1 .. n : taken[i] = 0
    BY <1>4, <1>5 DEF ProfileInv, Counts
  <2>2. lots \in Nat /\ giving \in Nat /\ lots <= entered /\ giving <= lots
    BY DEF ProfileInv, ProfileTypes, Counts
  <2> QED
    BY <1>4, <2>1, <2>2
<1>7. RebasedGoals(at) \in Seq(Int) /\ Len(RebasedGoals(at)) = n /\ RebasedStop(at) \in Int
  BY <1>2, <1>5, RebasedIs
<1>8. EntryFee * size \in Nat
  BY <1>2
<1>9. ProfileTypes'
  BY <1>2, <1>4, <1>5, <1>7, <1>8 DEF ProfileInv, ProfileTypes, stance
<1>10. Counts'
  <2>1. setup.profile \in ProfileNames
    BY <1>2, SetupParts
  <2>2. PICK a \in Seq(Nat) : a = Allocation(size) /\ Len(a) = Len(Shares[setup.profile])
    BY <1>2, <2>1, Allots
  <2>3. Len(Shares[setup.profile]) = n /\ \A i \in 1 .. n : a[i] \in Nat
    BY <1>2, <1>5, <2>2, SetupParts, SeqIs
  <2>4. Total(taken) = 0
    <3>1. taken \in Seq(Nat)
      BY DEF ProfileInv, ProfileTypes
    <3>2. \A s \in Seq(Nat) : s \in Seq(Int)
      OBVIOUS
    <3> QED
      BY <1>5, <1>6, <3>1, <3>2, TotalOfNone
  <2>5. Allocation(entered)' = a /\ Total(taken)' = 0
    <3>1. setup' = setup /\ entered' = size /\ taken' = taken
      BY <1>4
    <3>2. Allocation(entered)' = Allocation(size)
      BY <3>1, SMTT(30) DEF Allocation, Allotted
    <3> QED
      BY <2>2, <2>4, <3>1, <3>2, Zenon
  <2>6. \A i \in DOMAIN taken' : taken'[i] <= a[i]
    BY <1>4, <1>5, <1>6, <2>3
  <2>7. asked'.size = 0
    BY <1>4, <1>6 DEF NoAsk
  <2>8. Len(goals') = Len(Shares[setup'.profile])
    BY <1>4, <1>7, <2>3
  <2> QED
    BY <1>2, <1>4, <1>6, <2>5, <2>6, <2>7, <2>8 DEF Counts
<1>11. GoalsPay'
  <2>1. PlanOK(setup)
    BY <1>2 DEF ProfileInv, GoalsPay
  <2>2. setup.profile # "pattern_targets" => \A i \in 1 .. n : PaysAt(setup, i, setup.dir * (RebasedGoals(at)[i] - at))
    BY <1>2, <1>5, <1>6, RebasedIs
  <2> QED
    BY <1>4, <1>7, <2>1, <2>2 DEF GoalsPay
<1>12. StopsInv'
  BY <1>2, <1>4, <1>6 DEF StopsInv, Reduced
<1> QED
  BY <1>9, <1>10, <1>11, <1>12 DEF ProfileInv

StopRecords == [price : Int, even : BOOLEAN]
StopsOK(s) == s \in Seq(StopRecords) /\ \A k \in 1 .. Len(s) : StopOK(s[k])

LEMMA HeldParts ==
  ASSUME ProfileInv, lots > 0
  PROVE  /\ setup # NoSetup /\ Dir \in {1, -1} /\ lots \in Nat /\ entered \in Nat /\ entered > 0 /\ lots <= entered
         /\ average \in Int /\ protect \in Int /\ gross \in Int /\ fees \in Nat /\ Close \in Int
         /\ EntryFee \in Nat /\ ExitFee \in Nat /\ Tick \in Nat /\ Tick > 0 /\ SignalPrice \in Int
         /\ \A x \in Int : At(x) \in Int
<1>1. lots \in Nat /\ entered \in Nat /\ lots <= entered /\ (setup = NoSetup => entered = 0)
      /\ average \in Int /\ protect \in Int /\ gross \in Int /\ fees \in Nat /\ candle.close \in Int
  BY DEF ProfileInv, ProfileTypes, Counts
<1>2. setup # NoSetup
  BY <1>1
<1>3. EntryFee \in Nat /\ ExitFee \in Nat /\ Tick \in Nat /\ Tick > 0 /\ SignalPrice \in Int
  BY ProfileAssumption
<1>4. Dir \in {1, -1}
  BY <1>2, SetupParts
<1>5. \A x \in Int : At(x) \in Int
  BY <1>3, <1>4 DEF At
<1> QED
  BY <1>1, <1>2, <1>3, <1>4, <1>5 DEF Close

LEMMA EvenCovers ==
  ASSUME ProfileInv, lots > 0
  PROVE  WholeTradeEven \in Int /\ Covers(WholeTradeEven)
<1>1. /\ Dir \in {1, -1} /\ lots \in Nat /\ average \in Int /\ gross \in Int /\ fees \in Nat
      /\ ExitFee \in Nat /\ Tick \in Nat /\ Tick > 0
  BY HeldParts
<1>2. PICK d \in {1, -1} : d = Dir
  BY <1>1
<1>3. PICK a \in Int, e \in Int : a = d * average * lots /\ e = ExitFee * lots
  BY <1>1
<1>4. PICK owed \in Int : owed = a + fees + e - gross
  BY <1>1
<1>5. PICK t \in Nat : t = lots * Tick /\ t > 0
  BY <1>1
<1>6. PICK q \in Int : q = (-owed) \div t /\ q * t <= -owed
  BY <1>5, Divides
<1>7. PICK p \in Int : p = -q * Tick
  BY <1>1
<1>8. WholeTradeEven = d * p
  <2>1. Dir * average * lots + fees + ExitFee * lots - gross = owed
    BY <1>2, <1>3, <1>4
  <2>2. EvenPrice = Dir * (-((-owed) \div t) * Tick)
    BY <2>1, <1>5 DEF EvenPrice
  <2> QED
    BY <2>2, <1>2, <1>6, <1>7 DEF WholeTradeEven
<1>9. p * lots >= owed
  <2>1. p * lots = -(q * t)
    BY <1>1, <1>5, <1>7
  <2> QED
    BY <2>1, <1>4, <1>6
<1>10. lots * (d * (d * p - average)) = p * lots - a
  BY <1>1, <1>3
<1>11. Covers(d * p)
  <2>1. PICK x \in Int : x = p * lots
    BY <1>1
  <2>2. gross + (x - a) - fees - e >= 0
    BY <2>1, <1>1, <1>3, <1>4, <1>9
  <2>3. lots * (Dir * (d * p - average)) = x - a
    BY <1>2, <1>10, <2>1
  <2> QED
    BY <2>2, <2>3, <1>3 DEF Covers
<1> QED
  BY <1>8, <1>11

LEMMA FixationReduces ==
  ASSUME ProfileInv, lots > 0, FirstFixation
  PROVE  Reduced
<1>1. CASE 1 \in Completed
  <2>1. 1 \in DOMAIN taken /\ taken[1] > 0 /\ taken \in Seq(Nat)
    BY <1>1 DEF Completed, ProfileInv, ProfileTypes
  <2>2. taken[1] <= Total(taken) /\ Total(taken) \in Nat
    BY <2>1, SeqIs, TotalHolds
  <2>3. lots <= entered - Total(taken) /\ lots \in Nat /\ entered \in Nat
    BY HeldParts DEF ProfileInv, Counts
  <2>4. taken[1] \in Nat
    BY <2>1, SeqIs
  <2> QED
    BY <2>1, <2>2, <2>3, <2>4 DEF Reduced
<1> QED
  BY <1>1 DEF FirstFixation

LEMMA NoneOK == StopsOK(<<>>)
BY DEF StopsOK

LEMMA OneOK ==
  ASSUME NEW m \in StopRecords, StopOK(m)
  PROVE  StopsOK(<<m>>)
<1>1. <<m>> \in Seq(StopRecords) /\ Len(<<m>>) = 1 /\ <<m>>[1] = m
  OBVIOUS
<1> QED
  BY <1>1 DEF StopsOK

LEMMA BothOK ==
  ASSUME NEW s, NEW t, StopsOK(s), StopsOK(t)
  PROVE  StopsOK(s \o t)
<1>1. s \in Seq(StopRecords) /\ t \in Seq(StopRecords) /\ Len(s) \in Nat /\ Len(t) \in Nat
  BY SeqIs DEF StopsOK
<1>2. s \o t \in Seq(StopRecords) /\ Len(s \o t) = Len(s) + Len(t)
  BY <1>1
<1>3. ASSUME NEW k \in 1 .. Len(s \o t) PROVE StopOK((s \o t)[k])
  <2>1. CASE k <= Len(s)
    <3>1. (s \o t)[k] = s[k] /\ k \in 1 .. Len(s)
      BY <1>1, <1>2, <2>1
    <3> QED
      BY <3>1 DEF StopsOK
  <2>2. CASE k > Len(s)
    <3>1. (s \o t)[k] = t[k - Len(s)] /\ k - Len(s) \in 1 .. Len(t)
      BY <1>1, <1>2, <2>2
    <3> QED
      BY <3>1 DEF StopsOK
  <2> QED
    BY <1>1, <1>2, <2>1, <2>2
<1> QED
  BY <1>2, <1>3 DEF StopsOK

LEMMA EvenStopsOK ==
  ASSUME ProfileInv, lots > 0
  PROVE  StopsOK(GuardMoves) /\ StopsOK(EvenMoves)
<1>1. WholeTradeEven \in Int /\ Covers(WholeTradeEven)
  BY EvenCovers
<1>2. PICK e \in Int : e = WholeTradeEven
  BY <1>1
<1>3. PICK m \in StopRecords : m = [price |-> e, even |-> TRUE]
  BY DEF StopRecords
<1>4. ASSUME FirstFixation, Beyond(Dir, e, protect), Beyond(Dir, Close, e) PROVE StopsOK(<<m>>)
  <2>1. Reduced
    BY <1>4, FixationReduces
  <2>2. m.price = e
    BY <1>3
  <2>3. StopOK(m)
    BY <1>1, <1>2, <1>4, <2>1, <2>2 DEF StopOK
  <2> QED
    BY <2>3, OneOK
<1>5. StopsOK(GuardMoves)
  BY <1>2, <1>3, <1>4, NoneOK DEF GuardMoves
<1>6. 1 \in Completed => FirstFixation
  BY DEF FirstFixation
<1>7. StopsOK(EvenMoves)
  BY <1>2, <1>3, <1>4, <1>6, NoneOK DEF EvenMoves
<1> QED
  BY <1>5, <1>7

LEMMA HeadOfOne == ASSUME NEW m PROVE Head(<<m>>) = m /\ <<m>> # <<>>
OBVIOUS

LEMMA WantOK ==
  ASSUME ProfileInv, lots > 0, NEW want \in ProfileWants
  PROVE  /\ StopsOK(WithinMarket(want.stops)) /\ want.give \in 0 .. lots
         /\ setup.profile # "ma_cloud" => want.give = 0
<1>1. /\ Dir \in {1, -1} /\ lots \in Nat /\ protect \in Int /\ Close \in Int /\ setup # NoSetup
      /\ \A x \in Int : At(x) \in Int
  BY HeldParts
<1>2. ASSUME NEW stop \in Int PROVE StopsOK(WithinMarket(Improving(stop)))
  <2>1. PICK m \in StopRecords : m = [price |-> stop, even |-> FALSE]
    BY DEF StopRecords
  <2>2. WithinMarket(<<>>) = <<>>
    BY DEF WithinMarket
  <2>3. CASE Beyond(Dir, stop, protect) /\ Beyond(Dir, Close, stop)
    <3>1. StopOK(m)
      BY <2>1, <2>3 DEF StopOK
    <3>2. Improving(stop) = <<m>>
      BY <2>1, <2>3, Zenon DEF Improving
    <3>4. m.price = stop
      BY <2>1
    <3>3. WithinMarket(<<m>>) = <<m>>
      BY <2>3, <3>4, HeadOfOne, Zenon DEF WithinMarket
    <3> QED
      BY <3>1, <3>2, <3>3, OneOK
  <2>4. CASE Beyond(Dir, stop, protect) /\ ~Beyond(Dir, Close, stop)
    <3>1. Improving(stop) = <<m>>
      BY <2>1, <2>4, Zenon DEF Improving
    <3>4. m.price = stop
      BY <2>1
    <3>2. WithinMarket(<<m>>) = <<>>
      BY <2>4, <3>4, HeadOfOne, Zenon DEF WithinMarket
    <3> QED
      BY <3>1, <3>2, NoneOK
  <2>5. CASE ~Beyond(Dir, stop, protect)
    BY <2>2, <2>5, NoneOK DEF Improving
  <2> QED
    BY <2>3, <2>4, <2>5
<1>3. StopsOK(WithinMarket(<<>>))
  BY NoneOK DEF WithinMarket
<1>4. StopsOK(WithinMarket(EvenMoves))
  <2>1. WithinMarket(EvenMoves) = <<>> \/ WithinMarket(EvenMoves) = EvenMoves
    BY DEF WithinMarket
  <2> QED
    BY <2>1, NoneOK, EvenStopsOK
<1>5. CASE want \in AtrWants /\ setup.profile = "atr_trend"
  <2>1. PICK atr \in Atrs : want = Wants(IF Trailing THEN Improving(Loss(Dir, Extreme - Dir * TrailAtr * atr)) ELSE <<>>, 0)
    BY <1>5 DEF AtrWants
  <2>2. Extreme \in Int
    BY <1>1 DEF Extreme, ProfileInv, ProfileTypes
  <2>3. TrailAtr \in Int /\ atr \in Int
    BY ProfileAssumption
  <2>4. PICK d \in {1, -1}, p \in Int : d = Dir /\ p = Extreme - Dir * TrailAtr * atr
    BY <1>1, <2>2, <2>3
  <2>5. Loss(d, p) \in Int
    BY LossIs
  <2>6. PICK s : s = IF Trailing THEN Improving(Loss(Dir, Extreme - Dir * TrailAtr * atr)) ELSE <<>>
    OBVIOUS
  <2>7. StopsOK(WithinMarket(s))
    BY <1>2, <1>3, <2>4, <2>5, <2>6
  <2>8. want.stops = s /\ want.give = 0
    BY <2>1, <2>6 DEF Wants
  <2> QED
    BY <1>1, <2>7, <2>8
<1>6. CASE want \in CloudWants /\ setup.profile = "ma_cloud"
  <2>0. candle.fast \in Int /\ candle.slow \in Int
    BY DEF ProfileInv, ProfileTypes
  <2>6. BufferTicks \in Int /\ Tick \in Int
    BY ProfileAssumption
  <2>1. PICK d \in {1, -1}, low \in Int :
          d = Dir /\ low = Lower(candle.fast, candle.slow) - BufferTicks * Tick
    BY <1>1, <2>0, <2>6 DEF Lower
  <2>2. Loss(d, At(low)) \in Int
    BY <1>1, LossIs
  <2>3. StopsOK(WithinMarket(CloudMoves))
    BY <1>2, <2>1, <2>2 DEF CloudMoves
  <2>4. want = Wants(<<>>, lots) \/ want = Wants(CloudMoves, IF lots > 1 /\ CloudEntered THEN 1 ELSE 0)
    BY <1>6 DEF CloudWants
  <2>5. (want.stops = <<>> /\ want.give = lots) \/ (want.stops = CloudMoves /\ want.give \in {0, 1})
    BY <2>4 DEF Wants
  <2> QED
    BY <1>1, <1>3, <1>6, <2>3, <2>5
<1>7. CASE want = Wants(EvenMoves, 0)
  <2>1. want.stops = EvenMoves /\ want.give = 0
    BY <1>7 DEF Wants
  <2> QED
    BY <1>1, <1>4, <2>1
<1> QED
  BY <1>5, <1>6, <1>7 DEF ProfileWants, LevelsWants, PatternWants

LEMMA Allocates == entered' = entered /\ setup' = setup => Allocation(entered)' = Allocation(entered)
BY DEF Allocation, Allotted

(* Nothing of the position, the stop or the candle changes.                    *)
Stands == UNCHANGED <<setup, position, protect, evenAt, candle>>

LEMMA StandsStill ==
  ASSUME ProfileInv, Stands
  PROVE  /\ GoalsPay'
         /\ StopsOK(moves') => StopsInv'
<1>1. GoalsPay'
  BY DEF Stands, position, ProfileInv, GoalsPay
<1>2. ASSUME StopsOK(moves') PROVE StopsInv'
  <2>1. \A k \in 1 .. Len(moves') : StopOK(moves'[k])
    BY <1>2 DEF StopsOK
  <2>2. (\A k \in 1 .. Len(moves) : StopOK(moves[k]))'
    BY <2>1 DEF StopOK, Stands, position, Beyond, Dir, Close, At, Reduced, Covers
  <2>3. Allocation(entered)' = Allocation(entered)
    BY Allocates DEF Stands, position
  <2> QED
    BY <2>2, <2>3 DEF StopsInv, Stands, position, Beyond, Dir, At, Reduced, Covers, ProfileInv
<1> QED
  BY <1>1, <1>2

LEMMA ManageStep == ProfileInv /\ ManageTrade => ProfileInv'
<1> SUFFICES ASSUME ProfileInv, ManageTrade PROVE ProfileInv'
  OBVIOUS
<1>1. /\ lots > 0 /\ mover' = "signal"
      /\ UNCHANGED <<setup, position, protect, asked, evenAt, candle, candles>>
  BY DEF ManageTrade
<1>2. PICK obligated \in BOOLEAN, want \in ProfileWants :
         IF obligated /\ GuardMoves = <<>> /\ ~Carried
         THEN giving' = lots /\ moves' = <<>> /\ UNCHANGED stance
         ELSE /\ moves' = (IF obligated THEN GuardMoves ELSE <<>>) \o WithinMarket(want.stops)
              /\ giving' = want.give /\ KeepTrailing
  BY Zenon DEF ManageTrade
<1>3. StopsOK(WithinMarket(want.stops)) /\ want.give \in 0 .. lots /\ (setup.profile # "ma_cloud" => want.give = 0)
  BY <1>1, WantOK
<1>4. lots \in Nat /\ Dir \in {1, -1} /\ \A x \in Int : At(x) \in Int
  BY <1>1, HeldParts
<1>5. StopsOK(moves')
  <2>1. CASE moves' = <<>>
    BY <2>1, NoneOK
  <2>2. CASE moves' = (IF obligated THEN GuardMoves ELSE <<>>) \o WithinMarket(want.stops)
    <3>1. PICK s : s = IF obligated THEN GuardMoves ELSE <<>>
      OBVIOUS
    <3>2. StopsOK(s)
      BY <1>1, <3>1, NoneOK, EvenStopsOK
    <3> QED
      BY <1>3, <2>2, <3>1, <3>2, BothOK
  <2> QED
    BY <1>2, <2>1, <2>2
<1>6. giving' \in 0 .. lots /\ (setup.profile # "ma_cloud" => giving' \in {0, lots})
  <2>1. lots \in 0 .. lots /\ lots \in {0, lots} /\ 0 \in {0, lots}
    BY <1>4
  <2>2. giving' = lots \/ giving' = want.give
    BY <1>2
  <2>3. CASE giving' = lots
    BY <2>1, <2>3
  <2>4. CASE giving' = want.give
    BY <1>3, <2>1, <2>4
  <2> QED
    BY <2>2, <2>3, <2>4
<1>7. trail' \in BOOLEAN /\ peak' \in Int
  <2>1. Extreme \in Int
    BY <1>4 DEF Extreme, ProfileInv, ProfileTypes
  <2>2. trail \in BOOLEAN /\ peak \in Int
    BY DEF ProfileInv, ProfileTypes
  <2> QED
    BY <1>2, <2>1, <2>2 DEF KeepTrailing, stance
<1>8. ProfileTypes'
  <2>1. moves' \in Seq([price : Int, even : BOOLEAN])
    BY <1>5 DEF StopsOK, StopRecords
  <2>2. giving' \in Nat
    BY <1>4, <1>6
  <2> QED
    BY <1>1, <1>7, <2>1, <2>2 DEF position, ProfileInv, ProfileTypes
<1>9. Counts'
  <2>1. Allocation(entered)' = Allocation(entered)
    BY <1>1, Allocates DEF position
  <2>2. entered # 0 /\ giving' <= lots
    BY <1>1, <1>4, <1>6, HeldParts
  <2> QED
    BY <1>1, <1>6, <2>1, <2>2 DEF position, ProfileInv, Counts, Completed
<1>10. GoalsPay' /\ StopsInv'
  BY <1>1, <1>5, StandsStill DEF Stands
<1> QED
  BY <1>8, <1>9, <1>10 DEF ProfileInv

LEMMA StopsAre == ASSUME ProfileInv, lots > 0 PROVE StopsOK(moves)
BY DEF ProfileInv, ProfileTypes, StopsInv, StopsOK, StopRecords

LEMMA SignalStep == ProfileInv /\ SignalAdds => ProfileInv'
<1> SUFFICES ASSUME ProfileInv, SignalAdds PROVE ProfileInv'
  OBVIOUS
<1>1. /\ lots > 0 /\ mover' = "bar" /\ KeepTrailing
      /\ UNCHANGED <<setup, position, protect, moves, giving, evenAt, candle, candles>>
      /\ IF AddSize > 0 /\ ProfileAdds /\ giving = 0
         THEN asked' = [price |-> Close, size |-> AddSize] ELSE UNCHANGED asked
  BY DEF SignalAdds
<1>2. lots \in Nat /\ entered \in Nat /\ lots <= entered /\ Close \in Int /\ \A x \in Int : At(x) \in Int
  BY <1>1, HeldParts
<1>3. AddSize \in Nat /\ (AddSize > 0 => lots = entered /\ Completed = {})
  <2>1. AddPercent \in Nat
    BY ProfileAssumption
  <2>2. PICK x \in Nat : x = lots * AddPercent
    BY <1>2, <2>1
  <2>3. x \div 100 \in Nat
    OBVIOUS
  <2>4. AddSize \in Nat
    BY <2>2, <2>3 DEF AddSize
  <2>5. ASSUME AddSize > 0 PROVE ~Reduced /\ Completed = {}
    BY <2>5 DEF AddSize
  <2> QED
    BY <1>2, <2>4, <2>5 DEF Reduced
<1>4. trail' \in BOOLEAN /\ peak' \in Int
  <2>1. Extreme \in Int
    BY <1>2 DEF Extreme, ProfileInv, ProfileTypes
  <2>2. trail \in BOOLEAN /\ peak \in Int
    BY DEF ProfileInv, ProfileTypes
  <2> QED
    BY <1>1, <2>1, <2>2 DEF KeepTrailing, stance
<1>5. asked' \in [price : Int, size : Nat]
  <2>1. asked \in [price : Int, size : Nat]
    BY DEF ProfileInv, ProfileTypes
  <2> QED
    BY <1>1, <1>2, <1>3, <2>1
<1>6. ProfileTypes'
  BY <1>1, <1>4, <1>5 DEF position, ProfileInv, ProfileTypes
<1>7. asked'.size > 0 => lots = entered /\ Completed = {}
  <2>1. CASE asked' = [price |-> Close, size |-> AddSize]
    BY <1>3, <2>1
  <2>2. CASE asked' = asked
    BY <2>2 DEF ProfileInv, Counts
  <2> QED
    BY <1>1, <2>1, <2>2
<1>8. Counts'
  <2>1. Allocation(entered)' = Allocation(entered)
    BY <1>1, Allocates DEF position
  <2>2. entered # 0
    BY <1>1, HeldParts
  <2> QED
    BY <1>1, <1>7, <2>1, <2>2 DEF position, ProfileInv, Counts, Completed
<1>9. GoalsPay' /\ StopsInv'
  BY <1>1, StopsAre, StandsStill DEF Stands
<1> QED
  BY <1>6, <1>8, <1>9 DEF ProfileInv

LEMMA OppositeStep == ProfileInv /\ OppositeSignal => ProfileInv'
<1> SUFFICES ASSUME ProfileInv, OppositeSignal PROVE ProfileInv'
  OBVIOUS
<1>1. /\ lots > 0 /\ mover' = "bar" /\ giving' = lots
      /\ UNCHANGED <<setup, position, protect, stance, asked, moves, evenAt, candle, candles>>
  BY DEF OppositeSignal
<1>2. lots \in Nat /\ entered # 0
  BY <1>1, HeldParts
<1>3. ProfileTypes'
  BY <1>1, <1>2 DEF position, stance, ProfileInv, ProfileTypes
<1>4. Counts'
  <2>1. Allocation(entered)' = Allocation(entered)
    BY <1>1, Allocates DEF position
  <2> QED
    BY <1>1, <1>2, <2>1 DEF position, ProfileInv, Counts, Completed
<1>5. GoalsPay' /\ StopsInv'
  BY <1>1, StopsAre, StandsStill DEF Stands
<1> QED
  BY <1>3, <1>4, <1>5 DEF ProfileInv

(* What is sold at the targets of a bar: of each no more than it has left, and  *)
(* no more than is held.                                                       *)
SoldIs(sold, all, gone, room, hit) ==
    sold = [i \in 1 .. Len(all) |-> IF i \in hit THEN Lower(all[i] - gone[i], room) ELSE 0]
AddedTo(after, gone, sold) == after = [i \in 1 .. Len(gone) |-> gone[i] + sold[i]]

NoMore(gone, all) == Len(gone) = Len(all) /\ \A i \in 1 .. Len(all) : gone[i] <= all[i]
Sold(n, all, gone, room, hit, sold, after) ==
    /\ sold \in Seq(Nat) /\ Len(sold) = n /\ after \in Seq(Nat) /\ Len(after) = n
    /\ Total(sold) \in Nat /\ Total(gone) \in Nat /\ Total(all) \in Nat
    /\ Total(after) = Total(gone) + Total(sold) /\ Total(after) <= Total(all)
    /\ \A i \in 1 .. n : /\ sold[i] \in Nat /\ sold[i] <= Total(sold) /\ after[i] = gone[i] + sold[i]
                         /\ after[i] <= all[i]
                         /\ i \in hit => after[i] = all[i] \/ sold[i] = room
                         /\ sold[i] > 0 => i \in hit /\ gone[i] < all[i]
                         /\ room = 0 => sold[i] = 0

LEMMA SoldSum ==
  ASSUME NEW all \in Seq(Nat), NEW gone \in Seq(Nat), NEW room \in Nat, NEW hit, NEW sold, NEW after,
         NoMore(gone, all), SoldIs(sold, all, gone, room, hit), AddedTo(after, gone, sold)
  PROVE  Sold(Len(all), all, gone, room, hit, sold, after)
<1>1. PICK n \in Nat : n = Len(all) /\ n = Len(gone)
      /\ \A i \in 1 .. n : all[i] \in Nat /\ gone[i] \in Nat /\ gone[i] <= all[i]
  BY SeqIs DEF NoMore
<1>2. ASSUME NEW i \in 1 .. n
      PROVE  /\ sold[i] \in Nat /\ after[i] \in Nat /\ after[i] = gone[i] + sold[i] /\ after[i] <= all[i]
             /\ i \in hit => after[i] = all[i] \/ sold[i] = room
             /\ sold[i] > 0 => i \in hit /\ gone[i] < all[i]
             /\ room = 0 => sold[i] = 0
  <2>1. sold[i] = (IF i \in hit THEN Lower(all[i] - gone[i], room) ELSE 0) /\ after[i] = gone[i] + sold[i]
    BY <1>1 DEF SoldIs, AddedTo
  <2>2. all[i] \in Nat /\ gone[i] \in Nat /\ gone[i] <= all[i]
    BY <1>1
  <2>3. CASE i \in hit
    <3>1. PICK more \in Nat : more = all[i] - gone[i]
      BY <2>2
    <3>2. sold[i] = Lower(more, room)
      BY <2>1, <2>3, <3>1
    <3>3. sold[i] \in 0 .. more /\ sold[i] <= room /\ (sold[i] = more \/ sold[i] = room)
      BY <3>2 DEF Lower
    <3>4. sold[i] \in Nat /\ after[i] \in Nat /\ after[i] <= all[i] /\ (after[i] = all[i] \/ sold[i] = room)
          /\ (sold[i] > 0 => gone[i] < all[i]) /\ (room = 0 => sold[i] = 0)
      <4>1. PICK a \in Nat, g \in Nat, s \in Nat : a = all[i] /\ g = gone[i] /\ s = sold[i]
        BY <2>2, <3>3
      <4>2. more = a - g /\ s <= more /\ s <= room /\ (s = more \/ s = room)
        BY <3>1, <3>3, <4>1
      <4>3. after[i] = g + s
        BY <2>1, <4>1
      <4>4. g + s \in Nat /\ g + s <= a /\ (g + s = a \/ s = room) /\ (s > 0 => g < a) /\ (room = 0 => s = 0)
        BY <4>2
      <4> QED
        BY <4>1, <4>3, <4>4
    <3> QED
      BY <2>1, <2>3, <3>4, Zenon
  <2>4. CASE i \notin hit
    BY <2>1, <2>2, <2>4
  <2> QED
    BY <2>3, <2>4, Zenon
<1>3. sold \in [1 .. n -> Nat] /\ after \in [1 .. n -> Nat]
  BY <1>1, <1>2 DEF SoldIs, AddedTo
<1>4. sold \in Seq(Nat) /\ Len(sold) = n /\ after \in Seq(Nat) /\ Len(after) = n
  <2>1. sold \in Seq(Nat) /\ Len(sold) = n
    BY <1>3, FunctionIsSeq
  <2>2. after \in Seq(Nat) /\ Len(after) = n
    BY <1>3, FunctionIsSeq
  <2> QED
    BY <2>1, <2>2
<1>5. \A s \in Seq(Nat) : s \in Seq(Int)
  OBVIOUS
<1>6. Total(sold) \in Nat /\ Total(gone) \in Nat /\ Total(all) \in Nat /\ \A i \in 1 .. n : sold[i] <= Total(sold)
  BY <1>4, TotalHolds
<1>7. Total(after) = Total(gone) + Total(sold)
  <2>1. PICK c \in Int : c = 1
    OBVIOUS
  <2>2. \A i \in 1 .. n : after[i] = gone[i] + c * sold[i]
    BY <1>1, <1>2, <2>1
  <2>3. Linear(after, gone, sold, c)
    BY <1>1, <1>4, <2>2 DEF Linear
  <2>4. after \in Seq(Int) /\ gone \in Seq(Int) /\ sold \in Seq(Int)
    BY <1>4, <1>5
  <2>5. Total(after) = Total(gone) + c * Total(sold)
    BY <2>3, <2>4, TotalLinear
  <2> QED
    BY <1>6, <2>1, <2>5
<1>8. Total(after) <= Total(all)
  BY <1>1, <1>2, <1>4, <1>5, TotalUnder
<1> QED
  BY <1>1, <1>2, <1>4, <1>6, <1>7, <1>8 DEF Sold

(* A sale at the stop's price or better covers what it covered before.         *)
SoldAbove(sold, prices, d, x) == \A i \in 1 .. Len(sold) : sold[i] > 0 => d * (prices[i] - x) >= 0
WellCovered(d, x, base, stock, money, paid) == money + stock * (d * (x - base)) - paid - ExitFee * stock >= 0
StillCovered(sold, prices, d, x, base, stock, given2, open, money, paid) ==
    LET gains == [i \in 1 .. Len(sold) |-> sold[i] * d * (prices[i] - base)]
        gone == given2 + Total(sold)
        earned == money + given2 * d * (open - base) + Total(gains)
    IN  /\ gains \in Seq(Int) /\ earned \in Int /\ Total(gains) \in Int
        /\ WellCovered(d, x, base, stock - gone, earned, paid + ExitFee * gone)
LEMMA SaleCovers ==
  ASSUME NEW sold \in Seq(Nat), NEW prices \in Seq(Int), Len(prices) = Len(sold),
         NEW d \in {1, -1}, NEW x \in Int, NEW base \in Int, NEW stock \in Nat, NEW given2 \in Nat, NEW open \in Int,
         NEW money \in Int, NEW paid \in Nat,
         given2 > 0 => d * (open - x) >= 0, SoldAbove(sold, prices, d, x), WellCovered(d, x, base, stock, money, paid)
  PROVE  StillCovered(sold, prices, d, x, base, stock, given2, open, money, paid)
<1>0. PICK n \in Nat : n = Len(sold)
  BY SeqIs
<1>20. \A i \in 1 .. n : sold[i] > 0 => d * (prices[i] - x) >= 0
  BY <1>0 DEF SoldAbove
<1>21. money + stock * (d * (x - base)) - paid - ExitFee * stock >= 0
  BY DEF WellCovered
<1> DEFINE gains == [i \in 1 .. n |-> sold[i] * d * (prices[i] - base)]
           least == [i \in 1 .. n |-> (d * (x - base)) * sold[i]]
           zero == [i \in 1 .. n |-> 0]
<1>1. PICK c \in Int : c = d * (x - base)
  OBVIOUS
<1>2. \A i \in 1 .. n : sold[i] \in Nat /\ prices[i] \in Int
  BY <1>0, SeqIs
<1>3. ASSUME NEW i \in 1 .. n
      PROVE  gains[i] \in Int /\ least[i] \in Int /\ zero[i] = 0 /\ least[i] = zero[i] + c * sold[i] /\ least[i] <= gains[i]
  <2>1. PICK s \in Nat, p \in Int : s = sold[i] /\ p = prices[i]
    BY <1>2
  <2>2. gains[i] = s * d * (p - base) /\ least[i] = c * s /\ zero[i] = 0
    BY <1>1, <2>1
  <2>3. PICK e \in Int : e = d * (p - base)
    OBVIOUS
  <2>4. s * d * (p - base) = s * e
    <3>1. CASE d = 1
      BY <2>3, <3>1
    <3>2. CASE d = -1
      BY <2>3, <3>2
    <3> QED
      BY <3>1, <3>2
  <2>5. s > 0 => c <= e
    <3>1. s > 0 => d * (p - x) >= 0
      BY <1>20, <2>1
    <3>2. CASE d = 1
      BY <1>1, <2>3, <3>1, <3>2
    <3>3. CASE d = -1
      BY <1>1, <2>3, <3>1, <3>3
    <3> QED
      BY <3>2, <3>3
  <2>6. c * s \in Int /\ s * e \in Int /\ c * s <= s * e
    <3>1. CASE s = 0
      BY <3>1
    <3>2. CASE s > 0
      BY <2>5, <3>2
    <3> QED
      BY <3>1, <3>2
  <2> QED
    BY <2>1, <2>2, <2>4, <2>6
<1>4. gains \in [1 .. n -> Int] /\ least \in [1 .. n -> Int] /\ zero \in [1 .. n -> Int]
  BY <1>3
<1>5. /\ gains \in Seq(Int) /\ Len(gains) = n /\ least \in Seq(Int) /\ Len(least) = n /\ zero \in Seq(Int) /\ Len(zero) = n
  BY <1>4, FunctionIsSeq
<1> HIDE DEF gains, least, zero
<1>6. sold \in Seq(Int)
  OBVIOUS
<1>7. Total(least) = Total(zero) + c * Total(sold) /\ {Total(least), Total(zero), Total(sold)} \subseteq Int
  <2>1. \A i \in 1 .. n : least[i] = zero[i] + c * sold[i]
    BY <1>3
  <2>2. Len(zero) = Len(least) /\ Len(sold) = Len(least) /\ Len(least) = n
    BY <1>0, <1>5
  <2>3. Linear(least, zero, sold, c)
    BY <2>1, <2>2 DEF Linear
  <2> QED
    BY <1>5, <1>6, <2>3, TotalLinear
<1>8. Total(zero) = 0
  BY <1>3, <1>5, TotalOfNone
<1>9. Total(least) <= Total(gains) /\ Total(gains) \in Int
  BY <1>3, <1>5, TotalUnder
<1>10. PICK t \in Nat, w \in Int : t = Total(sold) /\ w = Total(gains) /\ w >= c * t
  BY <1>7, <1>8, <1>9, TotalHolds
<1>11. PICK o \in Int : o = given2 * d * (open - base) /\ o >= given2 * c
  <2>1. PICK e \in Int : e = d * (open - base)
    OBVIOUS
  <2>2. given2 * d * (open - base) = given2 * e
    <3>1. CASE d = 1
      BY <2>1, <3>1
    <3>2. CASE d = -1
      BY <2>1, <3>2
    <3> QED
      BY <3>1, <3>2
  <2>3. given2 > 0 => c <= e
    <3>2. CASE d = 1
      BY <1>1, <2>1, <3>2
    <3>3. CASE d = -1
      BY <1>1, <2>1, <3>3
    <3> QED
      BY <3>2, <3>3
  <2>4. given2 * e \in Int /\ given2 * e >= given2 * c
    <3>1. CASE given2 = 0
      BY <3>1
    <3>2. CASE given2 > 0
      BY <2>3, <3>2
    <3> QED
      BY <3>1, <3>2
  <2> QED
    BY <2>2, <2>4
<1>12. PICK f \in Nat : f = ExitFee
  BY ProfileAssumption
<1>13. money + stock * c - paid - f * stock >= 0
  BY <1>1, <1>12, <1>21
<1>14. (money + o + w) + (stock - (given2 + t)) * c - (paid + f * (given2 + t)) - f * (stock - (given2 + t)) >= 0
  <2>1. PICK a1 \in Int, a2 \in Int, a3 \in Int, b1 \in Int, b2 \in Int :
          a1 = stock * c /\ a2 = given2 * c /\ a3 = c * t /\ b1 = f * stock /\ b2 = f * (given2 + t)
    OBVIOUS
  <2>2. (stock - (given2 + t)) * c = a1 - a2 - a3
    BY <2>1
  <2>3. f * (stock - (given2 + t)) = b1 - b2
    BY <2>1
  <2>4. money + a1 - paid - b1 >= 0
    BY <1>13, <2>1
  <2>5. o >= a2 /\ w >= a3
    BY <1>10, <1>11, <2>1
  <2>6. (money + o + w) + (a1 - a2 - a3) - (paid + b2) - (b1 - b2) >= 0
    BY <2>4, <2>5
  <2> QED
    BY <2>1, <2>2, <2>3, <2>6
<1>15. money + o + w \in Int
  OBVIOUS
<1>16. PICK g \in Nat : g = given2 + t
  OBVIOUS
<1>17. PICK e \in Int : e = money + o + w
  OBVIOUS
<1>18. WellCovered(d, x, base, stock - g, e, paid + f * g)
  BY <1>1, <1>12, <1>14, <1>16, <1>17 DEF WellCovered
<1>19. /\ g = given2 + Total(sold) /\ e = money + given2 * d * (open - base) + Total(gains)
       /\ f = ExitFee /\ gains = [i \in 1 .. Len(sold) |-> sold[i] * d * (prices[i] - base)]
  BY <1>0, <1>10, <1>11, <1>12, <1>16, <1>17 DEF gains
<1> QED
  BY <1>5, <1>9, <1>17, <1>18, <1>19, Zenon DEF StillCovered

CandleIs(bar, stop, gapped, given2, sold, left, out, added, size, at) ==
    /\ lots > 0 /\ mover # "manage" /\ candles < MaxCandles
    /\ mover' = "manage" /\ candle' = bar /\ candles' = candles + 1
    /\ lots' = lots + size - out /\ entered' = entered + size /\ adds' = adds + Lower(size, 1)
    /\ average' = at /\ taken' = [i \in DOMAIN taken |-> taken[i] + sold[i]]
    /\ goals' = IF added THEN RebasedGoals(at) ELSE goals
    /\ protect' = IF added THEN Tighter(stop, RebasedStop(at)) ELSE stop
    /\ fees' = fees + EntryFee * size + ExitFee * out
    /\ gross' = gross + given2 * Dir * (At(bar.open) - average)
                      + left * Dir * ((IF gapped THEN At(bar.open) ELSE stop) - average)
                      + Total([i \in DOMAIN goals |-> sold[i] * Dir * (goals[i] - average)])
    /\ asked' = IF added \/ out > 0 THEN NoAsk ELSE asked
    /\ evenAt' = IF moves # <<>> /\ Last(moves).even THEN stop ELSE evenAt
    /\ moves' = <<>> /\ giving' = 0
    /\ UNCHANGED <<setup, stance>>

LEMMA Product ==
  /\ \A a \in Int, b \in Int : a * b \in Int
  /\ \A a \in Nat, b \in Nat : a * b \in Nat
OBVIOUS

LEMMA Gained == \A s \in Int, d \in Int, z \in Int, base \in Int : s * d * (z - base) \in Int
OBVIOUS

LEMMA Ranked ==
  ASSUME NEW d \in {1, -1}, NEW a \in Int, NEW b \in Int, NEW c \in Int
  PROVE  /\ ~Beyond(d, a, b) /\ ~Beyond(d, b, c) => ~Beyond(d, a, c)
         /\ Beyond(d, a, b) /\ Beyond(d, b, c) => Beyond(d, a, c)
         /\ Beyond(d, a, b) /\ ~Beyond(d, c, b) => Beyond(d, a, c)
         /\ Beyond(d, a, b) => d * (a - b) >= 0
<1>1. CASE d = 1
  BY <1>1 DEF Beyond
<1>2. CASE d = -1
  BY <1>2 DEF Beyond
<1> QED
  BY <1>1, <1>2

LEMMA FartherOut ==
  ASSUME NEW d \in {1, -1}, NEW p \in Int, NEW a \in Int, NEW b \in Int, a <= b
  PROVE  ~Beyond(d, p + d * a, p + d * b)
<1>1. CASE d = 1
  BY <1>1 DEF Beyond
<1>2. CASE d = -1
  <2>1. p + d * a = p - a /\ p + d * b = p - b
    BY <1>2
  <2>2. d * ((p - a) - (p - b)) = a - b
    BY <1>2
  <2> QED
    BY <2>1, <2>2 DEF Beyond
<1> QED
  BY <1>1, <1>2

LEMMA CandleStep == ProfileInv /\ CandleCloses => ProfileInv' /\ ~Beyond(Dir, protect, protect')
<1> SUFFICES ASSUME ProfileInv, CandleCloses PROVE ProfileInv' /\ ~Beyond(Dir, protect, protect')
  OBVIOUS
<1>1. PICK bar \in Candles :
      LET stop == IF moves = <<>> THEN protect ELSE Last(moves).price
          gapped == ~Beyond(Dir, At(bar.open), stop)
          given == IF gapped THEN 0 ELSE IF giving > lots THEN lots ELSE giving
          stopped == ~Beyond(Dir, At(bar.worst), stop)
          sold == [i \in DOMAIN goals |->
                     IF stopped \/ Beyond(Dir, goals[i], At(bar.best)) THEN 0
                     ELSE Lower(Allocation(entered)[i] - taken[i], lots - given)]
          left == IF stopped THEN lots - given ELSE 0
          out == given + left + Total(sold)
          added == out = 0 /\ asked.size > 0 /\ ~Beyond(Dir, At(bar.worst), asked.price)
          size == IF added THEN asked.size ELSE 0
          cost == average * lots + asked.price * size
          at == IF added THEN cost \div (lots + size) ELSE average
      IN  /\ lots > 0 /\ mover # "manage" /\ candles < MaxCandles
          /\ added => cost % (lots + size) = 0
          /\ mover' = "manage" /\ candle' = bar /\ candles' = candles + 1
          /\ lots' = lots + size - out /\ entered' = entered + size /\ adds' = adds + Lower(size, 1)
          /\ average' = at /\ taken' = [i \in DOMAIN taken |-> taken[i] + sold[i]]
          /\ goals' = IF added THEN RebasedGoals(at) ELSE goals
          /\ protect' = IF added THEN Tighter(stop, RebasedStop(at)) ELSE stop
          /\ fees' = fees + EntryFee * size + ExitFee * out
          /\ gross' = gross + given * Dir * (At(bar.open) - average)
                            + left * Dir * ((IF gapped THEN At(bar.open) ELSE stop) - average)
                            + Total([i \in DOMAIN goals |-> sold[i] * Dir * (goals[i] - average)])
          /\ asked' = IF added \/ out > 0 THEN NoAsk ELSE asked
          /\ evenAt' = IF moves # <<>> /\ Last(moves).even THEN stop ELSE evenAt
          /\ moves' = <<>> /\ giving' = 0
          /\ UNCHANGED <<setup, stance>>
  BY Zenon DEF CandleCloses
<1> DEFINE stop == IF moves = <<>> THEN protect ELSE Last(moves).price
           gapped == ~Beyond(Dir, At(bar.open), stop)
           given2 == IF gapped THEN 0 ELSE IF giving > lots THEN lots ELSE giving
           stopped == ~Beyond(Dir, At(bar.worst), stop)
           sold == [i \in DOMAIN goals |->
                      IF stopped \/ Beyond(Dir, goals[i], At(bar.best)) THEN 0
                      ELSE Lower(Allocation(entered)[i] - taken[i], lots - given2)]
           left == IF stopped THEN lots - given2 ELSE 0
           out == given2 + left + Total(sold)
           added == out = 0 /\ asked.size > 0 /\ ~Beyond(Dir, At(bar.worst), asked.price)
           size == IF added THEN asked.size ELSE 0
           at == IF added THEN (average * lots + asked.price * size) \div (lots + size) ELSE average
<1>2. CandleIs(bar, stop, gapped, given2, sold, left, out, added, size, at)
  BY <1>1, Zenon DEF CandleIs
<1> HIDE DEF stop, gapped, given2, stopped, sold, left, out, added, size, at
<1>3. /\ setup # NoSetup /\ Dir \in {1, -1} /\ lots \in Nat /\ lots > 0 /\ entered \in Nat /\ entered > 0 /\ lots <= entered
      /\ average \in Int /\ protect \in Int /\ gross \in Int /\ fees \in Nat /\ Close \in Int
      /\ EntryFee \in Nat /\ ExitFee \in Nat /\ SignalPrice \in Int /\ \A x \in Int : At(x) \in Int
  BY <1>2, HeldParts DEF CandleIs
<1>4. /\ bar \in [{"open", "worst", "best", "close", "fast", "slow"} -> Int]
      /\ bar.open \in Int /\ bar.worst \in Int /\ bar.best \in Int /\ bar.close \in Int
      /\ bar.worst <= bar.best /\ bar.close <= bar.best /\ bar.worst <= bar.open
  <2>1. bar \in [{"open", "worst", "best", "close", "fast", "slow"} -> Int] /\ {bar.open, bar.close} \subseteq bar.worst .. bar.best
    BY ProfileAssumption
  <2>2. bar.open \in Int /\ bar.worst \in Int /\ bar.best \in Int /\ bar.close \in Int
    BY <2>1
  <2> QED
    BY <2>1, <2>2
<1>5. PICK n \in Nat : /\ n = Len(goals) /\ n = Len(taken) /\ n = Len(Shares[setup.profile])
                       /\ DOMAIN goals = 1 .. n /\ DOMAIN taken = 1 .. n
                       /\ \A i \in 1 .. n : goals[i] \in Int /\ taken[i] \in Nat
  BY <1>3, SetupParts
<1>6. taken \in Seq(Nat) /\ goals \in Seq(Int) /\ giving \in Nat /\ giving <= lots /\ evenAt \in Int /\ mover \in {"bar", "manage", "signal"}
      /\ asked.size \in Nat /\ asked.price \in Int /\ candle.best \in Int /\ candle.close \in Int /\ candle.close <= candle.best
  BY DEF ProfileInv, ProfileTypes, Counts
<1>7. setup.profile \in ProfileNames
  BY <1>3, SetupParts
(* the stop that counts from the open of the bar                               *)
<1>8. StopsOK(moves) /\ Len(moves) \in Nat /\ (moves # <<>> => Len(moves) \in 1 .. Len(moves) /\ Last(moves) = moves[Len(moves)])
  <2>1. StopsOK(moves)
    BY <1>3, StopsAre
  <2>2. moves \in Seq(StopRecords)
    BY <2>1 DEF StopsOK
  <2>3. Len(moves) \in Nat /\ (moves # <<>> => Len(moves) \in 1 .. Len(moves))
    BY <2>2
  <2> QED
    BY <2>1, <2>3 DEF Last
<1>9. moves # <<>> => stop \in Int /\ stop = Last(moves).price /\ StopOK(Last(moves)) /\ Last(moves).even \in BOOLEAN
  <2>1. ASSUME moves # <<>> PROVE Last(moves) \in StopRecords /\ StopOK(Last(moves))
    BY <1>8, <2>1, SeqIs DEF StopsOK
  <2> QED
    BY <2>1 DEF stop, StopRecords
<1>10. stop \in Int /\ ~Beyond(Dir, protect, stop)
  <2>1. CASE moves = <<>>
    BY <1>3, <2>1 DEF stop, Beyond
  <2>2. CASE moves # <<>>
    <3>1. stop \in Int /\ Beyond(Dir, stop, protect)
      BY <1>9, <2>2 DEF StopOK
    <3> QED
      BY <1>3, <3>1 DEF Beyond
  <2> QED
    BY <2>1, <2>2
(* what is given up, stopped out and sold                                      *)
<1>11. /\ given2 \in 0 .. lots /\ (gapped => given2 = 0 /\ stopped) /\ (~gapped => given2 = giving)
       /\ given2 > 0 => Beyond(Dir, At(bar.open), stop)
  <2>1. given2 \in 0 .. lots /\ (gapped => given2 = 0) /\ (~gapped => given2 = giving)
    BY <1>3, <1>6 DEF given2
  <2>2. given2 > 0 => Beyond(Dir, At(bar.open), stop)
    BY <2>1 DEF gapped
  <2>3. ASSUME ~stopped PROVE ~gapped
    <3>1. Beyond(Dir, At(bar.worst), stop)
      BY <2>3 DEF stopped
    <3>2. Dir * (At(bar.open) - At(bar.worst)) >= 0
      BY <1>3, <1>4 DEF At
    <3>3. PICK a \in Int, b \in Int : a = At(bar.open) /\ b = At(bar.worst)
      BY <1>3, <1>4
    <3>4. Beyond(Dir, a, stop)
      BY <1>3, <1>10, <3>1, <3>2, <3>3 DEF Beyond
    <3> QED
      BY <3>3, <3>4 DEF gapped
  <2> QED
    BY <2>1, <2>2, <2>3
<1>12. PICK all \in Seq(Nat) : all = Allocation(entered) /\ Len(all) = n /\ Total(all) \in 0 .. entered
  BY <1>3, <1>5, <1>7, Allots
<1>13. PICK room \in Nat : room = lots - given2
  BY <1>3, <1>11
<1> DEFINE hit == IF stopped THEN {} ELSE {i \in 1 .. n : ~Beyond(Dir, goals[i], At(bar.best))}
           after == [i \in DOMAIN taken |-> taken[i] + sold[i]]
<1>14. SoldIs(sold, all, taken, room, hit) /\ AddedTo(after, taken, sold)
  <2>1. sold = [i \in 1 .. n |-> IF i \in hit THEN Lower(all[i] - taken[i], room) ELSE 0]
    BY <1>5, <1>12, <1>13 DEF sold
  <2> QED
    BY <1>5, <1>12, <2>1 DEF SoldIs, AddedTo
<1>15. NoMore(taken, all)
  BY <1>3, <1>5, <1>12 DEF ProfileInv, Counts, NoMore
<1> HIDE DEF hit, after
<1>24. Sold(n, all, taken, room, hit, sold, after)
  BY <1>6, <1>12, <1>14, <1>15, SoldSum
<1>16. /\ sold \in Seq(Nat) /\ Len(sold) = n /\ after \in Seq(Nat) /\ Len(after) = n
       /\ Total(sold) \in Nat /\ Total(taken) \in Nat /\ Total(all) \in Nat
       /\ Total(after) = Total(taken) + Total(sold) /\ Total(after) <= Total(all)
       /\ \A i \in 1 .. n : /\ sold[i] \in Nat /\ sold[i] <= Total(sold) /\ after[i] = taken[i] + sold[i]
                            /\ after[i] <= all[i]
                            /\ i \in hit => after[i] = all[i] \/ sold[i] = room
                            /\ sold[i] > 0 => i \in hit /\ taken[i] < all[i]
                            /\ room = 0 => sold[i] = 0
  BY <1>24 DEF Sold
<1>17. PICK t \in Nat : t = Total(sold)
  BY <1>16
<1>18. sold \in Seq(Int)
  BY <1>16
<1>19. (stopped \/ room = 0 \/ n = 0) => t = 0
  <2>1. ASSUME stopped \/ room = 0 \/ n = 0 PROVE \A i \in 1 .. Len(sold) : sold[i] = 0
    BY <1>16, <2>1 DEF hit
  <2> QED
    BY <1>17, <1>18, <2>1, TotalOfNone
<1>20. setup.profile # "ma_cloud" => giving \in {0, lots} /\ lots = entered - Total(taken)
  BY <1>3 DEF ProfileInv, Counts
<1>21. setup.profile = "ma_cloud" => n = 0
  BY <1>5, <1>7, ProfileAssumption
<1>22. t <= room
  <2>1. CASE n = 0 \/ room = 0
    BY <1>19, <2>1
  <2>2. CASE n # 0 /\ room # 0
    <3>2. setup.profile # "ma_cloud"
      BY <1>21, <2>2
    <3>1. lots = entered - Total(taken) /\ given2 = 0
      BY <1>3, <1>6, <1>11, <1>13, <1>20, <2>2, <3>2
    <3> QED
      BY <1>3, <1>12, <1>13, <1>16, <1>17, <3>1
  <2> QED
    BY <2>1, <2>2
<1>23. /\ out \in 0 .. lots /\ (stopped => out = lots) /\ (~stopped => left = 0 /\ out = given2 + t) /\ t <= out
       /\ left \in Nat
  <2>1. CASE stopped
    <3>1. left = lots - given2 /\ t = 0
      BY <1>19, <2>1 DEF left
    <3>2. out = given2 + left + t
      BY <1>17 DEF out
    <3> QED
      BY <1>3, <1>11, <2>1, <3>1, <3>2
  <2>2. CASE ~stopped
    <3>1. left = 0
      BY <2>2 DEF left
    <3>2. out = given2 + left + t
      BY <1>17 DEF out
    <3>4. given2 \in Nat /\ lots \in Nat /\ given2 + room = lots
      BY <1>3, <1>11, <1>13
    <3>3. out = given2 + t /\ out \in 0 .. lots /\ t <= out
      BY <1>17, <1>22, <3>1, <3>2, <3>4
    <3> QED
      BY <2>2, <3>1, <3>3
  <2> QED
    BY <2>1, <2>2
(* an addition                                                                 *)
<1>25. /\ size \in Nat /\ (~added => size = 0)
       /\ added => out = 0 /\ lots = entered /\ (\A i \in 1 .. n : taken[i] = 0) /\ ~stopped /\ ~Reduced /\ size > 0
  <2>1. size \in Nat /\ (~added => size = 0)
    BY <1>6 DEF size
  <2>2. ASSUME added PROVE out = 0 /\ asked.size > 0 /\ size = asked.size
    BY <2>2 DEF added, size
  <2>3. ASSUME added PROVE lots = entered /\ Completed = {}
    BY <2>2, <2>3 DEF ProfileInv, Counts
  <2>4. ASSUME added PROVE \A i \in 1 .. n : taken[i] = 0
    BY <1>5, <2>3, <2>4 DEF Completed
  <2>5. ASSUME added PROVE ~stopped
    BY <1>3, <1>23, <2>2, <2>5
  <2>6. ASSUME added PROVE ~Reduced
    BY <1>3, <2>3, <2>6 DEF Reduced
  <2> QED
    BY <2>1, <2>2, <2>3, <2>4, <2>5, <2>6
<1>26. at \in Int /\ (~added => at = average)
  <2>1. CASE added
    <3>3. PICK x \in Int : x = average * lots
      BY <1>3, Product
    <3>4. PICK y \in Int : y = asked.price * size
      BY <1>6, <1>25, Product
    <3>5. PICK c \in Int : c = x + y
      OBVIOUS
    <3>6. PICK b \in Nat : b = lots + size /\ b > 0
      BY <1>3, <1>25
    <3>1. c = average * lots + asked.price * size
      BY <3>3, <3>4, <3>5
    <3>2. c \div b \in Int
      BY <3>6, Divides
    <3> QED
      BY <2>1, <3>1, <3>2, <3>6 DEF at
  <2> QED
    BY <1>3, <2>1 DEF at
<1>27. RebasedGoals(at) \in Seq(Int) /\ Len(RebasedGoals(at)) = n /\ RebasedStop(at) \in Int
  BY <1>3, <1>5, <1>26, RebasedIs
<1>28. PICK gains : gains = [i \in 1 .. n |-> sold[i] * Dir * (goals[i] - average)]
  OBVIOUS
<1>29. /\ mover' = "manage" /\ candle' = bar /\ candles' = candles + 1
       /\ lots' = lots + size - out /\ entered' = entered + size /\ adds' = adds + Lower(size, 1)
       /\ average' = at /\ taken' = after
       /\ goals' = (IF added THEN RebasedGoals(at) ELSE goals)
       /\ protect' = (IF added THEN Tighter(stop, RebasedStop(at)) ELSE stop)
       /\ fees' = fees + EntryFee * size + ExitFee * out
       /\ gross' = gross + given2 * Dir * (At(bar.open) - average)
                         + left * Dir * ((IF gapped THEN At(bar.open) ELSE stop) - average) + Total(gains)
       /\ asked' = (IF added \/ out > 0 THEN NoAsk ELSE asked)
       /\ evenAt' = (IF moves # <<>> /\ Last(moves).even THEN stop ELSE evenAt)
       /\ moves' = <<>> /\ giving' = 0 /\ setup' = setup /\ trail' = trail /\ peak' = peak
  BY <1>2, <1>5, <1>28, Zenon DEF CandleIs, after, stance
<1>30. gains \in Seq(Int) /\ Total(gains) \in Int
  <2>1. ASSUME NEW i \in 1 .. n PROVE sold[i] * Dir * (goals[i] - average) \in Int
    <3>1. sold[i] \in Nat
      BY <1>16
    <3>2. goals[i] \in Int
      BY <1>5
    <3>3. sold[i] \in Int /\ Dir \in Int /\ average \in Int
      BY <1>3, <3>1
    <3> QED
      BY <3>2, <3>3, Gained
  <2>2. gains \in [1 .. n -> Int]
    BY <1>28, <2>1
  <2>3. gains \in Seq(Int)
    BY <2>2, FunctionIsSeq
  <2> QED
    BY <2>3, TotalIs, SMTT(60) DEF RunsOver
<1>31. lots' \in Nat /\ entered' \in Nat /\ entered' > 0 /\ lots' <= entered'
  <2>1. PICK l \in Nat, e \in Nat, s \in Nat, o \in Nat : o <= l /\ l = lots /\ e = entered /\ s = size /\ o = out /\ l <= e /\ e > 0
    BY <1>3, <1>23, <1>25
  <2>2. lots' = l + s - o /\ entered' = e + s
    BY <1>29, <2>1
  <2> QED
    BY <2>1, <2>2
<1>32. ProfileTypes'
  <2>1. fees' \in Nat
    <3>1. PICK a \in Nat, b \in Nat : a = EntryFee * size /\ b = ExitFee * out
      BY <1>3, <1>23, <1>25, Product
    <3>2. PICK f \in Nat : f = fees
      BY <1>3
    <3>3. fees' = f + a + b
      BY <1>29, <3>1, <3>2
    <3> QED
      BY <3>3
  <2>2. gross' \in Int
    <3>1. PICK w \in Int : w = Total(gains)
      BY <1>30
    <3>5. given2 \in Int /\ Dir \in Int /\ At(bar.open) \in Int /\ average \in Int /\ left \in Int
      BY <1>3, <1>4, <1>11, <1>23
    <3>2. PICK a \in Int : a = given2 * Dir * (At(bar.open) - average)
      BY <3>5, Gained
    <3>3. PICK z \in Int : z = IF gapped THEN At(bar.open) ELSE stop
      BY <1>3, <1>4, <1>10
    <3>4. PICK b \in Int : b = left * Dir * (z - average)
      BY <3>5, Gained
    <3>6. gross' = gross + a + b + w
      BY <1>29, <3>1, <3>2, <3>3, <3>4
    <3> QED
      BY <1>3, <3>6
  <2>3. protect' \in Int
    BY <1>10, <1>27, <1>29 DEF Tighter
  <2>4. goals' \in Seq(Int) /\ taken' \in Seq(Nat) /\ Len(goals') = Len(taken')
    BY <1>5, <1>6, <1>16, <1>27, <1>29
  <2>5. asked' \in [price : Int, size : Nat] /\ moves' \in Seq([price : Int, even : BOOLEAN])
    <3>1. NoAsk \in [price : Int, size : Nat] /\ asked \in [price : Int, size : Nat]
      BY DEF NoAsk, ProfileInv, ProfileTypes
    <3> QED
      BY <1>29, <3>1
  <2>6. evenAt' \in Int
    BY <1>6, <1>10, <1>29
  <2>7. candles' \in Nat /\ adds' \in Nat
    <3>1. candles \in Nat /\ adds \in Nat
      BY DEF ProfileInv, ProfileTypes
    <3>2. Lower(size, 1) \in Nat
      BY <1>25 DEF Lower
    <3> QED
      BY <1>29, <3>1, <3>2
  <2>8. setup' = NoSetup \/ SetupIs(setup')
    BY <1>29 DEF ProfileInv, ProfileTypes
  <2>9. trail' \in BOOLEAN /\ peak' \in Int
    BY <1>29 DEF ProfileInv, ProfileTypes
  <2>10. average' \in Int /\ giving' \in Nat /\ mover' \in {"bar", "manage", "signal"}
    BY <1>26, <1>29
  <2>11. /\ candle' \in [{"open", "worst", "best", "close", "fast", "slow"} -> Int]
         /\ candle'.worst <= candle'.best /\ candle'.close <= candle'.best
    BY <1>4, <1>29
  <2> QED
    BY <1>31, <2>1, <2>2, <2>3, <2>4, <2>5, <2>6, <2>7, <2>8, <2>9, <2>10, <2>11 DEF ProfileTypes
<1>33. lots' > 0 => ~stopped
  BY <1>3, <1>23, <1>25, <1>29
<1>34. ASSUME ~added
       PROVE  /\ lots' = lots - out /\ entered' = entered /\ average' = average /\ goals' = goals /\ protect' = stop
              /\ fees' = fees + ExitFee * out
              /\ Allocation(entered)' = all
  <2>1. size = 0 /\ at = average
    BY <1>25, <1>26, <1>34
  <2>2. EntryFee * size = 0
    BY <1>3, <2>1
  <2>3. lots' = lots - out /\ entered' = entered /\ fees' = fees + ExitFee * out
    <3>1. PICK l \in Int, e \in Int, f \in Int, o \in Int, c \in Int :
            l = lots /\ e = entered /\ f = fees /\ o = out /\ c = ExitFee * out
      BY <1>3, <1>23, Product
    <3>2. lots' = l + 0 - o /\ entered' = e + 0 /\ fees' = f + 0 + c
      BY <1>29, <2>1, <2>2, <3>1
    <3> QED
      BY <3>1, <3>2
  <2>4. Allocation(entered)' = Allocation(entered)
    BY <1>29, <2>3, Allocates
  <2> QED
    BY <1>12, <1>29, <1>34, <2>1, <2>3, <2>4
<1>35. ASSUME added
       PROVE  /\ lots' = entered' /\ t = 0 /\ Total(taken) = 0 /\ \A i \in 1 .. n : after[i] = 0
  <2>1. lots' = entered' /\ t = 0
    <3>1. out = 0 /\ lots = entered /\ t <= out
      BY <1>23, <1>25, <1>35
    <3>2. PICK l \in Int, s \in Int : l = lots /\ s = size
      BY <1>3, <1>25
    <3>3. lots' = l + s - 0 /\ entered' = l + s
      BY <1>29, <3>1, <3>2
    <3> QED
      BY <3>1, <3>3
  <2>2. \A i \in 1 .. n : sold[i] = 0
    BY <1>16, <1>17, <2>1
  <2>3. \A i \in 1 .. n : after[i] = 0
    <3> TAKE i \in 1 .. n
    <3>1. after[i] = taken[i] + sold[i] /\ sold[i] = 0 /\ taken[i] = 0
      BY <1>16, <1>25, <1>35, <2>2
    <3> QED
      BY <3>1
  <2>4. Total(taken) = 0
    <3>1. taken \in Seq(Int)
      BY <1>6
    <3> QED
      BY <1>5, <1>25, <1>35, <3>1, TotalOfNone
  <2> QED
    BY <2>1, <2>3, <2>4
<1>36. Total(taken') = Total(taken) + t /\ Total(taken)' = Total(taken')
  BY <1>16, <1>17, <1>29 DEF Total
<1>37. Counts'
  <2>1. lots' <= entered' /\ giving' = 0 /\ giving' <= lots' /\ setup' # NoSetup /\ entered' # 0
    BY <1>3, <1>29, <1>31
  <2>2. Len(goals') = Len(Shares[setup'.profile])
    BY <1>5, <1>27, <1>29
  <2>3. DOMAIN taken' = 1 .. n
    BY <1>16, <1>29, SeqIs
  <2>4. \A i \in 1 .. n : taken'[i] <= Allocation(entered)'[i]
    <3>1. CASE added
      <4>1. PICK e \in Nat : e = entered'
        BY <1>31
      <4>2. PICK a \in Seq(Nat) : a = Allocation(e) /\ Len(a) = n
        BY <1>5, <1>7, <4>1, Allots
      <4>3. Allocation(entered)' = a
        <5>1. setup' = setup
          BY <1>29
        <5>2. Allocation(entered)' = Allocation(e)
          BY <4>1, <5>1 DEF Allocation, Allotted
        <5> QED
          BY <4>2, <5>2
      <4>4. \A i \in 1 .. n : a[i] \in Nat
        BY <4>2, SeqIs
      <4>5. \A i \in 1 .. n : taken'[i] = 0
        BY <1>29, <1>35, <3>1
      <4> QED
        BY <4>3, <4>4, <4>5
    <3>2. CASE ~added
      BY <1>16, <1>29, <1>34, <3>2
    <3> QED
      BY <3>1, <3>2
  <2>5. PICK gone \in Nat : gone = Total(taken) /\ Total(taken)' = gone + t
    BY <1>16, <1>36
  <2>6. lots' <= entered' - (gone + t)
    <3>1. CASE added
      <4>1. gone = 0 /\ t = 0 /\ lots' = entered'
        BY <1>35, <2>5, <3>1
      <4>2. PICK e \in Nat : e = entered'
        BY <1>31
      <4>3. gone + t = 0 /\ e - 0 = e
        BY <4>1
      <4>4. entered' - (gone + t) = entered'
        BY <4>2, <4>3
      <4>5. e <= e
        BY <4>2
      <4>6. lots' = e /\ entered' - (gone + t) = e
        BY <4>1, <4>2, <4>4, Zenon
      <4> QED
        BY <4>5, <4>6
    <3>2. CASE ~added
      <4>1. lots <= entered - gone
        BY <1>3, <2>5 DEF ProfileInv, Counts
      <4>2. PICK l \in Int, e \in Int, o \in Int : l = lots /\ e = entered /\ o = out /\ t <= o
        BY <1>3, <1>23
      <4>3. lots' = l - o /\ entered' = e
        BY <1>34, <3>2, <4>2
      <4> QED
        BY <2>5, <4>1, <4>2, <4>3
    <3> QED
      BY <3>1, <3>2
  <2>7. setup.profile # "ma_cloud" => lots' \in {0, entered' - (gone + t)}
    <3>1. CASE added
      <4>1. gone = 0 /\ t = 0 /\ lots' = entered'
        BY <1>35, <2>5, <3>1
      <4>2. PICK e \in Nat : e = entered'
        BY <1>31
      <4>3. gone + t = 0 /\ e - 0 = e
        BY <4>1
      <4>4. entered' - (gone + t) = entered'
        BY <4>2, <4>3
      <4> QED
        BY <4>1, <4>4, Zenon
    <3>2. CASE ~added
      <4> SUFFICES ASSUME setup.profile # "ma_cloud" PROVE lots' \in {0, entered' - (gone + t)}
        OBVIOUS
      <4>1. lots = entered - gone /\ giving \in {0, lots}
        BY <1>20, <2>5
      <4>2. PICK l \in Int, e \in Int, o \in Int : l = lots /\ e = entered /\ o = out
        BY <1>3, <1>23
      <4>3. lots' = l - o /\ entered' = e
        BY <1>34, <3>2, <4>2
      <4>4. o = l \/ o = t
        <5>1. CASE stopped
          BY <1>23, <4>2, <5>1
        <5>2. CASE ~stopped
          <6>1. given2 \in {0, lots} /\ out = given2 + t /\ given2 \in Nat /\ out <= lots
            BY <1>3, <1>11, <1>23, <4>1, <5>2
          <6> QED
            BY <1>3, <4>2, <6>1
        <5> QED
          BY <5>1, <5>2
      <4>5. PICK g \in Nat, u \in Nat : g = gone /\ u = t
        BY <2>5
      <4>6. l = e - g /\ lots' = l - o /\ entered' = e
        BY <4>1, <4>2, <4>3, <4>5
      <4>7. l - o = 0 \/ l - o = e - (g + u)
        BY <4>4, <4>5, <4>6
      <4> QED
        BY <4>5, <4>6, <4>7
    <3> QED
      BY <3>1, <3>2
  <2>8. asked'.size > 0 => lots' = entered' /\ Completed' = {}
    <3> SUFFICES ASSUME asked'.size > 0 PROVE lots' = entered' /\ Completed' = {}
      OBVIOUS
    <3>1. ~added /\ ~(out > 0)
      BY <1>29 DEF NoAsk
    <3>2. out = 0 /\ t = 0 /\ asked.size > 0
      BY <1>23, <1>29, <3>1
    <3>3. lots = entered /\ Completed = {}
      BY <3>2 DEF ProfileInv, Counts
    <3>4. lots' = entered'
      BY <1>3, <1>34, <3>1, <3>2, <3>3
    <3>5. \A i \in 1 .. n : taken'[i] = 0
      <4> TAKE i \in 1 .. n
      <4>1. sold[i] = 0 /\ after[i] = taken[i] + sold[i]
        BY <1>16, <1>17, <3>2
      <4>2. taken[i] = 0
        BY <1>5, <3>3 DEF Completed
      <4> QED
        BY <1>29, <4>1, <4>2
    <3>6. Completed' = {}
      BY <2>3, <3>5 DEF Completed
    <3> QED
      BY <3>4, <3>6
  <2> QED
    BY <1>29, <2>1, <2>2, <2>3, <2>4, <2>5, <2>6, <2>7, <2>8 DEF Counts
<1>38. GoalsPay'
  <2>1. PlanOK(setup)
    BY <1>3 DEF ProfileInv, GoalsPay
  <2>2. Len(goals') = n
    BY <1>5, <1>27, <1>29
  <2>3. ASSUME setup.profile # "pattern_targets", NEW i \in 1 .. n, taken'[i] = 0
        PROVE  PaysAt(setup, i, setup.dir * (goals'[i] - average'))
    <3>1. taken[i] = 0
      <4>1. taken[i] \in Nat /\ sold[i] \in Nat /\ taken[i] + sold[i] = 0
        BY <1>5, <1>16, <1>29, <2>3
      <4> QED
        BY <4>1
    <3>2. CASE added
      <4>1. goals' = RebasedGoals(at) /\ average' = at
        BY <1>29, <3>2
      <4> QED
        BY <1>3, <1>5, <1>26, <2>3, <3>1, <4>1, RebasedIs
    <3>3. CASE ~added
      <4>1. goals' = goals /\ average' = average
        BY <1>34, <3>3
      <4> QED
        BY <1>3, <1>5, <2>3, <3>1, <4>1 DEF ProfileInv, GoalsPay
    <3> QED
      BY <3>2, <3>3
  <2> QED
    BY <1>3, <1>29, <2>1, <2>2, <2>3 DEF GoalsPay
<1>40. Dir' = Dir /\ (\A x : At(x)' = At(x))
  BY <1>29 DEF Dir, At
<1>41. moves # <<>> /\ Last(moves).even => Reduced
  BY <1>9 DEF StopOK
<1>42. evenAt # 0 => Reduced /\ ~Beyond(Dir, evenAt, protect) /\ Covers(evenAt)
  BY <1>3 DEF ProfileInv, StopsInv
<1>43. added => evenAt' = 0
  BY <1>25, <1>29, <1>41, <1>42
<1>44. ASSUME Reduced, NEW i \in 1 .. n, taken[i] < all[i] PROVE Beyond(Dir, goals[i], stop)
  <2>1. Beyond(Dir, At(candle.best), protect) /\ Beyond(Dir, goals[i], At(candle.best))
    BY <1>3, <1>5, <1>12, <1>44 DEF ProfileInv, StopsInv
  <2>2. PICK g \in Int, b \in Int : g = goals[i] /\ b = At(candle.best)
    BY <1>3, <1>5, <1>6
  <2>3. CASE moves = <<>>
    <3>1. stop = protect
      BY <2>3 DEF stop
    <3> QED
      BY <1>3, <2>1, <2>2, <3>1, Ranked
  <2>4. CASE moves # <<>>
    <3>1. Beyond(Dir, Close, stop)
      BY <1>9, <2>4 DEF StopOK
    <3>2. ~Beyond(Dir, Close, b)
      <4>1. PICK p \in Int, c \in Int, h \in Int : p = SignalPrice /\ c = candle.close /\ h = candle.best /\ c <= h
        BY <1>3, <1>6 DEF ProfileInv, ProfileTypes
      <4>2. Close = p + Dir * c /\ b = p + Dir * h
        BY <2>2, <4>1 DEF Close, At
      <4> QED
        BY <1>3, <4>1, <4>2, FartherOut
    <3>3. PICK c \in Int : c = Close
      BY <1>3
    <3>4. Beyond(Dir, g, c)
      BY <1>3, <2>1, <2>2, <3>2, <3>3, Ranked
    <3> QED
      BY <1>3, <1>10, <2>2, <3>1, <3>3, <3>4, Ranked
  <2> QED
    BY <2>3, <2>4
<1>45. ASSUME lots' > 0, evenAt' # 0
       PROVE  Reduced' /\ ~Beyond(Dir, evenAt', protect') /\ Covers(evenAt)'
  <2>1. ~added /\ ~stopped /\ left = 0 /\ out = given2 + t
    BY <1>23, <1>33, <1>43, <1>45
  <2>2. PICK x \in Int : x = evenAt'
    BY <1>6, <1>10, <1>29
  <2>3. Reduced /\ ~Beyond(Dir, x, stop) /\ Covers(x)
    <3>1. CASE moves # <<>> /\ Last(moves).even
      <4>1. x = stop /\ stop = Last(moves).price /\ Covers(stop)
        BY <1>9, <1>29, <2>2, <3>1 DEF StopOK
      <4>2. ~Beyond(Dir, stop, stop)
        BY <1>3, <1>10 DEF Beyond
      <4> QED
        BY <1>41, <3>1, <4>1, <4>2
    <3>2. CASE ~(moves # <<>> /\ Last(moves).even)
      <4>1. x = evenAt
        BY <1>29, <2>2, <3>2
      <4>2. Reduced /\ ~Beyond(Dir, x, protect) /\ Covers(x)
        BY <1>42, <1>45, <2>2, <4>1
      <4> QED
        BY <1>3, <1>10, <4>2, Ranked
    <3> QED
      BY <3>1, <3>2
  <2>4. Reduced'
    <3>1. PICK l \in Int, e \in Int, o \in Nat : l = lots /\ e = entered /\ o = out /\ l < e
      BY <1>3, <1>23, <2>3 DEF Reduced
    <3>2. lots' = l - o /\ entered' = e
      BY <1>34, <2>1, <3>1
    <3> QED
      BY <3>1, <3>2 DEF Reduced
  <2>18. PICK d \in {1, -1} : d = Dir
    BY <1>3
  <2>19. PICK base \in Int, money \in Int, open \in Int : base = average /\ money = gross /\ open = At(bar.open)
    BY <1>3, <1>4
  <2>20. PICK stock \in Nat, given3 \in Nat, paid \in Nat : stock = lots /\ given3 = given2 /\ paid = fees
    BY <1>3, <1>11
  <2>5. d = Dir /\ base = average /\ stock = lots /\ given3 = given2 /\ open = At(bar.open) /\ money = gross /\ paid = fees
    BY <2>18, <2>19, <2>20
  <2>6. given3 > 0 => d * (open - x) >= 0
    <3>1. given3 > 0 => Beyond(d, open, stop)
      BY <1>11, <2>5
    <3>2. ~Beyond(d, x, stop)
      BY <2>3, <2>5
    <3> QED
      BY <1>10, <3>1, <3>2, Ranked
  <2>7. ASSUME NEW i \in 1 .. n, sold[i] > 0 PROVE d * (goals[i] - x) >= 0
    <3>1. Beyond(d, goals[i], stop)
      BY <1>16, <1>44, <2>3, <2>5, <2>7
    <3>2. ~Beyond(d, x, stop) /\ goals[i] \in Int
      BY <1>5, <2>3, <2>5
    <3> QED
      BY <1>10, <3>1, <3>2, Ranked
  <2>8. WellCovered(d, x, base, stock, money, paid)
    BY <2>3, <2>5 DEF Covers, WellCovered
  <2>10. Len(goals) = n /\ Len(sold) = n
    BY <1>5, <1>16
  <2>21. SoldAbove(sold, goals, d, x)
    BY <2>7, <2>10 DEF SoldAbove
  <2>11. StillCovered(sold, goals, d, x, base, stock, given3, open, money, paid)
    <3>1. sold \in Seq(Nat) /\ goals \in Seq(Int) /\ Len(goals) = Len(sold) /\ d \in {1, -1} /\ x \in Int
      BY <1>5, <1>6, <1>16, <2>3, <2>10
    <3> QED
      BY <2>6, <2>8, <2>21, <3>1, SaleCovers
  <2>12. PICK o \in Nat : o = out /\ o = given3 + Total(sold)
    BY <1>17, <1>23, <2>1, <2>5
  <2>9. gains = [i \in 1 .. Len(sold) |-> sold[i] * d * (goals[i] - base)]
    BY <1>28, <2>5, <2>10
  <2>22. PICK earned \in Int : earned = money + given3 * d * (open - base) + Total(gains)
    BY <2>9, <2>11, Zenon DEF StillCovered
  <2>13. WellCovered(d, x, base, stock - o, earned, paid + ExitFee * o)
    BY <2>9, <2>11, <2>12, <2>22, Zenon DEF StillCovered
  <2>14. lots' = stock - o /\ average' = base /\ fees' = paid + ExitFee * o /\ Dir' = d
    BY <1>34, <1>40, <2>1, <2>5, <2>12
  <2>15. gross' = earned
    <3>1. PICK w \in Int : w = Total(gains)
      BY <1>30
    <3>2. PICK z \in Int : z = IF gapped THEN At(bar.open) ELSE stop
      BY <1>3, <1>4, <1>10
    <3>3. PICK a \in Int : a = given3 * d * (open - base)
      BY Gained
    <3>4. 0 * d * (z - base) = 0
      OBVIOUS
    <3>5. gross' = money + a + 0 + w
      BY <1>29, <2>1, <2>5, <3>1, <3>2, <3>3, <3>4
    <3> QED
      BY <2>22, <3>1, <3>3, <3>5
  <2>16. Covers(evenAt)'
    BY <2>2, <2>13, <2>14, <2>15 DEF Covers, WellCovered
  <2>17. ~Beyond(Dir, evenAt', protect')
    BY <1>34, <2>1, <2>2, <2>3
  <2> QED
    BY <2>4, <2>16, <2>17
<1>46. ASSUME lots' > 0, Reduced'
       PROVE  /\ Beyond(Dir, At(bar.best), protect')
              /\ \A i \in 1 .. n : taken'[i] < Allocation(entered)'[i] => Beyond(Dir, goals'[i], At(bar.best))
  <2>1. ~added /\ ~stopped /\ out = given2 + t
    <3>1. ~stopped
      BY <1>33, <1>46
    <3>2. ~added
      BY <1>31, <1>35, <1>46 DEF Reduced
    <3> QED
      BY <1>23, <3>1, <3>2
  <2>2. PICK w \in Int, h \in Int : w = At(bar.worst) /\ h = At(bar.best)
    BY <1>3, <1>4
  <2>3. Beyond(Dir, w, stop) /\ ~Beyond(Dir, w, h)
    <3>1. Beyond(Dir, w, stop)
      BY <2>1, <2>2 DEF stopped
    <3>2. PICK p \in Int, a \in Int, b \in Int : p = SignalPrice /\ a = bar.worst /\ b = bar.best /\ a <= b
      BY <1>3, <1>4
    <3>3. w = p + Dir * a /\ h = p + Dir * b
      BY <2>2, <3>2 DEF At
    <3>4. ~Beyond(Dir, w, h)
      BY <1>3, <3>2, <3>3, FartherOut
    <3> QED
      BY <3>1, <3>4
  <2>4. Beyond(Dir, h, stop)
    <3>1. ~Beyond(Dir, w, stop) \/ Beyond(Dir, h, stop)
      <4>1. CASE Dir = 1
        BY <1>10, <2>3, <4>1 DEF Beyond
      <4>2. CASE Dir = -1
        BY <1>10, <2>3, <4>2 DEF Beyond
      <4> QED
        BY <1>3, <4>1, <4>2
    <3> QED
      BY <2>3, <3>1
  <2>5. ASSUME NEW i \in 1 .. n, taken'[i] < Allocation(entered)'[i] PROVE Beyond(Dir, goals[i], h)
    <3>1. after[i] < all[i] /\ after[i] # all[i]
      <4>1. after[i] < all[i]
        BY <1>29, <1>34, <2>1, <2>5
      <4>2. after[i] \in Nat /\ all[i] \in Nat
        BY <1>12, <1>16, SeqIs
      <4> QED
        BY <4>1, <4>2
    <3>2. CASE i \in hit
      <4>1. sold[i] = room /\ sold[i] <= t /\ sold[i] \in Nat
        BY <1>16, <1>17, <3>1, <3>2
      <4>2. PICK l \in Nat, g \in Nat : l = lots /\ g = given2 /\ room = l - g
        BY <1>3, <1>11, <1>13
      <4>3. lots' = l - (g + t)
        BY <1>34, <2>1, <4>2
      <4> QED
        BY <1>46, <4>1, <4>2, <4>3
    <3>3. CASE i \notin hit
      BY <2>1, <2>2, <3>3 DEF hit
    <3> QED
      BY <3>2, <3>3
  <2> QED
    BY <1>34, <2>1, <2>2, <2>4, <2>5
<1>39. StopsInv'
  <2>1. Len(moves') = 0 /\ candle' = bar /\ DOMAIN taken' = 1 .. n
    BY <1>16, <1>29, SeqIs
  <2>2. Len(goals') = n
    BY <1>5, <1>27, <1>29
  <2>3. At(candle.best)' = At(bar.best) /\ Dir' = Dir
    BY <1>40, <2>1 DEF At
  <2> QED
    BY <1>45, <1>46, <2>1, <2>2, <2>3 DEF StopsInv
<1>47. ~Beyond(Dir, protect, protect')
  <2>1. CASE added /\ Beyond(Dir, RebasedStop(at), stop)
    <3>1. protect' = RebasedStop(at)
      BY <1>29, <2>1 DEF Tighter
    <3>2. PICK p \in Int, s \in Int, r \in Int : p = protect /\ s = stop /\ r = RebasedStop(at)
      BY <1>3, <1>10, <1>27
    <3>3. ~Beyond(Dir, s, r)
      <4>1. CASE Dir = 1
        BY <2>1, <3>2, <4>1 DEF Beyond
      <4>2. CASE Dir = -1
        BY <2>1, <3>2, <4>2 DEF Beyond
      <4> QED
        BY <1>3, <4>1, <4>2
    <3> QED
      BY <1>3, <1>10, <3>1, <3>2, <3>3, Ranked
  <2>2. CASE ~(added /\ Beyond(Dir, RebasedStop(at), stop))
    <3>1. protect' = stop
      BY <1>29, <2>2 DEF Tighter
    <3> QED
      BY <1>10, <3>1
  <2> QED
    BY <2>1, <2>2
<1> QED
  BY <1>32, <1>37, <1>38, <1>39, <1>47 DEF ProfileInv

LEMMA ProfileStarts == ProfileInit => ProfileInv
<1> SUFFICES ASSUME ProfileInit PROVE ProfileInv
  OBVIOUS
<1>1. ProfileTypes
  <2>1. goals \in Seq(Int) /\ taken \in Seq(Nat) /\ Len(goals) = Len(taken)
    BY DEF ProfileInit
  <2>2. moves \in Seq([price : Int, even : BOOLEAN]) /\ asked \in [price : Int, size : Nat]
    BY DEF ProfileInit, NoAsk
  <2>3. /\ candle \in [{"open", "worst", "best", "close", "fast", "slow"} -> Int]
        /\ candle.worst <= candle.best /\ candle.close <= candle.best
    BY DEF ProfileInit
  <2>4. {lots, entered, fees, adds, giving, candles} \subseteq Nat /\ {average, protect, gross, peak, evenAt} \subseteq Int
    BY DEF ProfileInit
  <2> QED
    BY <2>1, <2>2, <2>3, <2>4 DEF ProfileInit, ProfileTypes
<1>2. Counts
  BY DEF ProfileInit, Counts, NoAsk
<1>3. GoalsPay /\ StopsInv
  BY DEF ProfileInit, GoalsPay, StopsInv
<1> QED
  BY <1>1, <1>2, <1>3 DEF ProfileInv

LEMMA ProfileStands == ProfileInv /\ UNCHANGED profileVars => ProfileInv'
<1> SUFFICES ASSUME ProfileInv, UNCHANGED profileVars PROVE ProfileInv'
  OBVIOUS
<1>1. UNCHANGED <<setup, position, protect, stance, asked, moves, giving, evenAt, candle, candles, mover>>
  BY DEF profileVars
<1>2. ProfileTypes'
  BY <1>1 DEF position, stance, ProfileInv, ProfileTypes
<1>3. Allocation(entered)' = Allocation(entered)
  BY <1>1, Allocates DEF position
<1>4. Counts'
  BY <1>1, <1>3 DEF position, ProfileInv, Counts, Completed
<1>5. GoalsPay'
  BY <1>1, StandsStill DEF Stands
<1>6. StopsInv'
  <2>1. CASE lots > 0
    <3>1. StopsOK(moves')
      BY <1>1, <2>1, StopsAre
    <3> QED
      BY <1>1, <3>1, StandsStill DEF Stands
  <2>2. CASE ~(lots > 0)
    BY <1>1, <2>2 DEF position, StopsInv
  <2> QED
    BY <2>1, <2>2
<1> QED
  BY <1>2, <1>4, <1>5, <1>6 DEF ProfileInv

LEMMA ProfileSteps == ProfileInv /\ [ProfileNext]_profileVars => ProfileInv'
BY PlanStep, EntryFillStep, CandleStep, ManageStep, SignalStep, OppositeStep, ProfileStands DEF ProfileNext

LEMMA StopTightens ==
  ProfileInv /\ [ProfileNext]_profileVars => (lots > 0 /\ lots' > 0 => ~Beyond(Dir, protect, protect'))
<1> SUFFICES ASSUME ProfileInv, [ProfileNext]_profileVars, lots > 0, lots' > 0
             PROVE  ~Beyond(Dir, protect, protect')
  OBVIOUS
<1>1. setup # NoSetup /\ Dir \in {1, -1} /\ protect \in Int /\ entered # 0
  BY HeldParts
<1>2. ~Beyond(Dir, protect, protect)
  BY <1>1 DEF Beyond
<1>3. ~PlanTrade /\ ~EntryIsFilled
  BY <1>1 DEF PlanTrade, EntryIsFilled
<1>4. CandleCloses \/ protect' = protect
  BY <1>3 DEF ProfileNext, ManageTrade, SignalAdds, OppositeSignal, profileVars
<1> QED
  BY <1>2, <1>4, CandleStep

LEMMA ProfilePromises == ProfileInv => ProfileTypeOK /\ PlanIsKept /\ AllHasATarget /\ BreakEvenPays
<1> SUFFICES ASSUME ProfileInv PROVE ProfileTypeOK /\ PlanIsKept /\ AllHasATarget /\ BreakEvenPays
  OBVIOUS
<1>1. ProfileTypeOK
  <2>1. lots \in Nat /\ entered \in Nat /\ giving \in Nat /\ lots <= entered /\ giving <= lots
    BY DEF ProfileInv, ProfileTypes, Counts
  <2>2. giving <= entered
    BY <2>1
  <2> QED
    BY <2>1, <2>2 DEF ProfileInv, ProfileTypes, ProfileTypeOK
<1>2. PlanIsKept
  <2> SUFFICES ASSUME setup # NoSetup
               PROVE  /\ setup.floor <= Risk /\ Risk < setup.cap + Tick
                      /\ setup.profile # "pattern_targets" /\ entered > 0 =>
                           \A i \in DOMAIN goals \ Completed :
                             Dir * (goals[i] - average) - EntryFee - ExitFee >= Ratios[setup.profile][i] * Risk
    BY DEF PlanIsKept
  <2>1. Dir = setup.dir /\ Risk = RiskOf(setup) /\ DOMAIN goals = 1 .. Len(goals) /\ DOMAIN taken = 1 .. Len(goals)
        /\ \A i \in 1 .. Len(goals) : taken[i] \in Nat
    BY SetupParts
  <2>2. PlanOK(setup)
    BY DEF ProfileInv, GoalsPay
  <2>3. ASSUME setup.profile # "pattern_targets", entered > 0, NEW i \in DOMAIN goals \ Completed
        PROVE  Dir * (goals[i] - average) - EntryFee - ExitFee >= Ratios[setup.profile][i] * Risk
    <3>1. i \in 1 .. Len(goals) /\ taken[i] = 0
      BY <2>1, <2>3 DEF Completed
    <3>2. PaysAt(setup, i, setup.dir * (goals[i] - average))
      BY <2>3, <3>1 DEF ProfileInv, GoalsPay
    <3> QED
      BY <2>1, <3>2 DEF PaysAt
  <2> QED
    BY <2>1, <2>2, <2>3 DEF PlanOK
<1>3. AllHasATarget
  <2> SUFFICES ASSUME goals # <<>>, entered > 0
               PROVE  /\ Total(Allocation(entered)) <= entered
                      /\ setup.profile # "atr_trend" => Total(Allocation(entered)) = entered
                      /\ lots <= entered - Total(taken)
    BY DEF AllHasATarget
  <2>1. setup # NoSetup /\ lots <= entered - Total(taken) /\ entered \in Nat
    BY DEF ProfileInv, ProfileTypes, Counts
  <2>2. setup.profile \in ProfileNames /\ Len(goals) = Len(Shares[setup.profile]) /\ goals \in Seq(Int)
    BY <2>1, SetupParts DEF ProfileInv, ProfileTypes
  <2>3. Shares[setup.profile] # <<>>
    BY <2>2
  <2> QED
    BY <2>1, <2>2, <2>3, Allots
<1>4. BreakEvenPays
  <2> SUFFICES ASSUME lots > 0, evenAt # 0, ~Beyond(Dir, evenAt, protect)
               PROVE  gross + lots * Dir * (protect - average) - fees - ExitFee * lots >= 0
    BY DEF BreakEvenPays
  <2>1. Covers(evenAt)
    BY DEF ProfileInv, StopsInv
  <2>2. PICK d \in {1, -1}, s \in Int, x \in Int, base \in Int : d = Dir /\ s = protect /\ x = evenAt /\ base = average
    BY HeldParts DEF ProfileInv, ProfileTypes
  <2>3. PICK l \in Nat, g \in Int, f \in Nat, c \in Nat : l = lots /\ g = gross /\ f = fees /\ c = ExitFee * lots
    BY HeldParts, Product
  <2>4. PICK a \in Int, b \in Int : a = d * (x - base) /\ b = d * (s - base)
    OBVIOUS
  <2>5. a <= b
    <3>1. CASE d = 1
      BY <2>2, <2>4, <3>1 DEF Beyond
    <3>2. CASE d = -1
      BY <2>2, <2>4, <3>2 DEF Beyond
    <3> QED
      BY <3>1, <3>2
  <2>6. PICK p \in Int, q \in Int : p = l * a /\ q = l * b /\ p <= q
    BY <2>5
  <2>7. g + p - f - c >= 0
    BY <2>1, <2>2, <2>3, <2>4, <2>6 DEF Covers
  <2>8. lots * Dir * (protect - average) = q
    <3>1. CASE d = 1
      BY <2>2, <2>3, <2>4, <2>6, <3>1
    <3>2. CASE d = -1
      BY <2>2, <2>3, <2>4, <2>6, <3>2
    <3> QED
      BY <3>1, <3>2
  <2>9. g + q - f - c >= 0
    BY <2>6, <2>7
  <2> QED
    BY <2>3, <2>8, <2>9
<1> QED
  BY <1>1, <1>2, <1>3, <1>4

LEMMA TickConstants ==
  /\ TickStart \in Nat /\ TickEnd \in Nat /\ Tolerance \in Nat /\ TickLookahead \in Nat /\ MaxTrouble \in Nat /\ TickStart < TickEnd
  /\ 1 \in Rhythm
  /\ \A tf \in Rhythm : tf \in Nat /\ tf > 0 /\ 0 \in Grids[tf] /\ Grids[tf] \subseteq Nat /\ \E s \in Grids[tf] : s > TickEnd
BY TicksAssumption DEF Rhythm

(* A candle starts no later than its moment and closes after it.               *)
LEMMA GridCandle ==
  ASSUME NEW tf \in Rhythm, NEW t \in 0 .. TickEnd
  PROVE  /\ CandleStart(tf, t) \in Grids[tf] /\ CandleStart(tf, t) \in 0 .. t
         /\ \A s \in Grids[tf] : s <= t => s <= CandleStart(tf, t)
         /\ CandleClose(tf, t) \in Grids[tf] /\ CandleClose(tf, t) \in Nat /\ CandleClose(tf, t) > t
         /\ \A s \in Grids[tf] : s > t => CandleClose(tf, t) <= s
<1>1. PICK G \in SUBSET Nat : G = Grids[tf] /\ 0 \in G /\ \E s \in G : s > TickEnd
  BY TickConstants
<1>2. t \in Nat /\ TickEnd \in Nat /\ t <= TickEnd
  BY TickConstants
<1>3. PICK B : B = {s \in G : s <= t}
  OBVIOUS
<1>10. B \subseteq 0 .. t
  BY <1>1, <1>2, <1>3
<1>4. 0 \in B
  BY <1>1, <1>2, <1>3
<1>5. PICK F : F = {s \in G : s > t}
  OBVIOUS
<1>11. F \subseteq Nat /\ F # {}
  BY <1>1, <1>2, <1>5
<1>6. CandleStart(tf, t) = Max(B)
  BY <1>1, <1>3 DEF CandleStart, Starts
<1>7. CandleClose(tf, t) = Min(F)
  BY <1>1, <1>5 DEF CandleClose, Closes
<1>8. Max(B) \in B /\ \A y \in B : y <= Max(B)
  BY <1>2, <1>4, <1>10, LatestOf
<1>9. Min(F) \in F /\ \A y \in F : Min(F) <= y
  BY <1>11, MinIs
<1> QED
  BY <1>1, <1>2, <1>3, <1>5, <1>6, <1>7, <1>8, <1>9, <1>10, <1>11

(* A candle that closes at a moment makes it the start of the next one.        *)
LEMMA CloseStarts ==
  ASSUME NEW tf \in Rhythm, NEW s \in 0 .. TickEnd, NEW t \in 0 .. TickEnd, CandleClose(tf, s) = t
  PROVE  CandleStart(tf, t) = t /\ s < t /\ \A u \in 0 .. TickEnd : u < t => CandleStart(tf, u) < t
<1>1. t \in Grids[tf] /\ s < t
  BY GridCandle
<1>2. t <= CandleStart(tf, t) /\ CandleStart(tf, t) \in 0 .. t
  BY <1>1, GridCandle
<1>3. \A u \in 0 .. TickEnd : u < t => CandleStart(tf, u) < t
  BY GridCandle
<1> QED
  BY <1>1, <1>2, <1>3

LEMMA PairsAre ==
  ASSUME DOMAIN rowsUpTo = AllPairs, tickMarket \in TickMarkets
  PROVE  /\ \A pair \in Pairs : pair[1] \in TickPapers /\ pair[2] \in Rhythm /\ pair[2] \in Timeframes(pair[1])
         /\ \A p \in TickPapers : \A tf \in Timeframes(p) : <<p, tf>> \in Pairs /\ tf \in Rhythm /\ <<p, tf>> \in PairsOf(tf)
         /\ \A p \in TickPapers : tickMarket.needs[p] \subseteq Timeframes(p)
<1>1. \A p \in TickPapers : tickMarket.needs[p] \subseteq Rhythm /\ Timeframes(p) \subseteq Rhythm
  BY TicksAssumption, TickConstants DEF TickPapers, Timeframes, Rhythm
<1>2. \A p \in TickPapers : \A tf \in Timeframes(p) : <<p, tf>> \in AllPairs
  BY DEF AllPairs
<1>3. \A pair \in AllPairs : \E p \in TickPapers : \E tf \in Timeframes(p) : pair = <<p, tf>>
  BY DEF AllPairs
<1> QED
  BY <1>1, <1>2, <1>3 DEF Pairs, PairsOf, Timeframes

(* The newest candle, where there is one.                                      *)
LEMMA NewestIs ==
  ASSUME NEW n \in Nat, NEW S, S \subseteq 0 .. n
  PROVE  NewestOf(S) \in S \union {-1} /\ \A s \in S : s <= NewestOf(S)
<1>1. CASE S = {}
  <2>1. \E x \in {-1} : \A y \in {-1} : x >= y
    OBVIOUS
  <2>2. S \union {-1} = {-1}
    BY <1>1
  <2>3. Max({-1}) = -1
    BY <2>1 DEF Max
  <2> QED
    BY <1>1, <2>2, <2>3 DEF NewestOf
<1>2. CASE S # {}
  <2>1. PICK m \in S : \A y \in S : y <= m
    BY <1>2, LatestOf
  <2>2. m \in S \union {-1} /\ \A y \in S \union {-1} : m >= y
    BY <2>1
  <2>3. Max(S \union {-1}) \in S \union {-1} /\ \A y \in S \union {-1} : Max(S \union {-1}) >= y
    BY <2>2 DEF Max
  <2> QED
    BY <2>3 DEF NewestOf
<1> QED
  BY <1>1, <1>2

LEMMA CandlesAre ==
  ASSUME NEW pair, NEW t \in 0 .. TickEnd, pair[2] \in Rhythm
  PROVE  /\ CandlesOf(pair, t) \subseteq 0 .. t
         /\ \A s \in CandlesOf(pair, t) : s < t /\ s \in Grids[pair[2]] /\ CandleClose(pair[2], s) <= t
                                          /\ \E m \in tickMarket.trades[pair[1]] : s <= m /\ m < CandleClose(pair[2], s)
BY TickConstants DEF CandlesOf

LEMMA MinOfOne == ASSUME NEW x \in Int PROVE Min({x, x}) = x
<1>1. \E z \in {x, x} : \A w \in {x, x} : z =< w
  OBVIOUS
<1>2. {x, x} = {x}
  OBVIOUS
<1> QED
  BY <1>1, <1>2 DEF Min

TickTypes ==
    /\ tickMarket \in TickMarkets /\ tickClock \in TickStart .. TickEnd
    /\ tickPhase \in {"boot", "rest", "ask", "refresh", "analyse"} /\ starting \in BOOLEAN
    /\ toAsk \subseteq Rhythm /\ readyFrames \subseteq Rhythm /\ dues \subseteq Rhythm
    /\ emptyTicks \in Nat /\ trouble \in 0 .. MaxTrouble
    /\ DOMAIN rowsUpTo = AllPairs /\ DOMAIN watched = AllPairs
    /\ \A pair \in AllPairs : rowsUpTo[pair] \in 0 .. tickClock /\ watched[pair] \in 0 .. rowsUpTo[pair]
    /\ tickPhase \in {"ask", "refresh", "analyse"} \/ ~starting => lastTick = tickClock

(* A candle of the pair closes at t which the calendar asks for, and nobody     *)
(* lags.                                                                       *)
NewestAt(pair, t) == NewestOf(CandlesOf(pair, t))
CallsAt(p, tf, t) ==
    /\ NewestAt(<<p, tf>>, t) # -1 /\ CandleClose(tf, NewestAt(<<p, tf>>, t)) = t
    /\ DueOpen(tf, t) \in 0 .. NewestAt(<<p, tf>>, t)
    /\ \A pair \in PairsOf(tf) :
          \/ NewestAt(pair, t) >= DueOpen(tf, t)
          \/ Tolerance > 0 /\ NewestAt(pair, t) < DueOpen(tf, t) - Tolerance * Span(tf, t)
Called(p, tf) == CallsAt(p, tf, tickClock)
Reread(p, tf) == tf \in toAsk \/ p \in disturbed \/ rowsUpTo[<<p, tf>>] = tickClock
ServedInv ==
    /\ tickPhase = "boot" => TickPapers \subseteq disturbed
    /\ tickPhase = "analyse" => toAsk = {}
    /\ tickPhase = "ask" =>
         \A p \in TickPapers : \A tf \in tickMarket.needs[p] : Called(p, tf) => tf \in toAsk \union readyFrames
    /\ tickPhase \in {"refresh", "analyse"} =>
         \A p \in TickPapers : \A tf \in tickMarket.needs[p] : Called(p, tf) => tf \in readyFrames /\ Reread(p, tf)
    /\ tickPhase = "rest" =>
         \A p \in TickPapers \ disturbed : \A tf \in tickMarket.needs[p] :
             Called(p, tf) => <<p, tf, NewestAt(<<p, tf>>, tickClock)>> \in analysedBars

LEMMA CallsSame ==
  tickMarket' = tickMarket /\ DOMAIN rowsUpTo' = DOMAIN rowsUpTo =>
    /\ \A p, tf, t : CallsAt(p, tf, t)' <=> CallsAt(p, tf, t)
    /\ \A pair, t : NewestAt(pair, t)' = NewestAt(pair, t)
    /\ \A tf, t : CandleStart(tf, t)' = CandleStart(tf, t)
BY DEF CallsAt, NewestAt, NewestOf, CandlesOf, CandleClose, CandleStart, Closes, Starts, DueOpen, PreviousStart, PairsOf, Pairs, Span, Rhythm

LEMMA TickParts ==
  ASSUME TickTypes
  PROVE  /\ tickClock \in 0 .. TickEnd /\ tickClock \in Nat /\ Pairs = AllPairs
         /\ \A pair \in Pairs : pair[1] \in TickPapers /\ pair[2] \in Rhythm
         /\ \A p \in TickPapers : \A tf \in tickMarket.needs[p] : <<p, tf>> \in Pairs /\ tf \in Rhythm /\ <<p, tf>> \in PairsOf(tf)
<1>1. tickClock \in 0 .. TickEnd /\ tickClock \in Nat
  BY TickConstants DEF TickTypes
<1> QED
  BY <1>1, PairsAre DEF TickTypes, Pairs

(* What calls crosses at its moment, and not before.                           *)
LEMMA CallCrosses ==
  ASSUME TickTypes, NEW p \in TickPapers, NEW tf \in tickMarket.needs[p], NEW t \in 0 .. TickEnd, CallsAt(p, tf, t)
  PROVE  /\ CandleStart(tf, t) = t /\ NewestAt(<<p, tf>>, t) \in 0 .. t
         /\ \A u \in 0 .. TickEnd : u < t => tf \in CrossedSince(u, t)
<1>1. tf \in Rhythm /\ <<p, tf>>[2] = tf
  BY TickParts
<1>2. CandlesOf(<<p, tf>>, t) \subseteq 0 .. t
  BY <1>1, CandlesAre
<1>3. t \in Nat
  BY TickConstants
<1>4. NewestAt(<<p, tf>>, t) \in CandlesOf(<<p, tf>>, t) \union {-1}
  BY <1>2, <1>3, NewestIs DEF NewestAt
<1>5. PICK s \in 0 .. t : s = NewestAt(<<p, tf>>, t)
  BY <1>2, <1>4 DEF CallsAt
<1>6. s \in 0 .. TickEnd /\ CandleClose(tf, s) = t
  BY <1>3, <1>5, TickConstants DEF CallsAt
<1>7. CandleStart(tf, t) = t /\ \A u \in 0 .. TickEnd : u < t => CandleStart(tf, u) < t
  BY <1>1, <1>6, CloseStarts
<1>8. ASSUME NEW u \in 0 .. TickEnd, u < t PROVE CandleStart(tf, t) > CandleStart(tf, u)
  <2>1. CandleStart(tf, u) < t /\ CandleStart(tf, u) \in Nat
    BY <1>1, <1>7, <1>8, GridCandle
  <2> QED
    BY <1>3, <1>7, <2>1
<1> QED
  BY <1>1, <1>5, <1>7, <1>8 DEF CrossedSince

(* A timeframe that is called is fresh once its pairs are loaded.              *)
LEMMA FreshOnceLoaded ==
  ASSUME TickTypes, NEW p \in TickPapers, NEW tf \in tickMarket.needs[p], Called(p, tf)
  PROVE  HasFresh(tf, LoadedNow(PairsOf(tf)))
<1>1. PICK t \in 0 .. TickEnd : t = tickClock /\ t \in Nat
  BY TickParts
<1>2. tf \in Rhythm /\ <<p, tf>> \in PairsOf(tf) /\ PairsOf(tf) \subseteq Pairs
  BY TickParts DEF PairsOf
<1> DEFINE last == [pair \in Pairs |-> LastRow(pair, LoadedNow(PairsOf(tf))[pair], tickClock)]
<1>3. ASSUME NEW pair \in PairsOf(tf) PROVE last[pair] = NewestAt(pair, t)
  <2>1. LoadedNow(PairsOf(tf))[pair] = t
    BY <1>1, <1>2, <1>3 DEF LoadedNow
  <2>2. Min({t, t}) = t
    BY <1>1, MinOfOne
  <2>3. last[pair] = LastRow(pair, t, t)
    BY <1>1, <1>2, <1>3, <2>1
  <2> QED
    BY <2>2, <2>3 DEF LastRow, NewestAt
<1>4. CallsAt(p, tf, t)
  BY <1>1 DEF Called
<1>5. PICK s \in Int, d \in Int : s = NewestAt(<<p, tf>>, t) /\ d = DueOpen(tf, t) /\ 0 <= d /\ d <= s
  BY <1>1, <1>4, CallCrosses DEF CallsAt
<1>6. PICK w \in Nat : w = Tolerance * Span(tf, t)
  <2>1. Span(tf, t) \in Nat
    BY <1>2, GridCandle, TickConstants DEF Span
  <2> QED
    BY <2>1, TickConstants
<1>7. ~Outside(last[<<p, tf>>], tf, t)
  BY <1>2, <1>3, <1>5, <1>6 DEF Outside
<1>8. \A pair \in PairsOf(tf) : ~Outside(last[pair], tf, t) => last[pair] >= d
  BY <1>3, <1>4, <1>5 DEF CallsAt, Outside
<1>9. FreshOf(tf, t, last)
  <2> HIDE DEF last
  <2>1. d # -1
    BY <1>5
  <2> QED
    BY <1>2, <1>5, <1>7, <1>8, <2>1, Zenon DEF FreshOf
<1> QED
  BY <1>1, <1>9 DEF HasFresh

TicksInv == TickTypes /\ ServedInv

LEMMA TicksStart == TicksInit => TicksInv
<1> SUFFICES ASSUME TicksInit PROVE TicksInv
  OBVIOUS
<1>1. TickTypes
  <2>1. tickClock \in TickStart .. TickEnd /\ tickClock \in Nat /\ 0 \in 0 .. MaxTrouble
    BY TickConstants DEF TicksInit
  <2>2. DOMAIN rowsUpTo = AllPairs /\ DOMAIN watched = AllPairs /\ \A pair \in AllPairs : rowsUpTo[pair] = 0 /\ watched[pair] = 0
    BY DEF TicksInit
  <2>3. \A pair \in AllPairs : rowsUpTo[pair] \in 0 .. tickClock /\ watched[pair] \in 0 .. rowsUpTo[pair]
    BY <2>1, <2>2
  <2> QED
    BY <2>1, <2>2, <2>3 DEF TicksInit, TickTypes
<1>2. ServedInv
  BY DEF TicksInit, ServedInv
<1> QED
  BY <1>1, <1>2 DEF TicksInv

(* What a load leaves of the pairs.                                            *)
LoadedPairs(got) ==
    /\ DOMAIN rowsUpTo' = AllPairs /\ DOMAIN watched' = AllPairs
    /\ \A pair \in AllPairs : /\ rowsUpTo'[pair] \in 0 .. tickClock /\ watched'[pair] \in 0 .. rowsUpTo'[pair]
                              /\ pair \in got => rowsUpTo'[pair] = tickClock
                              /\ pair \notin got => rowsUpTo'[pair] = rowsUpTo[pair]
LEMMA LoadIs ==
  ASSUME TickTypes, NEW got, rowsUpTo' = LoadedNow(got), watched' = WatchedNow(got)
  PROVE  LoadedPairs(got)
<1>1. tickClock \in 0 .. TickEnd /\ tickClock \in Nat /\ Pairs = AllPairs /\ \A pair \in Pairs : pair[2] \in Rhythm
  BY TickParts
<1>2. DOMAIN rowsUpTo' = AllPairs /\ DOMAIN watched' = AllPairs
  BY <1>1 DEF LoadedNow, WatchedNow
<1>3. ASSUME NEW pair \in AllPairs
      PROVE  /\ rowsUpTo'[pair] \in 0 .. tickClock /\ watched'[pair] \in 0 .. rowsUpTo'[pair]
             /\ pair \in got => rowsUpTo'[pair] = tickClock
             /\ pair \notin got => rowsUpTo'[pair] = rowsUpTo[pair]
  <2>1. rowsUpTo'[pair] = (IF pair \in got THEN tickClock ELSE rowsUpTo[pair])
        /\ watched'[pair] = (IF pair \in got THEN CandleStart(pair[2], tickClock) ELSE watched[pair])
    BY <1>1 DEF LoadedNow, WatchedNow
  <2>2. CandleStart(pair[2], tickClock) \in 0 .. tickClock
    BY <1>1, GridCandle
  <2>3. rowsUpTo[pair] \in 0 .. tickClock /\ watched[pair] \in 0 .. rowsUpTo[pair]
    BY DEF TickTypes
  <2>4. CASE pair \in got
    BY <1>1, <2>1, <2>2, <2>4
  <2>5. CASE pair \notin got
    BY <2>1, <2>3, <2>5
  <2> QED
    BY <2>4, <2>5
<1> QED
  BY <1>2, <1>3 DEF LoadedPairs

LEMMA AllPairsSame == tickMarket' = tickMarket => AllPairs' = AllPairs /\ TickPapers' = TickPapers
BY DEF AllPairs, TickPapers, Timeframes

LEMMA TroubleIs == TickTypes /\ (Troubled \/ trouble' = trouble) => trouble' \in 0 .. MaxTrouble
BY TickConstants DEF TickTypes, Troubled

LEMMA BootTick == TicksInv /\ Boot => TicksInv'
<1> SUFFICES ASSUME TicksInv, Boot PROVE TicksInv'
  OBVIOUS
<1>1. PICK got \in SUBSET Missing :
         /\ rowsUpTo' = LoadedNow(got) /\ watched' = WatchedNow(got)
         /\ IF got = Missing THEN tickPhase' = "rest" /\ UNCHANGED trouble ELSE tickPhase' = "boot" /\ Troubled
  BY DEF Boot
<1>2. /\ tickPhase = "boot"
      /\ UNCHANGED <<tickMarket, tickClock, lastTick, starting, toAsk, readyFrames, lastSeen, gained, dues, emptyTicks,
                     analysedBars, disturbed, leaps, dried>>
  BY DEF Boot
<1>3. LoadedPairs(got)
  BY <1>1, LoadIs DEF TicksInv
<1>4. trouble' \in 0 .. MaxTrouble /\ tickPhase' \in {"boot", "rest"}
  BY <1>1, TroubleIs DEF TicksInv
<1>5. TickTypes'
  BY <1>2, <1>3, <1>4, AllPairsSame DEF TicksInv, TickTypes, LoadedPairs
<1>6. TickPapers' = TickPapers /\ TickPapers \subseteq disturbed'
  BY <1>2, AllPairsSame DEF TicksInv, ServedInv
<1>7. ServedInv'
  BY <1>4, <1>6 DEF ServedInv
<1> QED
  BY <1>5, <1>7 DEF TicksInv

LEMMA BeginTick == TicksInv /\ BeginTicks => TicksInv'
<1> SUFFICES ASSUME TicksInv, BeginTicks PROVE TicksInv'
  OBVIOUS
<1>1. /\ tickPhase = "rest" /\ ~TickOver
      /\ tickClock' = tickClock + 1 /\ lastTick' = tickClock + 1
      /\ toAsk' = (IF starting THEN Rhythm ELSE AskAgain)
      /\ readyFrames' = {} /\ tickPhase' = "ask"
      /\ UNCHANGED <<tickMarket, starting, rowsUpTo, watched, lastSeen, gained, dues, emptyTicks, trouble, dried>>
  BY DEF BeginTicks
<1>2. PICK t \in 0 .. TickEnd : t = tickClock' /\ tickClock \in 0 .. TickEnd /\ tickClock < t /\ tickClock \in Nat /\ t \in TickStart .. TickEnd
  BY <1>1, TickConstants DEF TicksInv, TickTypes, TickOver
<1>3. TickTypes'
  <2>1. \A pair \in AllPairs : rowsUpTo[pair] \in 0 .. tickClock'
    BY <1>2 DEF TicksInv, TickTypes
  <2>2. toAsk' \subseteq Rhythm
    BY <1>1 DEF AskAgain, CrossedSince
  <2>3. Rhythm' = Rhythm
    BY DEF Rhythm
  <2> QED
    BY <1>1, <1>2, <2>1, <2>2, <2>3, AllPairsSame DEF TicksInv, TickTypes
<1>4. ASSUME NEW p \in TickPapers, NEW tf \in tickMarket.needs[p], CallsAt(p, tf, t) PROVE tf \in toAsk'
  <2>1. tf \in Rhythm
    BY TickParts DEF TicksInv
  <2>2. tf \in CrossedSince(tickClock, t)
    BY <1>2, <1>4, CallCrosses DEF TicksInv
  <2>3. ~starting => lastTick = tickClock
    BY DEF TicksInv, TickTypes
  <2> QED
    BY <1>1, <1>2, <2>1, <2>2, <2>3 DEF AskAgain
<1>5. \A p, tf : Called(p, tf)' => CallsAt(p, tf, t)
  BY <1>1, <1>2, CallsSame DEF Called
<1>6. ServedInv'
  BY <1>1, <1>4, <1>5, AllPairsSame DEF ServedInv
<1> QED
  BY <1>3, <1>6 DEF TicksInv

LEMMA AskStep == TicksInv /\ AskFrame => TicksInv'
<1> SUFFICES ASSUME TicksInv, AskFrame PROVE TicksInv'
  OBVIOUS
<1>1. /\ tickPhase = "ask"
      /\ UNCHANGED <<tickMarket, tickClock, lastTick, starting, emptyTicks, analysedBars, leaps, dried>>
  BY DEF AskFrame
<1>2. PICK tf \in toAsk :
         \/ /\ HasFresh(tf, rowsUpTo)
            /\ toAsk' = toAsk \ {tf} /\ readyFrames' = readyFrames \union {tf}
            /\ UNCHANGED <<tickPhase, rowsUpTo, watched, lastSeen, gained, dues, disturbed, trouble>>
         \/ /\ ~HasFresh(tf, rowsUpTo)
            /\ Load(PairsOf(tf)) /\ Collect(tf, PairsOf(tf))
            /\ toAsk' = toAsk \ {tf}
            /\ readyFrames' = IF HasFresh(tf, LoadedNow(PairsOf(tf))) THEN readyFrames \union {tf} ELSE readyFrames
            /\ UNCHANGED <<tickPhase, disturbed, trouble>>
         \/ /\ ~HasFresh(tf, rowsUpTo)
            /\ Troubled /\ \E got \in SUBSET PairsOf(tf) : got # PairsOf(tf) /\ Load(got)
            /\ toAsk' = {} /\ readyFrames' = {} /\ disturbed' = TickPapers
            /\ tickPhase' = (IF starting THEN "boot" ELSE "rest")
            /\ UNCHANGED <<gained, dues>>
  BY DEF AskFrame
<1>3. tf \in Rhythm /\ Rhythm' = Rhythm
  BY DEF TicksInv, TickTypes, Rhythm
<1>4. ASSUME DOMAIN rowsUpTo' = DOMAIN rowsUpTo, NEW p, NEW f, Called(p, f)' PROVE Called(p, f)
  BY <1>1, <1>4, CallsSame DEF Called
<1>5. CASE /\ toAsk' = toAsk \ {tf} /\ readyFrames' = readyFrames \union {tf}
           /\ UNCHANGED <<tickPhase, rowsUpTo, watched, lastSeen, gained, dues, disturbed, trouble>>
  <2>1. TickTypes'
    BY <1>1, <1>3, <1>5, AllPairsSame DEF TicksInv, TickTypes
  <2>2. ServedInv'
    BY <1>1, <1>4, <1>5, AllPairsSame DEF TicksInv, ServedInv
  <2> QED
    BY <2>1, <2>2 DEF TicksInv
<1>6. CASE /\ Load(PairsOf(tf)) /\ Collect(tf, PairsOf(tf))
           /\ toAsk' = toAsk \ {tf}
           /\ readyFrames' = IF HasFresh(tf, LoadedNow(PairsOf(tf))) THEN readyFrames \union {tf} ELSE readyFrames
           /\ UNCHANGED <<tickPhase, disturbed, trouble>>
  <2>1. LoadedPairs(PairsOf(tf))
    BY <1>6, LoadIs DEF TicksInv, Load
  <2>2. dues' \subseteq Rhythm
    BY <1>3, <1>6 DEF Collect, TicksInv, TickTypes
  <2>3. TickTypes'
    BY <1>1, <1>3, <1>6, <2>1, <2>2, AllPairsSame DEF TicksInv, TickTypes, LoadedPairs
  <2>4. DOMAIN rowsUpTo' = DOMAIN rowsUpTo
    BY <2>1 DEF TicksInv, TickTypes, LoadedPairs
  <2>5. ASSUME NEW p \in TickPapers, NEW f \in tickMarket.needs[p], Called(p, f) PROVE f \in toAsk' \union readyFrames'
    <3>1. f \in toAsk \union readyFrames
      BY <1>1, <2>5 DEF TicksInv, ServedInv
    <3>2. f = tf => HasFresh(tf, LoadedNow(PairsOf(tf)))
      BY <2>5, FreshOnceLoaded DEF TicksInv
    <3> QED
      BY <1>6, <3>1, <3>2
  <2>6. ServedInv'
    BY <1>1, <1>4, <1>6, <2>4, <2>5, AllPairsSame DEF ServedInv
  <2> QED
    BY <2>3, <2>6 DEF TicksInv
<1>7. CASE /\ Troubled /\ \E got \in SUBSET PairsOf(tf) : got # PairsOf(tf) /\ Load(got)
           /\ toAsk' = {} /\ readyFrames' = {} /\ disturbed' = TickPapers
           /\ tickPhase' = (IF starting THEN "boot" ELSE "rest")
           /\ UNCHANGED <<gained, dues>>
  <2>1. PICK got : Load(got)
    BY <1>7
  <2>2. LoadedPairs(got)
    BY <2>1, LoadIs DEF TicksInv, Load
  <2>3. trouble' \in 0 .. MaxTrouble /\ tickPhase' \in {"boot", "rest"}
    BY <1>7, TroubleIs DEF TicksInv
  <2>4. TickTypes'
    BY <1>1, <1>3, <1>7, <2>2, <2>3, AllPairsSame DEF TicksInv, TickTypes, LoadedPairs
  <2>5. ServedInv'
    BY <1>1, <1>7, <2>3, AllPairsSame DEF ServedInv
  <2> QED
    BY <2>4, <2>5 DEF TicksInv
<1> QED
  BY <1>2, <1>5, <1>6, <1>7

LEMMA AskedStep == TicksInv /\ AskedAll => TicksInv'
<1> SUFFICES ASSUME TicksInv, AskedAll PROVE TicksInv'
  OBVIOUS
<1>1. /\ tickPhase = "ask" /\ toAsk = {} /\ tickPhase' = "refresh" /\ toAsk' = readyFrames
      /\ UNCHANGED <<tickMarket, tickClock, lastTick, starting, readyFrames, rowsUpTo, watched, lastSeen, gained, dues,
                     emptyTicks, analysedBars, disturbed, leaps, trouble, dried>>
  BY DEF AskedAll
<1>2. Rhythm' = Rhythm
  BY DEF Rhythm
<1>3. TickTypes'
  BY <1>1, <1>2, AllPairsSame DEF TicksInv, TickTypes
<1>4. ASSUME NEW p \in TickPapers, NEW tf \in tickMarket.needs[p], Called(p, tf)' PROVE tf \in readyFrames
  BY <1>1, <1>4, CallsSame DEF Called, TicksInv, ServedInv
<1>5. ServedInv'
  BY <1>1, <1>4, AllPairsSame DEF ServedInv, Reread
<1> QED
  BY <1>3, <1>5 DEF TicksInv

LEMMA RefreshStep == TicksInv /\ RefreshFrame => TicksInv'
<1> SUFFICES ASSUME TicksInv, RefreshFrame PROVE TicksInv'
  OBVIOUS
<1>1. /\ tickPhase = "refresh"
      /\ UNCHANGED <<tickMarket, tickPhase, tickClock, lastTick, starting, readyFrames, emptyTicks, analysedBars, leaps, dried>>
  BY DEF RefreshFrame
<1>2. PICK tf \in toAsk :
         /\ toAsk' = toAsk \ {tf}
         /\ \/ Load(Unwatched(tf)) /\ Collect(tf, Unwatched(tf)) /\ UNCHANGED <<disturbed, trouble>>
            \/ /\ Troubled /\ UNCHANGED <<gained, dues>>
               /\ \E got \in SUBSET Unwatched(tf) :
                    /\ got # Unwatched(tf) /\ Load(got)
                    /\ disturbed' = disturbed \union {pair[1] : pair \in Unwatched(tf) \ got}
  BY DEF RefreshFrame
<1>3. tf \in Rhythm /\ Rhythm' = Rhythm
  BY DEF TicksInv, TickTypes, Rhythm
<1>4. PICK got \in SUBSET Unwatched(tf) :
        /\ Load(got) /\ disturbed \subseteq disturbed' /\ \A pair \in Unwatched(tf) \ got : pair[1] \in disturbed'
  BY <1>2
<1>5. LoadedPairs(got)
  BY <1>4, LoadIs DEF TicksInv, Load
<1>6. trouble' \in 0 .. MaxTrouble
  BY <1>2, TroubleIs DEF TicksInv
<1>7. dues' \subseteq Rhythm
  BY <1>2, <1>3 DEF Collect, TicksInv, TickTypes
<1>8. TickTypes'
  BY <1>1, <1>2, <1>3, <1>5, <1>6, <1>7, AllPairsSame DEF TicksInv, TickTypes, LoadedPairs
<1>9. DOMAIN rowsUpTo' = DOMAIN rowsUpTo
  BY <1>5 DEF TicksInv, TickTypes, LoadedPairs
<1>10. ASSUME NEW p \in TickPapers, NEW f \in tickMarket.needs[p], Called(p, f)'
       PROVE  f \in readyFrames /\ (f \in toAsk' \/ p \in disturbed' \/ rowsUpTo'[<<p, f>>] = tickClock)
  <2>1. Called(p, f)
    BY <1>1, <1>9, <1>10, CallsSame DEF Called
  <2>2. f \in readyFrames /\ Reread(p, f)
    BY <1>1, <2>1 DEF TicksInv, ServedInv
  <2>3. <<p, f>> \in AllPairs /\ <<p, f>> \in PairsOf(f) /\ tickClock \in 0 .. TickEnd /\ tickClock \in Nat /\ <<p, f>>[1] = p
    BY TickParts DEF TicksInv
  <2>4. CASE f # tf
    BY <1>2, <1>4, <1>5, <2>2, <2>3, <2>4 DEF Reread, LoadedPairs
  <2>5. CASE f = tf /\ <<p, f>> \in Unwatched(tf)
    BY <1>4, <1>5, <2>2, <2>3, <2>5 DEF LoadedPairs
  <2>6. CASE f = tf /\ <<p, f>> \notin Unwatched(tf)
    <3>1. ~(watched[<<p, f>>] < CandleStart(f, tickClock)) /\ CandleStart(f, tickClock) = tickClock
      BY <2>1, <2>3, <2>6, CallCrosses DEF Unwatched, Called, TicksInv
    <3>2. rowsUpTo[<<p, f>>] \in 0 .. tickClock /\ watched[<<p, f>>] \in 0 .. rowsUpTo[<<p, f>>]
      BY <2>3 DEF TicksInv, TickTypes
    <3>3. rowsUpTo[<<p, f>>] = tickClock
      BY <2>3, <3>1, <3>2
    <3> QED
      BY <1>5, <2>2, <2>3, <3>3 DEF LoadedPairs
  <2> QED
    BY <2>4, <2>5, <2>6
<1>11. ServedInv'
  BY <1>1, <1>10, AllPairsSame DEF ServedInv, Reread
<1> QED
  BY <1>8, <1>11 DEF TicksInv

LEMMA OrdinaryClosed == TicksInv /\ CloseOrdinary => TicksInv'
<1> SUFFICES ASSUME TicksInv, CloseOrdinary PROVE TicksInv'
  OBVIOUS
<1>1. /\ tickPhase = "refresh" /\ toAsk = {} /\ dues' = {}
      /\ emptyTicks' = EmptiesNow /\ tickPhase' = "analyse"
      /\ UNCHANGED <<tickMarket, tickClock, lastTick, starting, toAsk, readyFrames, rowsUpTo, watched, lastSeen,
                     analysedBars, disturbed, leaps, trouble, dried>>
  BY DEF CloseOrdinary, TickClosed
<1>2. EmptiesNow \in Nat /\ Rhythm' = Rhythm
  BY DEF EmptiesNow, TicksInv, TickTypes, Rhythm
<1>3. TickTypes'
  BY <1>1, <1>2, AllPairsSame DEF TicksInv, TickTypes
<1>4. \A p, tf : Called(p, tf)' => Called(p, tf)
  BY <1>1, CallsSame DEF Called
<1>5. ServedInv'
  BY <1>1, <1>4, AllPairsSame DEF TicksInv, ServedInv, Reread
<1> QED
  BY <1>3, <1>5 DEF TicksInv

(* The search never leaves the range.                                          *)
LEMMA NextIs ==
  ASSUME TickTypes, NEW papers \in SUBSET TickPapers, LaterCandles(papers) # {}
  PROVE  /\ DriverFrame \in Rhythm /\ \A pair \in Pairs : DriverFrame <= pair[2]
         /\ NextCandle(papers) \in LaterCandles(papers) /\ \A s \in LaterCandles(papers) : NextCandle(papers) <= s
         /\ NextCandle(papers) \in Nat /\ tickClock < NextCandle(papers) /\ NextCandle(papers) < TickEnd
<1>1. PICK p \in TickPapers : TRUE
  BY DEF LaterCandles
<1>2. 1 \in Timeframes(p)
  BY DEF Timeframes
<1>3. <<p, 1>> \in Pairs /\ \A pair \in Pairs : pair[2] \in Rhythm
  BY <1>2, PairsAre DEF TickTypes
<1>4. PICK F : F = {pair[2] : pair \in Pairs}
  OBVIOUS
<1>5. F # {} /\ F \subseteq Nat /\ F \subseteq Rhythm
  BY <1>3, <1>4, TickConstants
<1>6. DriverFrame \in F /\ \A f \in F : DriverFrame <= f
  BY <1>4, <1>5, MinIs DEF DriverFrame
<1>7. LaterCandles(papers) \subseteq Nat
  BY <1>5, <1>6, TickConstants DEF LaterCandles
<1>8. NextCandle(papers) \in LaterCandles(papers) /\ \A s \in LaterCandles(papers) : NextCandle(papers) <= s
  BY <1>7, MinIs DEF NextCandle
<1>9. SearchEnd \in Nat /\ SearchEnd <= TickEnd
  <2>1. {tickClock + TickLookahead, TickEnd} \subseteq Nat
    BY TickParts, TickConstants
  <2> QED
    BY <2>1, MinIs DEF SearchEnd
<1>10. tickClock < NextCandle(papers) /\ NextCandle(papers) < SearchEnd
  BY <1>8 DEF LaterCandles
<1>11. \A pair \in Pairs : DriverFrame <= pair[2]
  BY <1>4, <1>6
<1>12. NextCandle(papers) < TickEnd
  <2>1. PICK s \in Nat : s = NextCandle(papers)
    BY <1>7, <1>8
  <2>2. PICK e \in Nat : e = SearchEnd
    BY <1>9
  <2> QED
    BY <1>9, <1>10, <2>1, <2>2, TickConstants
<1>13. DriverFrame \in Rhythm /\ NextCandle(papers) \in Nat
  BY <1>5, <1>6, <1>7, <1>8
<1> QED
  BY <1>8, <1>10, <1>11, <1>12, <1>13

LEMMA LeapStep == TicksInv /\ LeapOver => TicksInv'
<1> SUFFICES ASSUME TicksInv, LeapOver PROVE TicksInv'
  OBVIOUS
<1>1. /\ tickPhase = "refresh" /\ toAsk = {} /\ dues' = {}
      /\ UNCHANGED <<tickMarket, toAsk, readyFrames, rowsUpTo, watched, lastSeen, analysedBars>>
  BY DEF LeapOver, TickClosed
<1>2. PICK answered \in SUBSET TickPapers :
         /\ IF answered = TickPapers THEN UNCHANGED trouble ELSE Troubled
         /\ \/ /\ LaterCandles(answered) # {}
               /\ tickClock' = NextCandle(answered) /\ lastTick' = tickClock'
               /\ leaps' = {<<tickClock, tickClock', answered>>}
               /\ emptyTicks' = 0 /\ starting' = FALSE /\ tickPhase' = "rest" /\ disturbed' = TickPapers /\ UNCHANGED dried
            \/ /\ LaterCandles(answered) = {}
               /\ dried' = (answered = TickPapers) /\ emptyTicks' = EmptiesNow /\ tickPhase' = "analyse"
               /\ UNCHANGED <<tickClock, lastTick, starting, disturbed, leaps>>
  BY DEF LeapOver
<1>3. trouble' \in 0 .. MaxTrouble
  BY <1>2, TroubleIs DEF TicksInv
<1>4. Rhythm' = Rhythm
  BY DEF Rhythm
<1>5. CASE LaterCandles(answered) # {}
  <2>1. /\ tickClock' = NextCandle(answered) /\ lastTick' = tickClock' /\ emptyTicks' = 0 /\ starting' = FALSE
        /\ tickPhase' = "rest" /\ disturbed' = TickPapers
    BY <1>2, <1>5
  <2>2. tickClock' \in Nat /\ tickClock < tickClock' /\ tickClock' < TickEnd
    BY <1>5, <2>1, NextIs DEF TicksInv
  <2>3. tickClock' \in TickStart .. TickEnd
    BY <2>2, TickConstants DEF TicksInv, TickTypes
  <2>4. \A pair \in AllPairs : rowsUpTo[pair] \in 0 .. tickClock' /\ watched[pair] \in 0 .. rowsUpTo[pair]
    <3> TAKE pair \in AllPairs
    <3>1. rowsUpTo[pair] \in 0 .. tickClock /\ watched[pair] \in 0 .. rowsUpTo[pair] /\ tickClock \in Nat
      BY TickParts DEF TicksInv, TickTypes
    <3> QED
      BY <2>2, <3>1
  <2>5. TickTypes'
    BY <1>1, <1>3, <1>4, <2>1, <2>3, <2>4, AllPairsSame DEF TicksInv, TickTypes
  <2>6. ServedInv'
    BY <1>1, <2>1, AllPairsSame DEF ServedInv
  <2> QED
    BY <2>5, <2>6 DEF TicksInv
<1>6. CASE LaterCandles(answered) = {}
  <2>1. emptyTicks' = EmptiesNow /\ tickPhase' = "analyse" /\ UNCHANGED <<tickClock, lastTick, starting, disturbed, leaps>>
    BY <1>2, <1>6
  <2>2. EmptiesNow \in Nat
    BY DEF EmptiesNow, TicksInv, TickTypes
  <2>3. TickTypes'
    BY <1>1, <1>3, <1>4, <2>1, <2>2, AllPairsSame DEF TicksInv, TickTypes
  <2>4. \A p, tf : Called(p, tf)' => Called(p, tf)
    BY <1>1, <2>1, CallsSame DEF Called
  <2>5. ServedInv'
    BY <1>1, <2>1, <2>4, AllPairsSame DEF TicksInv, ServedInv, Reread
  <2> QED
    BY <2>3, <2>5 DEF TicksInv
<1> QED
  BY <1>5, <1>6

LEMMA TickAnalysed == TicksInv /\ Analyse => TicksInv'
<1> SUFFICES ASSUME TicksInv, Analyse PROVE TicksInv'
  OBVIOUS
<1>1. /\ tickPhase = "analyse" /\ starting' = FALSE /\ tickPhase' = "rest"
      /\ UNCHANGED <<tickMarket, tickClock, lastTick, toAsk, readyFrames, rowsUpTo, watched, lastSeen, gained, dues,
                     emptyTicks, leaps, dried>>
  BY DEF Analyse
<1>2. \/ /\ analysedBars' = UNION {RowsOf(p) : p \in TickPapers} /\ UNCHANGED <<disturbed, trouble>>
      \/ /\ Troubled
         /\ \E p \in TickPapers, upto \in {row[2] : row \in UNION {RowsOf(q) : q \in TickPapers}} :
               /\ RowsOf(p) # RowsKept(p, upto)
               /\ analysedBars' = RowsKept(p, upto) \union UNION {RowsOf(q) : q \in TickPapers \ {p}}
               /\ disturbed' = disturbed \union {p}
  BY DEF Analyse
<1>3. trouble' \in 0 .. MaxTrouble
  BY <1>2, TroubleIs DEF TicksInv
<1>4. disturbed \subseteq disturbed' /\ \A q \in TickPapers \ disturbed' : RowsOf(q) \subseteq analysedBars'
  BY <1>2
<1>5. lastTick = tickClock
  BY <1>1 DEF TicksInv, TickTypes
<1>6. TickTypes'
  <2>1. Rhythm' = Rhythm
    BY DEF Rhythm
  <2> QED
    BY <1>1, <1>3, <1>5, <2>1, AllPairsSame DEF TicksInv, TickTypes
<1>7. ASSUME NEW p \in TickPapers \ disturbed', NEW tf \in tickMarket.needs[p], Called(p, tf)'
      PROVE  <<p, tf, NewestAt(<<p, tf>>, tickClock)>> \in analysedBars'
  <2>1. Called(p, tf)
    BY <1>1, <1>7, CallsSame DEF Called
  <2>2. tf \in readyFrames /\ rowsUpTo[<<p, tf>>] = tickClock
    BY <1>1, <1>4, <2>1 DEF TicksInv, ServedInv, Reread
  <2>3. LastRow(<<p, tf>>, tickClock, tickClock) = NewestAt(<<p, tf>>, tickClock)
    BY TickParts, MinOfOne DEF LastRow, NewestAt, TicksInv
  <2>4. <<p, tf, LastRow(<<p, tf>>, rowsUpTo[<<p, tf>>], tickClock)>> \in RowsOf(p)
    BY <2>2 DEF RowsOf
  <2> QED
    BY <1>4, <2>2, <2>3, <2>4
<1>8. \A pair : NewestAt(pair, tickClock)' = NewestAt(pair, tickClock)
  BY <1>1, CallsSame
<1>9. ServedInv'
  BY <1>1, <1>7, <1>8, AllPairsSame DEF ServedInv
<1> QED
  BY <1>6, <1>9 DEF TicksInv

LEMMA TicksKept == TicksInv /\ UNCHANGED ticksVars => TicksInv'
<1> SUFFICES ASSUME TicksInv, UNCHANGED ticksVars PROVE TicksInv'
  OBVIOUS
<1>1. UNCHANGED <<tickMarket, tickPhase, tickClock, lastTick, starting, toAsk, readyFrames, rowsUpTo, watched, lastSeen, gained,
                  dues, emptyTicks, analysedBars, disturbed, leaps, trouble, dried>>
  BY DEF ticksVars
<1>2. TickTypes'
  <2>1. Rhythm' = Rhythm
    BY DEF Rhythm
  <2> QED
    BY <1>1, <2>1, AllPairsSame DEF TicksInv, TickTypes
<1>3. /\ \A p, tf : Called(p, tf)' => Called(p, tf)
      /\ \A pair : NewestAt(pair, tickClock)' = NewestAt(pair, tickClock)
  BY <1>1, CallsSame DEF Called
<1>4. ServedInv'
  BY <1>1, <1>3, AllPairsSame DEF TicksInv, ServedInv, Reread
<1> QED
  BY <1>2, <1>4 DEF TicksInv

LEMMA TicksSteps == TicksInv /\ [TicksNext]_ticksVars => TicksInv'
BY BootTick, BeginTick, AskStep, AskedStep, RefreshStep, OrdinaryClosed, LeapStep, TickAnalysed, TicksKept DEF TicksNext

LEMMA TicksPromise == TicksInv => TicksTypeOK /\ BoundariesServed
<1> SUFFICES ASSUME TicksInv PROVE TicksTypeOK /\ BoundariesServed
  OBVIOUS
<1>1. TicksTypeOK
  BY DEF TicksInv, TickTypes, TicksTypeOK
<1>2. ASSUME tickPhase = "rest", NEW p \in TickPapers \ disturbed, NEW tf \in tickMarket.needs[p],
             TrueLast[<<p, tf>>] # -1, CandleClose(tf, TrueLast[<<p, tf>>]) = tickClock,
             DueOpen(tf, tickClock) \in 0 .. TrueLast[<<p, tf>>], NobodyLags(tf)
      PROVE  <<p, tf, TrueLast[<<p, tf>>]>> \in analysedBars
  <2>1. <<p, tf>> \in Pairs /\ PairsOf(tf) \subseteq Pairs
    BY TickParts DEF TicksInv, PairsOf
  <2>2. \A pair \in Pairs : TrueLast[pair] = NewestAt(pair, tickClock)
    BY DEF TrueLast, NewestAt
  <2>3. Called(p, tf)
    BY <1>2, <2>1, <2>2 DEF NobodyLags, Called, CallsAt
  <2> QED
    BY <1>2, <2>1, <2>2, <2>3 DEF TicksInv, ServedInv
<1>3. BoundariesServed
  BY <1>2 DEF BoundariesServed
<1> QED
  BY <1>1, <1>3

(* The minutes follow one another without a gap.                               *)
LEMMA MinuteIs ==
  ASSUME NEW t \in 0 .. TickEnd
  PROVE  1 \in Rhythm /\ t \in Grids[1] /\ CandleStart(1, t) = t /\ CandleClose(1, t) = t + 1
<1>1. t \in Nat /\ t <= TickEnd /\ TickEnd \in Nat /\ 1 \in Rhythm
  BY TickConstants
<1>2. t \in Grids[1] /\ t + 1 \in Grids[1]
  BY <1>1, TicksAssumption
<1>3. CandleStart(1, t) \in 0 .. t /\ t <= CandleStart(1, t)
  BY <1>1, <1>2, GridCandle
<1>4. CandleClose(1, t) \in Nat /\ CandleClose(1, t) > t /\ CandleClose(1, t) <= t + 1
  BY <1>1, <1>2, GridCandle
<1> QED
  BY <1>1, <1>2, <1>3, <1>4

(* What is known of the minute that has just closed: it is still to be asked    *)
(* for, or the calendar let it pass and it is still to be refreshed, or the     *)
(* tick counts and has heard of every trade in it, or its read has failed.      *)
Stale == \A p \in TickPapers : rowsUpTo[<<p, 1>>] < tickClock
Counted == dues # {} /\ \A p \in TickPapers : gained \/ tickClock - 1 \notin tickMarket.trades[p]
SeenOK == DOMAIN lastSeen = AllPairs /\ \A pair \in AllPairs : lastSeen[pair] \in Int /\ lastSeen[pair] < rowsUpTo[pair]
MinuteInv ==
    /\ tickPhase = "ask" => \/ 1 \in toAsk /\ Stale
                            \/ 1 \notin toAsk /\ 1 \in readyFrames /\ Stale /\ ~InCalendar(tickClock - 1)
                            \/ 1 \notin toAsk /\ Counted
    /\ tickPhase = "refresh" => \/ 1 \in toAsk /\ Stale /\ ~InCalendar(tickClock - 1)
                                \/ Counted
                                \/ trouble > 0 /\ ~InCalendar(tickClock - 1)
(* An empty tick has seen a silent minute, where every read went through.      *)
SilentAt(m) == \A p \in TickPapers : m \notin tickMarket.trades[p]
SilentInv ==
    trouble = 0 /\ emptyTicks > 0 =>
        /\ tickPhase # "boot"
        /\ tickPhase \in {"ask", "refresh"} => SilentAt(tickClock - 2)
        /\ tickPhase \in {"analyse", "rest"} => SilentAt(tickClock - 1)
QuietInv == SeenOK /\ (TickPapers # {} => MinuteInv /\ SilentInv) /\ LeapsAreSilent

LEMMA TroubleGrows ==
  TickTypes /\ (Troubled \/ trouble' = trouble) =>
    (trouble' = 0 => trouble = 0) /\ (trouble > 0 => trouble' > 0) /\ (Troubled => trouble' > 0)
BY TickConstants DEF TickTypes, Troubled

LEMMA LeapsKept ==
  LeapsAreSilent /\ tickMarket' = tickMarket /\ (leaps' = leaps \/ leaps' = {}) /\ (trouble' = 0 => trouble = 0) => LeapsAreSilent'
BY DEF LeapsAreSilent, InCalendar, TickPapers

LEMMA CalendarSame == tickMarket' = tickMarket => \A m : (InCalendar(m)' <=> InCalendar(m)) /\ (SilentAt(m)' <=> SilentAt(m))
BY DEF InCalendar, SilentAt, TickPapers

(* A load sees no candle that has not closed.                                  *)
LEMMA SeenIs ==
  ASSUME TickTypes, SeenOK, NEW got, rowsUpTo' = LoadedNow(got), lastSeen' = SeenNow(got), tickMarket' = tickMarket
  PROVE  SeenOK'
<1>1. tickClock \in 0 .. TickEnd /\ tickClock \in Nat /\ Pairs = AllPairs /\ \A pair \in Pairs : pair[2] \in Rhythm
  BY TickParts
<1>2. AllPairs' = AllPairs /\ DOMAIN lastSeen' = AllPairs
  BY <1>1, AllPairsSame DEF SeenNow
<1>3. ASSUME NEW pair \in AllPairs PROVE lastSeen'[pair] \in Int /\ lastSeen'[pair] < rowsUpTo'[pair]
  <2>1. CASE pair \notin got
    <3>1. lastSeen'[pair] = lastSeen[pair] /\ rowsUpTo'[pair] = rowsUpTo[pair]
      BY <1>1, <2>1 DEF SeenNow, LoadedNow
    <3> QED
      BY <3>1 DEF SeenOK
  <2>2. CASE pair \in got
    <3>1. lastSeen'[pair] = LastRow(pair, tickClock, tickClock) /\ rowsUpTo'[pair] = tickClock
      BY <1>1, <2>2 DEF SeenNow, LoadedNow
    <3>2. lastSeen'[pair] = NewestOf(CandlesOf(pair, tickClock))
      BY <1>1, <3>1, MinOfOne DEF LastRow
    <3>3. CandlesOf(pair, tickClock) \subseteq 0 .. tickClock /\ \A s \in CandlesOf(pair, tickClock) : s < tickClock
      BY <1>1, CandlesAre
    <3>4. lastSeen'[pair] \in CandlesOf(pair, tickClock) \union {-1}
      BY <1>1, <3>2, <3>3, NewestIs
    <3> QED
      BY <1>1, <3>1, <3>3, <3>4
  <2> QED
    BY <2>1, <2>2
<1> QED
  BY <1>2, <1>3 DEF SeenOK

(* A first load in the tick is a progress where the last minute has trades.    *)
LEMMA MinuteHeard ==
  ASSUME TickTypes, SeenOK, NEW p \in TickPapers, NEW got, <<p, 1>> \in got, rowsUpTo[<<p, 1>>] < tickClock,
         tickClock - 1 \in tickMarket.trades[p]
  PROVE  Progress(got)
<1>1. tickClock \in 0 .. TickEnd /\ tickClock \in Nat /\ TickEnd \in Nat /\ Pairs = AllPairs
  BY TickParts, TickConstants
<1>2. <<p, 1>> \in Pairs
  BY PairsAre DEF TickTypes, Timeframes
<1>3. PICK t \in 0 .. TickEnd : t = tickClock - 1 /\ t + 1 = tickClock /\ t \in Nat
  <2>1. rowsUpTo[<<p, 1>>] \in Nat
    BY <1>1, <1>2 DEF TickTypes
  <2> QED
    BY <1>1, <2>1
<1>4. t \in Grids[1] /\ CandleClose(1, t) = tickClock
  BY <1>3, MinuteIs
<1>5. t \in CandlesOf(<<p, 1>>, tickClock)
  BY <1>1, <1>3, <1>4 DEF CandlesOf
<1>6. CandlesOf(<<p, 1>>, tickClock) \subseteq 0 .. tickClock
  BY <1>1, CandlesAre, TickConstants
<1>7. NewestOf(CandlesOf(<<p, 1>>, tickClock)) \in 0 .. tickClock \union {-1} /\ t <= NewestOf(CandlesOf(<<p, 1>>, tickClock))
  BY <1>1, <1>5, <1>6, NewestIs
<1>8. SeenNow(got)[<<p, 1>>] = NewestOf(CandlesOf(<<p, 1>>, tickClock))
  <2>1. SeenNow(got)[<<p, 1>>] = LastRow(<<p, 1>>, tickClock, tickClock)
    BY <1>2 DEF SeenNow
  <2> QED
    BY <1>1, <2>1, MinOfOne DEF LastRow
<1>9. lastSeen[<<p, 1>>] \in Int /\ lastSeen[<<p, 1>>] < rowsUpTo[<<p, 1>>] /\ rowsUpTo[<<p, 1>>] \in 0 .. tickClock
  BY <1>1, <1>2 DEF SeenOK, TickTypes
<1>10. SeenNow(got)[<<p, 1>>] > lastSeen[<<p, 1>>]
  BY <1>1, <1>3, <1>7, <1>8, <1>9
<1> QED
  BY <1>10 DEF Progress

(* What the calendar asks for is not fresh in frames of an earlier tick.       *)
LEMMA StaleIsNotFresh ==
  ASSUME TickTypes, NEW q \in TickPapers, Stale, HasFresh(1, rowsUpTo)
  PROVE  ~InCalendar(tickClock - 1)
<1> SUFFICES ASSUME InCalendar(tickClock - 1) PROVE FALSE
  OBVIOUS
<1>1. PICK t \in 0 .. TickEnd : t = tickClock /\ t \in Nat /\ TickEnd \in Nat
  BY TickParts, TickConstants
<1>2. Pairs = AllPairs /\ <<q, 1>> \in Pairs /\ <<q, 1>> \in PairsOf(1)
  BY TickParts, PairsAre DEF TickTypes, Timeframes
<1>3. PICK u \in 0 .. TickEnd : u = t - 1 /\ u + 1 = t /\ u \in Nat
  <2>1. rowsUpTo[<<q, 1>>] \in Nat /\ rowsUpTo[<<q, 1>>] < t
    BY <1>1, <1>2 DEF Stale, TickTypes
  <2> QED
    BY <1>1, <2>1
<1> DEFINE last == [pair \in Pairs |-> LastRow(pair, rowsUpTo[pair], tickClock)]
<1>4. ASSUME NEW pair \in PairsOf(1) PROVE last[pair] \in Int /\ last[pair] < u
  <2>1. pair \in Pairs /\ pair[2] = 1
    BY DEF PairsOf
  <2>2. PICK p \in TickPapers : pair = <<p, 1>>
    BY <1>2, <2>1 DEF AllPairs
  <2>3. rowsUpTo[pair] \in 0 .. TickEnd /\ rowsUpTo[pair] < t /\ rowsUpTo[pair] \in Nat
    BY <1>1, <1>2, <2>1, <2>2 DEF Stale, TickTypes
  <2>4. PICK r \in 0 .. TickEnd : r = Min({rowsUpTo[pair], t}) /\ r \in Nat /\ r < t
    <3>1. {rowsUpTo[pair], t} \subseteq Nat
      BY <1>1, <2>3
    <3>2. Min({rowsUpTo[pair], t}) \in {rowsUpTo[pair], t} /\ Min({rowsUpTo[pair], t}) <= rowsUpTo[pair]
      BY <3>1, MinIs
    <3> QED
      BY <1>1, <2>3, <3>2
  <2>5. CandlesOf(pair, r) \subseteq 0 .. r /\ \A s \in CandlesOf(pair, r) : s < r
    BY <2>1, CandlesAre, TickConstants
  <2>6. NewestOf(CandlesOf(pair, r)) \in CandlesOf(pair, r) \union {-1}
    BY <2>4, <2>5, NewestIs
  <2>7. last[pair] = NewestOf(CandlesOf(pair, r))
    BY <1>1, <2>1, <2>4 DEF LastRow
  <2>8. NewestOf(CandlesOf(pair, r)) \in Int /\ NewestOf(CandlesOf(pair, r)) < r
    BY <2>4, <2>5, <2>6
  <2>9. r <= u
    BY <1>1, <1>3, <2>4
  <2> HIDE DEF last
  <2> QED
    BY <1>3, <2>4, <2>7, <2>8, <2>9
<1>5. DueOpen(1, t) \in Int /\ DueOpen(1, t) >= u
  <2>1. CandleStart(1, t) = t /\ CandleClose(1, t) = t + 1 /\ u \in Grids[1] /\ CandleClose(1, u) = t
    BY <1>3, MinuteIs
  <2>2. CASE tickMarket.open = {}
    <3>1. DueOpen(1, t) = t - ((t + 1) - t)
      BY <2>1, <2>2 DEF DueOpen, PreviousStart, Span
    <3> QED
      BY <1>1, <1>3, <3>1
  <2>3. CASE tickMarket.open # {}
    <3>1. PICK S : S = {s \in Grids[1] : s < t /\ CandleClose(1, s) <= t /\ \E m \in tickMarket.open : s <= m /\ m < CandleClose(1, s)}
      OBVIOUS
    <3>2. u \in tickMarket.open
      BY <1>1, <1>3, <2>3 DEF InCalendar
    <3>3. u \in S /\ S \subseteq 0 .. t
      BY <1>1, <1>3, <2>1, <3>1, <3>2, TickConstants
    <3>4. NewestOf(S) \in S \union {-1} /\ u <= NewestOf(S)
      BY <1>1, <3>3, NewestIs
    <3>5. DueOpen(1, t) = NewestOf(S)
      BY <2>3, <3>1 DEF DueOpen
    <3>7. S \union {-1} \subseteq Int
      BY <1>1, <3>3
    <3>8. NewestOf(S) \in Int
      BY <3>4, <3>7
    <3>6. PICK n \in Int : n = NewestOf(S)
      BY <3>8
    <3> QED
      BY <1>3, <3>4, <3>5, <3>6
  <2> QED
    BY <2>2, <2>3
<1>10. PICK d \in Int : d = DueOpen(1, t) /\ d >= u
  BY <1>5
<1>6. FreshOf(1, t, last)
  BY <1>1 DEF HasFresh
<1> HIDE DEF last
<1>7. d # -1
  BY <1>3, <1>10
<1>8. \A pair \in PairsOf(1) : ~(last[pair] >= d)
  BY <1>3, <1>4, <1>10
<1>9. Tolerance = 0 => ~Outside(last[<<q, 1>>], 1, t)
  BY DEF Outside
<1> QED
  BY <1>2, <1>10, <1>6, <1>7, <1>8, <1>9, Zenon DEF FreshOf

QuietTicks == TicksInv /\ QuietInv

LEMMA QuietStart == TicksInit => QuietInv
<1> SUFFICES ASSUME TicksInit PROVE QuietInv
  OBVIOUS
<1>1. DOMAIN lastSeen = AllPairs /\ \A pair \in AllPairs : lastSeen[pair] = -1 /\ rowsUpTo[pair] = 0
  BY DEF TicksInit
<1>2. SeenOK
  BY <1>1 DEF SeenOK
<1>3. tickPhase = "boot" /\ emptyTicks = 0 /\ leaps = {}
  BY DEF TicksInit
<1> QED
  BY <1>2, <1>3 DEF QuietInv, MinuteInv, SilentInv, LeapsAreSilent

LEMMA BootQuiet == QuietTicks /\ Boot => QuietInv'
<1> SUFFICES ASSUME QuietTicks, Boot PROVE QuietInv'
  OBVIOUS
<1>1. PICK got \in SUBSET Missing :
         /\ rowsUpTo' = LoadedNow(got) /\ watched' = WatchedNow(got)
         /\ IF got = Missing THEN tickPhase' = "rest" /\ UNCHANGED trouble ELSE tickPhase' = "boot" /\ Troubled
  BY DEF Boot
<1>2. /\ tickPhase = "boot"
      /\ UNCHANGED <<tickMarket, tickClock, lastTick, starting, toAsk, readyFrames, lastSeen, gained, dues, emptyTicks,
                     analysedBars, disturbed, leaps, dried>>
  BY DEF Boot
<1>3. LoadedPairs(got)
  BY <1>1, LoadIs DEF QuietTicks, TicksInv
<1>4. SeenOK'
  <2>1. ASSUME NEW pair \in AllPairs PROVE lastSeen[pair] \in Int /\ lastSeen[pair] < rowsUpTo'[pair]
    <3>1. lastSeen[pair] \in Int /\ lastSeen[pair] < rowsUpTo[pair] /\ rowsUpTo[pair] \in 0 .. tickClock
      BY DEF QuietTicks, QuietInv, SeenOK, TicksInv, TickTypes
    <3>2. (pair \in got => rowsUpTo'[pair] = tickClock) /\ (pair \notin got => rowsUpTo'[pair] = rowsUpTo[pair])
      BY <1>3 DEF LoadedPairs
    <3>3. tickClock \in Nat
      BY TickParts DEF QuietTicks, TicksInv
    <3> QED
      BY <3>1, <3>2, <3>3
  <2> QED
    BY <1>2, <2>1, AllPairsSame DEF QuietTicks, QuietInv, SeenOK
<1>5. (trouble' = 0 => trouble = 0) /\ (Troubled => trouble' > 0)
  BY <1>1, TroubleGrows DEF QuietTicks, TicksInv
<1>6. LeapsAreSilent'
  BY <1>2, <1>5, LeapsKept DEF QuietTicks, QuietInv
<1>7. tickPhase' \in {"rest", "boot"} /\ emptyTicks \in Nat
  BY <1>1 DEF QuietTicks, TicksInv, TickTypes
<1>8. TickPapers # {} => (trouble' = 0 => emptyTicks' = 0)
  BY <1>2, <1>5, <1>7 DEF QuietTicks, QuietInv, SilentInv
<1>9. TickPapers # {} => MinuteInv' /\ SilentInv'
  BY <1>7, <1>8 DEF MinuteInv, SilentInv
<1> QED
  BY <1>2, <1>4, <1>6, <1>9, AllPairsSame DEF QuietInv

LEMMA BeginQuiet == QuietTicks /\ BeginTicks => QuietInv'
<1> SUFFICES ASSUME QuietTicks, BeginTicks PROVE QuietInv'
  OBVIOUS
<1>1. /\ tickPhase = "rest" /\ ~TickOver
      /\ tickClock' = tickClock + 1 /\ lastTick' = tickClock + 1
      /\ toAsk' = (IF starting THEN Rhythm ELSE AskAgain)
      /\ tickPhase' = "ask" /\ leaps' = {}
      /\ UNCHANGED <<tickMarket, starting, rowsUpTo, watched, lastSeen, gained, dues, emptyTicks, trouble, dried>>
  BY DEF BeginTicks
<1>2. PICK c \in Nat : c = tickClock /\ c \in 0 .. TickEnd /\ c + 1 \in 0 .. TickEnd
  <2>1. tickClock \in 0 .. TickEnd /\ tickClock \in Nat /\ TickEnd \in Nat
    BY TickParts, TickConstants DEF QuietTicks, TicksInv
  <2> QED
    BY <1>1, <2>1 DEF TickOver
<1>3. SeenOK'
  BY <1>1, AllPairsSame DEF QuietTicks, QuietInv, SeenOK
<1>4. LeapsAreSilent'
  BY <1>1 DEF LeapsAreSilent
<1>5. 1 \in toAsk'
  <2>1. CandleStart(1, c) = c /\ CandleStart(1, c + 1) = c + 1 /\ 1 \in Rhythm
    BY <1>2, MinuteIs
  <2>2. 1 \in CrossedSince(c, c + 1)
    BY <1>2, <2>1 DEF CrossedSince
  <2>3. ~starting => lastTick = c
    BY <1>1, <1>2 DEF QuietTicks, TicksInv, TickTypes
  <2> QED
    BY <1>1, <1>2, <2>1, <2>2, <2>3 DEF AskAgain
<1>6. Stale'
  <2>1. ASSUME NEW p \in TickPapers PROVE rowsUpTo[<<p, 1>>] < c + 1
    <3>1. <<p, 1>> \in Pairs /\ Pairs = AllPairs
      BY PairsAre DEF QuietTicks, TicksInv, TickTypes, Timeframes, Pairs
    <3>2. rowsUpTo[<<p, 1>>] \in 0 .. c
      BY <1>2, <3>1 DEF QuietTicks, TicksInv, TickTypes
    <3> QED
      BY <1>2, <3>2
  <2> QED
    BY <1>1, <1>2, <2>1, AllPairsSame DEF Stale
<1>7. MinuteInv'
  BY <1>1, <1>5, <1>6 DEF MinuteInv
<1>8. TickPapers # {} => SilentInv'
  <2>1. tickClock' - 2 = tickClock - 1
    BY <1>1, <1>2
  <2>2. TickPapers # {} /\ trouble = 0 /\ emptyTicks > 0 => SilentAt(tickClock - 1)
    BY <1>1 DEF QuietTicks, QuietInv, SilentInv
  <2> QED
    BY <1>1, <2>1, <2>2, AllPairsSame DEF SilentInv, SilentAt
<1> QED
  BY <1>1, <1>3, <1>4, <1>7, <1>8, AllPairsSame DEF QuietInv

LEMMA CountedStays ==
  ASSUME Counted, UNCHANGED <<tickMarket, tickClock>>, dues \subseteq dues', gained => gained'
  PROVE  Counted'
BY DEF Counted, TickPapers

LEMMA CollectGrows == \A tf, got : Collect(tf, got) => dues \subseteq dues' /\ (gained => gained')
BY DEF Collect

(* The load of every minute that is stale counts, and hears of the trades.     *)
LEMMA MinutesLoaded ==
  ASSUME QuietTicks, NEW q \in TickPapers, Stale, NEW got, \A p \in TickPapers : <<p, 1>> \in got,
         Load(got), Collect(1, got), UNCHANGED <<tickMarket, tickClock>>
  PROVE  Counted'
<1>1. dues' # {}
  BY DEF Collect
<1>2. ASSUME NEW p \in TickPapers, tickClock - 1 \in tickMarket.trades[p] PROVE gained'
  <2>1. Progress(got)
    BY <1>2, MinuteHeard DEF QuietTicks, TicksInv, QuietInv, Stale
  <2> QED
    BY <2>1 DEF Collect
<1> QED
  BY <1>1, <1>2 DEF Counted, TickPapers

(* A load of another timeframe leaves the minutes as they are.                 *)
LEMMA StaleStays ==
  ASSUME TickTypes, Stale, NEW tf \in Rhythm, tf # 1, NEW got \in SUBSET PairsOf(tf), Load(got), UNCHANGED <<tickMarket, tickClock>>
  PROVE  Stale'
<1>1. LoadedPairs(got)
  BY LoadIs DEF Load
<1>2. ASSUME NEW p \in TickPapers PROVE rowsUpTo'[<<p, 1>>] = rowsUpTo[<<p, 1>>]
  <2>1. <<p, 1>> \in AllPairs
    BY PairsAre DEF TickTypes, Timeframes, Pairs
  <2>2. <<p, 1>> \notin got
    BY DEF PairsOf
  <2> QED
    BY <1>1, <2>1, <2>2 DEF LoadedPairs
<1> QED
  BY <1>2 DEF Stale, TickPapers

LEMMA AskQuiet == QuietTicks /\ AskFrame => QuietInv'
<1> SUFFICES ASSUME QuietTicks, AskFrame PROVE QuietInv'
  OBVIOUS
<1>1. /\ tickPhase = "ask"
      /\ UNCHANGED <<tickMarket, tickClock, lastTick, starting, emptyTicks, analysedBars, leaps, dried>>
  BY DEF AskFrame
<1>2. PICK tf \in toAsk :
         \/ /\ HasFresh(tf, rowsUpTo)
            /\ toAsk' = toAsk \ {tf} /\ readyFrames' = readyFrames \union {tf}
            /\ UNCHANGED <<tickPhase, rowsUpTo, watched, lastSeen, gained, dues, disturbed, trouble>>
         \/ /\ ~HasFresh(tf, rowsUpTo)
            /\ Load(PairsOf(tf)) /\ Collect(tf, PairsOf(tf))
            /\ toAsk' = toAsk \ {tf}
            /\ readyFrames' = IF HasFresh(tf, LoadedNow(PairsOf(tf))) THEN readyFrames \union {tf} ELSE readyFrames
            /\ UNCHANGED <<tickPhase, disturbed, trouble>>
         \/ /\ ~HasFresh(tf, rowsUpTo)
            /\ Troubled /\ \E got \in SUBSET PairsOf(tf) : got # PairsOf(tf) /\ Load(got)
            /\ toAsk' = {} /\ readyFrames' = {} /\ disturbed' = TickPapers
            /\ tickPhase' = (IF starting THEN "boot" ELSE "rest")
            /\ UNCHANGED <<gained, dues>>
  BY DEF AskFrame
<1>3. tf \in Rhythm
  BY DEF QuietTicks, TicksInv, TickTypes
<1>4. (trouble' = 0 => trouble = 0) /\ (Troubled => trouble' > 0)
  BY <1>2, TroubleGrows DEF QuietTicks, TicksInv
<1>5. LeapsAreSilent'
  BY <1>1, <1>4, LeapsKept DEF QuietTicks, QuietInv
<1>6. SeenOK'
  <2>1. CASE UNCHANGED <<rowsUpTo, lastSeen>>
    BY <1>1, <2>1, AllPairsSame DEF QuietTicks, QuietInv, SeenOK
  <2>2. CASE \E got : Load(got)
    BY <1>1, <2>2, SeenIs DEF QuietTicks, QuietInv, TicksInv, Load
  <2> QED
    BY <1>2, <2>1, <2>2
<1>7. TickPapers' = TickPapers
  BY <1>1, AllPairsSame
<1>8. CASE TickPapers = {}
  BY <1>5, <1>6, <1>7, <1>8 DEF QuietInv
<1>9. SUFFICES ASSUME NEW q \in TickPapers PROVE QuietInv'
  BY <1>8
<1>10. \/ 1 \in toAsk /\ Stale
       \/ 1 \notin toAsk /\ 1 \in readyFrames /\ Stale /\ ~InCalendar(tickClock - 1)
       \/ 1 \notin toAsk /\ Counted
  BY <1>1, <1>9 DEF QuietTicks, QuietInv, MinuteInv
<1>11. trouble = 0 /\ emptyTicks > 0 => SilentAt(tickClock - 2)
  BY <1>1, <1>9 DEF QuietTicks, QuietInv, SilentInv
<1>12. InCalendar(tickClock - 1)' <=> InCalendar(tickClock - 1)
  BY <1>1 DEF InCalendar
<1>13. SilentAt(tickClock - 2)' <=> SilentAt(tickClock - 2)
  BY <1>1, <1>7 DEF SilentAt
<1>14. CASE /\ HasFresh(tf, rowsUpTo)
            /\ toAsk' = toAsk \ {tf} /\ readyFrames' = readyFrames \union {tf}
            /\ UNCHANGED <<tickPhase, rowsUpTo, watched, lastSeen, gained, dues, disturbed, trouble>>
  <2>1. tf = 1 /\ Stale => ~InCalendar(tickClock - 1)
    BY <1>9, <1>14, StaleIsNotFresh DEF QuietTicks, TicksInv
  <2>2. (Stale' <=> Stale) /\ (Counted' <=> Counted)
    BY <1>1, <1>7, <1>14 DEF Stale, Counted
  <2>3. MinuteInv'
    BY <1>1, <1>10, <1>12, <1>14, <2>1, <2>2 DEF MinuteInv
  <2>4. SilentInv'
    BY <1>1, <1>11, <1>13, <1>14 DEF SilentInv
  <2> QED
    BY <1>5, <1>6, <2>3, <2>4 DEF QuietInv
<1>15. CASE /\ Load(PairsOf(tf)) /\ Collect(tf, PairsOf(tf))
            /\ toAsk' = toAsk \ {tf}
            /\ readyFrames' = IF HasFresh(tf, LoadedNow(PairsOf(tf))) THEN readyFrames \union {tf} ELSE readyFrames
            /\ UNCHANGED <<tickPhase, disturbed, trouble>>
  <2>1. Counted => Counted'
    BY <1>1, <1>15, CollectGrows, CountedStays
  <2>2. tf # 1 /\ Stale => Stale'
    BY <1>1, <1>3, <1>15, StaleStays DEF QuietTicks, TicksInv
  <2>3. tf = 1 /\ Stale => Counted'
    <3>1. \A p \in TickPapers : <<p, 1>> \in PairsOf(1)
      BY PairsAre DEF QuietTicks, TicksInv, TickTypes, Timeframes
    <3> QED
      BY <1>1, <1>9, <1>15, <3>1, MinutesLoaded
  <2>4. 1 \in readyFrames => 1 \in readyFrames'
    BY <1>15
  <2>5. MinuteInv'
    BY <1>1, <1>10, <1>12, <1>15, <2>1, <2>2, <2>3, <2>4 DEF MinuteInv
  <2>6. SilentInv'
    BY <1>1, <1>11, <1>13, <1>15 DEF SilentInv
  <2> QED
    BY <1>5, <1>6, <2>5, <2>6 DEF QuietInv
<1>16. CASE /\ Troubled /\ tickPhase' = (IF starting THEN "boot" ELSE "rest")
  <2>1. trouble' > 0 /\ tickPhase' \in {"boot", "rest"}
    BY <1>4, <1>16
  <2> QED
    BY <1>5, <1>6, <2>1 DEF QuietInv, MinuteInv, SilentInv
<1> QED
  BY <1>2, <1>14, <1>15, <1>16

LEMMA AskedQuiet == QuietTicks /\ AskedAll => QuietInv'
<1> SUFFICES ASSUME QuietTicks, AskedAll PROVE QuietInv'
  OBVIOUS
<1>1. /\ tickPhase = "ask" /\ toAsk = {} /\ tickPhase' = "refresh" /\ toAsk' = readyFrames
      /\ UNCHANGED <<tickMarket, tickClock, lastTick, starting, readyFrames, rowsUpTo, watched, lastSeen, gained, dues,
                     emptyTicks, analysedBars, disturbed, leaps, trouble, dried>>
  BY DEF AskedAll
<1>2. LeapsAreSilent' /\ SeenOK' /\ TickPapers' = TickPapers
  BY <1>1, LeapsKept, AllPairsSame DEF QuietTicks, QuietInv, SeenOK
<1>3. (Stale' <=> Stale) /\ (Counted' <=> Counted) /\ (InCalendar(tickClock - 1)' <=> InCalendar(tickClock - 1))
      /\ (SilentAt(tickClock - 2)' <=> SilentAt(tickClock - 2))
  BY <1>1, <1>2 DEF Stale, Counted, InCalendar, SilentAt
<1>4. TickPapers # {} => MinuteInv'
  BY <1>1, <1>3 DEF QuietTicks, QuietInv, MinuteInv
<1>5. TickPapers # {} => SilentInv'
  BY <1>1, <1>3 DEF QuietTicks, QuietInv, SilentInv
<1> QED
  BY <1>2, <1>4, <1>5 DEF QuietInv

LEMMA RefreshQuiet == QuietTicks /\ RefreshFrame => QuietInv'
<1> SUFFICES ASSUME QuietTicks, RefreshFrame PROVE QuietInv'
  OBVIOUS
<1>1. /\ tickPhase = "refresh"
      /\ UNCHANGED <<tickMarket, tickPhase, tickClock, lastTick, starting, readyFrames, emptyTicks, analysedBars, leaps, dried>>
  BY DEF RefreshFrame
<1>2. PICK tf \in toAsk :
         /\ toAsk' = toAsk \ {tf}
         /\ \/ Load(Unwatched(tf)) /\ Collect(tf, Unwatched(tf)) /\ UNCHANGED <<disturbed, trouble>>
            \/ /\ Troubled /\ UNCHANGED <<gained, dues>>
               /\ \E got \in SUBSET Unwatched(tf) :
                    /\ got # Unwatched(tf) /\ Load(got)
                    /\ disturbed' = disturbed \union {pair[1] : pair \in Unwatched(tf) \ got}
  BY DEF RefreshFrame
<1>3. tf \in Rhythm
  BY DEF QuietTicks, TicksInv, TickTypes
<1>4. (trouble' = 0 => trouble = 0) /\ (trouble > 0 => trouble' > 0) /\ (Troubled => trouble' > 0)
  BY <1>2, TroubleGrows DEF QuietTicks, TicksInv
<1>5. LeapsAreSilent' /\ TickPapers' = TickPapers
  BY <1>1, <1>4, LeapsKept, AllPairsSame DEF QuietTicks, QuietInv
<1>6. PICK got \in SUBSET Unwatched(tf) : Load(got)
  BY <1>2
<1>7. SeenOK'
  BY <1>1, <1>6, SeenIs DEF QuietTicks, QuietInv, TicksInv, Load
<1>8. CASE TickPapers = {}
  BY <1>5, <1>7, <1>8 DEF QuietInv
<1>9. SUFFICES ASSUME NEW q \in TickPapers PROVE QuietInv'
  BY <1>8
<1>10. InCalendar(tickClock - 1)' <=> InCalendar(tickClock - 1)
  BY <1>1 DEF InCalendar
<1>11. Counted => Counted'
  BY <1>1, <1>2, CollectGrows, CountedStays
<1>12. tf # 1 /\ Stale => Stale'
  <2>1. got \in SUBSET PairsOf(tf)
    BY <1>6 DEF Unwatched
  <2> QED
    BY <1>1, <1>3, <1>6, <2>1, StaleStays DEF QuietTicks, TicksInv
<1>13. tf = 1 /\ Stale => Counted' \/ trouble' > 0
  <2> SUFFICES ASSUME tf = 1, Stale PROVE Counted' \/ trouble' > 0
    OBVIOUS
  <2>1. ASSUME NEW p \in TickPapers PROVE <<p, 1>> \in Unwatched(1)
    <3>1. <<p, 1>> \in PairsOf(1) /\ <<p, 1>> \in AllPairs
      BY PairsAre DEF QuietTicks, TicksInv, TickTypes, Timeframes, Pairs
    <3>2. tickClock \in Nat /\ CandleStart(1, tickClock) = tickClock
      BY TickParts, MinuteIs DEF QuietTicks, TicksInv
    <3>3. rowsUpTo[<<p, 1>>] \in 0 .. tickClock /\ watched[<<p, 1>>] \in 0 .. rowsUpTo[<<p, 1>>]
      BY <3>1 DEF QuietTicks, TicksInv, TickTypes
    <3>4. rowsUpTo[<<p, 1>>] < tickClock
      BY DEF Stale
    <3>5. watched[<<p, 1>>] < CandleStart(1, tickClock)
      BY <3>2, <3>3, <3>4
    <3> QED
      BY <3>1, <3>5 DEF Unwatched
  <2>2. CASE Load(Unwatched(1)) /\ Collect(1, Unwatched(1))
    BY <1>1, <1>9, <2>1, <2>2, MinutesLoaded
  <2> QED
    BY <1>2, <1>4, <2>2
<1>14. MinuteInv'
  <2>1. \/ 1 \in toAsk /\ Stale /\ ~InCalendar(tickClock - 1)
        \/ Counted
        \/ trouble > 0 /\ ~InCalendar(tickClock - 1)
    BY <1>1, <1>9 DEF QuietTicks, QuietInv, MinuteInv
  <2>2. 1 \in toAsk /\ tf # 1 => 1 \in toAsk'
    BY <1>2
  <2>3. \/ 1 \in toAsk' /\ Stale' /\ ~InCalendar(tickClock - 1)'
        \/ Counted'
        \/ trouble' > 0 /\ ~InCalendar(tickClock - 1)'
    BY <1>4, <1>10, <1>11, <1>12, <1>13, <2>1, <2>2
  <2> QED
    BY <1>1, <2>3 DEF MinuteInv
<1>15. SilentInv'
  <2>1. trouble = 0 /\ emptyTicks > 0 => SilentAt(tickClock - 2)
    BY <1>1, <1>9 DEF QuietTicks, QuietInv, SilentInv
  <2>2. SilentAt(tickClock - 2)' <=> SilentAt(tickClock - 2)
    BY <1>1, <1>5 DEF SilentAt
  <2> QED
    BY <1>1, <1>4, <2>1, <2>2 DEF SilentInv
<1> QED
  BY <1>5, <1>7, <1>14, <1>15 DEF QuietInv

(* A closed tick that counted nothing new has seen a silent minute.            *)
LEMMA EmptySilent ==
  ASSUME QuietTicks, TickPapers # {}, tickPhase = "refresh", toAsk = {}, trouble = 0 \/ InCalendar(tickClock - 1)
  PROVE  dues # {} /\ (~gained => SilentAt(tickClock - 1))
<1>1. Counted
  <2>1. \/ 1 \in toAsk /\ Stale /\ ~InCalendar(tickClock - 1)
        \/ Counted
        \/ trouble > 0 /\ ~InCalendar(tickClock - 1)
    BY DEF QuietTicks, QuietInv, MinuteInv
  <2>2. trouble \in Nat
    BY DEF QuietTicks, TicksInv, TickTypes
  <2> QED
    BY <2>1, <2>2
<1> QED
  BY <1>1 DEF Counted, SilentAt

LEMMA CloseQuiet == QuietTicks /\ CloseOrdinary => QuietInv'
<1> SUFFICES ASSUME QuietTicks, CloseOrdinary PROVE QuietInv'
  OBVIOUS
<1>1. /\ tickPhase = "refresh" /\ toAsk = {} /\ dues' = {}
      /\ emptyTicks' = EmptiesNow /\ tickPhase' = "analyse"
      /\ UNCHANGED <<tickMarket, tickClock, lastTick, starting, toAsk, readyFrames, rowsUpTo, watched, lastSeen,
                     analysedBars, disturbed, leaps, trouble, dried>>
  BY DEF CloseOrdinary, TickClosed
<1>2. LeapsAreSilent' /\ SeenOK' /\ TickPapers' = TickPapers
  BY <1>1, LeapsKept, AllPairsSame DEF QuietTicks, QuietInv, SeenOK
<1>3. TickPapers # {} => SilentInv'
  <2> SUFFICES ASSUME TickPapers # {}, trouble = 0, EmptiesNow > 0 PROVE SilentAt(tickClock - 1)
    BY <1>1, <1>2 DEF SilentInv, SilentAt
  <2>1. dues # {} /\ (~gained => SilentAt(tickClock - 1))
    BY <1>1, EmptySilent
  <2>2. gained => EmptiesNow = 0
    BY <2>1 DEF EmptiesNow
  <2> QED
    BY <2>1, <2>2
<1>4. MinuteInv'
  BY <1>1 DEF MinuteInv
<1> QED
  BY <1>2, <1>3, <1>4 DEF QuietInv

(* The search looks at every minute after the clock.                           *)
LEMMA SilentUpTo ==
  ASSUME TickTypes, NEW papers \in SUBSET TickPapers, LaterCandles(papers) # {}, NEW p \in papers,
         NEW m \in tickMarket.trades[p], m \in tickClock + 1 .. NextCandle(papers) - 1
  PROVE  FALSE
<1>1. /\ DriverFrame \in Rhythm /\ \A pair \in Pairs : DriverFrame <= pair[2]
      /\ NextCandle(papers) \in LaterCandles(papers) /\ \A s \in LaterCandles(papers) : NextCandle(papers) <= s
      /\ NextCandle(papers) \in Nat /\ tickClock < NextCandle(papers) /\ NextCandle(papers) < TickEnd
  BY NextIs
<1>2. <<p, 1>> \in Pairs /\ <<p, 1>>[2] = 1
  BY PairsAre DEF TickTypes, Timeframes
<1>3. DriverFrame = 1
  <2>1. DriverFrame \in Nat /\ DriverFrame > 0
    BY <1>1, TickConstants
  <2>2. DriverFrame <= 1
    BY <1>1, <1>2
  <2> QED
    BY <2>1, <2>2
<1>4. tickClock \in Nat /\ TickEnd \in Nat
  BY TickParts, TickConstants
<1>5. m \in 0 .. TickEnd /\ tickClock < m /\ m < NextCandle(papers) /\ m \in Nat
  BY <1>1, <1>4
<1>6. m \in Grids[1] /\ CandleClose(1, m) = m + 1
  BY <1>5, MinuteIs
<1>7. m < SearchEnd
  <2>1. NextCandle(papers) < SearchEnd
    BY <1>1 DEF LaterCandles
  <2>2. SearchEnd \in Nat
    <3>1. {tickClock + TickLookahead, TickEnd} \subseteq Nat
      BY TickParts, TickConstants
    <3> QED
      BY <3>1, MinIs DEF SearchEnd
  <2> QED
    BY <1>1, <1>5, <2>1, <2>2
<1>8. m \in LaterCandles(papers)
  BY <1>3, <1>5, <1>6, <1>7 DEF LaterCandles
<1> QED
  BY <1>1, <1>5, <1>8

LEMMA LeapQuiet == QuietTicks /\ LeapOver => QuietInv'
<1> SUFFICES ASSUME QuietTicks, LeapOver PROVE QuietInv'
  OBVIOUS
<1>1. /\ tickPhase = "refresh" /\ toAsk = {} /\ dues' = {} /\ EmptyTick /\ EmptiesNow >= 2
      /\ UNCHANGED <<tickMarket, toAsk, readyFrames, rowsUpTo, watched, lastSeen, analysedBars>>
  BY DEF LeapOver, TickClosed
<1>2. PICK answered \in SUBSET TickPapers :
         /\ IF answered = TickPapers THEN UNCHANGED trouble ELSE Troubled
         /\ \/ /\ LaterCandles(answered) # {}
               /\ tickClock' = NextCandle(answered) /\ lastTick' = tickClock'
               /\ leaps' = {<<tickClock, tickClock', answered>>}
               /\ emptyTicks' = 0 /\ starting' = FALSE /\ tickPhase' = "rest" /\ disturbed' = TickPapers /\ UNCHANGED dried
            \/ /\ LaterCandles(answered) = {}
               /\ dried' = (answered = TickPapers) /\ emptyTicks' = EmptiesNow /\ tickPhase' = "analyse"
               /\ UNCHANGED <<tickClock, lastTick, starting, disturbed, leaps>>
  BY DEF LeapOver
<1>3. trouble' = 0 => trouble = 0
  BY <1>2, TroubleGrows DEF QuietTicks, TicksInv
<1>4. SeenOK' /\ TickPapers' = TickPapers /\ dues # {} /\ ~gained
  BY <1>1, AllPairsSame DEF QuietTicks, QuietInv, SeenOK, EmptyTick
<1>5. TickPapers # {} /\ (trouble = 0 \/ InCalendar(tickClock - 1)) => SilentAt(tickClock - 1)
  BY <1>1, <1>4, EmptySilent
<1>6. MinuteInv'
  BY <1>2 DEF MinuteInv
<1>7. CASE LaterCandles(answered) # {}
  <2>1. leaps' = {<<tickClock, NextCandle(answered), answered>>} /\ emptyTicks' = 0
    BY <1>2, <1>7
  <2>2. TickPapers # {} /\ trouble = 0 => SilentAt(tickClock - 2)
    <3>1. EmptiesNow = emptyTicks + 1 /\ emptyTicks \in Nat
      BY <1>4 DEF EmptiesNow, QuietTicks, TicksInv, TickTypes
    <3>2. emptyTicks > 0
      BY <1>1, <3>1
    <3> QED
      BY <1>1, <3>2 DEF QuietTicks, QuietInv, SilentInv
  <2>3. ASSUME NEW p \in TickPapers
        PROVE  /\ trouble' = 0 \/ InCalendar(tickClock - 1) => tickClock - 1 \notin tickMarket.trades[p]
               /\ trouble' = 0 => tickClock - 2 \notin tickMarket.trades[p]
    BY <1>3, <1>5, <2>2 DEF SilentAt
  <2>4. ASSUME NEW p \in answered PROVE tickMarket.trades[p] \intersect (tickClock + 1 .. NextCandle(answered) - 1) = {}
    BY <1>7, SilentUpTo DEF QuietTicks, TicksInv
  <2>5. LeapsAreSilent'
    BY <1>1, <1>4, <2>1, <2>3, <2>4 DEF LeapsAreSilent, InCalendar
  <2>6. SilentInv'
    BY <2>1 DEF SilentInv
  <2> QED
    BY <1>4, <1>6, <2>5, <2>6 DEF QuietInv
<1>8. CASE LaterCandles(answered) = {}
  <2>1. emptyTicks' = EmptiesNow /\ tickPhase' = "analyse" /\ UNCHANGED <<tickClock, leaps>>
    BY <1>2, <1>8
  <2>2. LeapsAreSilent'
    BY <1>1, <1>3, <2>1, LeapsKept DEF QuietTicks, QuietInv
  <2>3. TickPapers # {} => SilentInv'
    BY <1>1, <1>3, <1>4, <1>5, <2>1 DEF SilentInv, SilentAt
  <2> QED
    BY <1>4, <1>6, <2>2, <2>3 DEF QuietInv
<1> QED
  BY <1>7, <1>8

LEMMA AnalyseQuiet == QuietTicks /\ Analyse => QuietInv'
<1> SUFFICES ASSUME QuietTicks, Analyse PROVE QuietInv'
  OBVIOUS
<1>1. /\ tickPhase = "analyse" /\ tickPhase' = "rest" /\ (Troubled \/ trouble' = trouble)
      /\ UNCHANGED <<tickMarket, tickClock, lastTick, toAsk, readyFrames, rowsUpTo, watched, lastSeen, gained, dues,
                     emptyTicks, leaps, dried>>
  BY DEF Analyse
<1>2. trouble' = 0 => trouble = 0
  BY <1>1, TroubleGrows DEF QuietTicks, TicksInv
<1>3. LeapsAreSilent' /\ SeenOK' /\ TickPapers' = TickPapers
  BY <1>1, <1>2, LeapsKept, AllPairsSame DEF QuietTicks, QuietInv, SeenOK
<1>4. TickPapers # {} => SilentInv'
  <2>1. TickPapers # {} /\ trouble = 0 /\ emptyTicks > 0 => SilentAt(tickClock - 1)
    BY <1>1 DEF QuietTicks, QuietInv, SilentInv
  <2>2. SilentAt(tickClock - 1)' <=> SilentAt(tickClock - 1)
    BY <1>1, <1>3 DEF SilentAt
  <2> QED
    BY <1>1, <1>2, <2>1, <2>2 DEF SilentInv
<1>5. MinuteInv'
  BY <1>1 DEF MinuteInv
<1> QED
  BY <1>3, <1>4, <1>5 DEF QuietInv

LEMMA QuietKept == QuietTicks /\ UNCHANGED ticksVars => QuietInv'
<1> SUFFICES ASSUME QuietTicks, UNCHANGED ticksVars PROVE QuietInv'
  OBVIOUS
<1>1. UNCHANGED <<tickMarket, tickPhase, tickClock, lastTick, starting, toAsk, readyFrames, rowsUpTo, watched, lastSeen, gained,
                  dues, emptyTicks, analysedBars, disturbed, leaps, trouble, dried>>
  BY DEF ticksVars
<1>2. LeapsAreSilent' /\ SeenOK' /\ TickPapers' = TickPapers
  BY <1>1, LeapsKept, AllPairsSame DEF QuietTicks, QuietInv, SeenOK
<1>3. (Stale' <=> Stale) /\ (Counted' <=> Counted) /\ (InCalendar(tickClock - 1)' <=> InCalendar(tickClock - 1))
      /\ (SilentAt(tickClock - 2)' <=> SilentAt(tickClock - 2)) /\ (SilentAt(tickClock - 1)' <=> SilentAt(tickClock - 1))
  BY <1>1, <1>2 DEF Stale, Counted, InCalendar, SilentAt
<1>4. TickPapers # {} => MinuteInv'
  BY <1>1, <1>3 DEF QuietTicks, QuietInv, MinuteInv
<1>5. TickPapers # {} => SilentInv'
  BY <1>1, <1>3 DEF QuietTicks, QuietInv, SilentInv
<1> QED
  BY <1>2, <1>4, <1>5 DEF QuietInv

LEMMA QuietTicksStart == TicksInit => QuietTicks
BY TicksStart, QuietStart DEF QuietTicks

LEMMA QuietTicksStep == QuietTicks /\ [TicksNext]_ticksVars => QuietTicks'
<1> SUFFICES ASSUME QuietTicks, [TicksNext]_ticksVars PROVE QuietTicks'
  OBVIOUS
<1>1. TicksInv'
  BY TicksSteps DEF QuietTicks
<1>2. QuietInv'
  BY BootQuiet, BeginQuiet, AskQuiet, AskedQuiet, RefreshQuiet, CloseQuiet, LeapQuiet, AnalyseQuiet, QuietKept DEF TicksNext
<1> QED
  BY <1>1, <1>2 DEF QuietTicks

LEMMA TicksPromises == QuietTicks => TicksTypeOK /\ BoundariesServed /\ LeapsAreSilent
BY TicksPromise DEF QuietTicks, QuietInv

-----------------------------------------------------------------------------
(* What the services promise, in every run of them.                            *)

PromisesInv == ServicesInv /\ ProfileInv /\ QuietTicks

LEMMA PromisesStart == Init => PromisesInv
BY ServicesStart, ProfileStarts, QuietTicksStart DEF Init, PromisesInv

LEMMA PromisesStep == PromisesInv /\ [Next]_vars => PromisesInv'
<1> SUFFICES ASSUME PromisesInv, [Next]_vars PROVE PromisesInv'
  OBVIOUS
<1>1. [ProfileNext]_profileVars /\ [TicksNext]_ticksVars
  BY DEF Next, vars
<1>2. ProfileInv' /\ QuietTicks'
  BY <1>1, ProfileSteps, QuietTicksStep DEF PromisesInv
<1> QED
  BY <1>2, ServicesStep DEF PromisesInv

\* A plan keeps its distances and a target for every contract, break-even pays its
\* costs, and from bar to bar the stop of a held position only improves; the posts
\* of a trade arrive in the order of its events; a tick over history analyses every
\* frame that closes at it and its clock leaps over silence only: TradeProfile and
\* its rules, TelegramChannel, TradingRobot and its clock.
THEOREM PromisesHoldAlways == Spec => PromisesHold
<1>1. PromisesInv => PlanIsKept /\ AllHasATarget /\ BreakEvenPays
  BY ProfilePromises DEF PromisesInv
<1>2. PromisesInv => TradeInOrder
  BY DEF PromisesInv, ServicesInv, OrderInv, ArrivedInv
<1>3. PromisesInv => BoundariesServed /\ LeapsAreSilent
  BY TicksPromises DEF PromisesInv
<1>4. PromisesInv /\ [Next]_vars => [lots > 0 /\ lots' > 0 => ~Beyond(Dir, protect, protect')]_profileVars
  <2> SUFFICES ASSUME PromisesInv, [Next]_vars
               PROVE  [lots > 0 /\ lots' > 0 => ~Beyond(Dir, protect, protect')]_profileVars
    OBVIOUS
  <2>1. [ProfileNext]_profileVars
    BY DEF Next, vars
  <2> QED
    BY <2>1, StopTightens DEF PromisesInv
<1> QED
  BY <1>1, <1>2, <1>3, <1>4, PromisesStart, PromisesStep, PTL DEF Spec, PromisesHold, StopImproves
=============================================================================
