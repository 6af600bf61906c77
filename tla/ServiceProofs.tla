--------------------------- MODULE ServiceProofs ---------------------------
(* The services of MCServices do once what is to be done once, pass nothing    *)
(* over and keep their limits, for any bars, bindings, pairs, tasks, messages,  *)
(* operations, windows, lanes, desks, restarts and failed writes.              *)
(*                                                                              *)
(* LiveInv: what a step decided is of the newest bar of its view, and nothing   *)
(* was ever opened from a bar behind that view; so a signal that opens a trade  *)
(* is newer than every one before it. PatternInv: an event that is not marked   *)
(* as delivered is in the stream no more often than a sending was cut off, and  *)
(* a task is in one place only. DeliveryInv: what may still be sent to Telegram *)
(* has not arrived, but for the repeats of the transport and the explicit word; *)
(* it rests on OrderInv, by which the gate and the rows keep the order of the   *)
(* events and nothing in them is behind what has arrived.                       *)
(*                                                                              *)
(* BudgetInv: the sliding window is the end of everything ever sent, and what   *)
(* it dropped is too old to share a window with a request still to come.        *)
(* SessionInv: a carry is approved of an open position whose first profit is    *)
(* taken and whose stop is at break-even. AdmissionInv: only an unfinished      *)
(* trade has an increase on its way. LoopInv: every candle between two executed *)
(* ones has been executed, until a tick gets through every minute cost a        *)
(* failure.                                                                     *)
EXTENDS MCServices, FiniteSetTheorems, SequenceTheorems, WellFoundedInduction, TLAPS

-----------------------------------------------------------------------------
(* The largest and the least of a set of numbers.                              *)

LEMMA LargestExists ==
  ASSUME NEW n \in Nat, NEW S, S \subseteq 1..n, S # {}
  PROVE  \E x \in S : \A y \in S : x >= y
<1> DEFINE T == {m..n : m \in S}
<1>1. IsFiniteSet(1..n)
  BY FS_Interval
<1>2. IsWellFoundedOn(StrictSubsetOrdering(1..n), FiniteSubsetsOf(1..n))
  BY FS_StrictSubsetOrderingWellFounded
<1>3. T \subseteq FiniteSubsetsOf(1..n) /\ T # {}
  <2>1. \A m \in S : m..n \subseteq 1..n /\ IsFiniteSet(m..n)
    BY <1>1, FS_Subset, FS_Interval
  <2> QED
    BY <2>1 DEF FiniteSubsetsOf
<1> HIDE DEF T
<1>4. PICK A \in T : \A B \in T : <<B, A>> \notin StrictSubsetOrdering(1..n)
  BY <1>2, <1>3, WFMin
<1>5. PICK x \in S : A = x..n
  BY <1>4 DEF T
<1>6. ASSUME NEW y \in S, y > x PROVE FALSE
  <2>1. y..n \in T /\ y..n \subseteq 1..n /\ A \subseteq 1..n
    BY <1>5 DEF T
  <2>2. y..n \subseteq A /\ x \in A /\ x \notin y..n
    BY <1>5, <1>6
  <2>3. <<y..n, A>> \in StrictSubsetOrdering(1..n)
    BY <2>1, <2>2, <1>1, FS_Subset DEF StrictSubsetOrdering, FiniteSubsetsOf
  <2> QED
    BY <2>1, <2>3, <1>4
<1> QED
  BY <1>6

LEMMA MaxIs ==
  ASSUME NEW n \in Nat, NEW S, S \subseteq 1..n, S # {}
  PROVE  Max(S) \in S /\ \A y \in S : y <= Max(S)
<1>1. \E x \in S : \A y \in S : x >= y
  BY LargestExists
<1> QED
  BY <1>1 DEF Max

LEMMA MinIs ==
  ASSUME NEW S, S \subseteq Nat, S # {}
  PROVE  Min(S) \in S /\ \A y \in S : Min(S) <= y
<1>1. PICK n \in S : n \in Nat
  OBVIOUS
<1> DEFINE T == {1..m : m \in {k \in S : k <= n}}
<1>2. IsFiniteSet(1..n) /\ IsWellFoundedOn(StrictSubsetOrdering(1..n), FiniteSubsetsOf(1..n))
  BY <1>1, FS_Interval, FS_StrictSubsetOrderingWellFounded
<1>3. T \subseteq FiniteSubsetsOf(1..n) /\ T # {}
  <2>1. \A m \in {k \in S : k <= n} : 1..m \subseteq 1..n /\ IsFiniteSet(1..m)
    BY <1>1, <1>2, FS_Interval
  <2>2. 1..n \in T
    BY <1>1
  <2> QED
    BY <2>1, <2>2 DEF FiniteSubsetsOf
<1> HIDE DEF T
<1>4. PICK A \in T : \A B \in T : <<B, A>> \notin StrictSubsetOrdering(1..n)
  BY <1>2, <1>3, WFMin
<1>5. PICK x \in S : A = 1..x /\ x <= n
  BY <1>4 DEF T
<1>6. ASSUME NEW y \in S, y < x PROVE FALSE
  <2>1. y \in Nat /\ x \in Nat /\ y <= n
    BY <1>1, <1>5, <1>6
  <2>2. 1..y \in T /\ 1..y \subseteq 1..n /\ A \subseteq 1..n
    BY <1>1, <1>5, <2>1 DEF T
  <2>3. 1..y \subseteq A /\ x \in A /\ x \notin 1..y
    BY <1>5, <1>6, <2>1
  <2>4. <<1..y, A>> \in StrictSubsetOrdering(1..n)
    BY <2>2, <2>3, <1>2, FS_Subset DEF StrictSubsetOrdering, FiniteSubsetsOf
  <2> QED
    BY <2>2, <2>4, <1>4
<1>7. \E z \in S : \A y \in S : z =< y
  BY <1>6
<1> QED
  BY <1>7 DEF Min

LEMMA MaxOfTwo ==
  ASSUME NEW x \in Int, NEW y \in Int
  PROVE  Max({x, y}) = IF x >= y THEN x ELSE y
<1>1. \E z \in {x, y} : \A w \in {x, y} : z >= w
  OBVIOUS
<1> QED
  BY <1>1 DEF Max

-----------------------------------------------------------------------------
(* LiveAnalysis.                                                               *)

Signals == [binding : Bindings, bar : Nat]

LiveTypes ==
  /\ due \in Nat /\ series \subseteq 1..due /\ view \subseteq series
  /\ {cursors, saved, first} \subseteq [Bindings -> Nat] /\ {analysed, passed} \subseteq [Bindings -> SUBSET Nat]
  /\ candidates \subseteq Signals /\ IsFiniteSet(opened)
  /\ \A o \in opened : o.n \in 0..Cardinality(opened) - 1 /\ o.signal \in Signals

\* What a step has decided is of the newest bar it sees, and nothing was ever
\* opened from a bar that the market had not, nor from one behind the step's view.
Stepping == liveAt \in {"bars", "decide", "admit"}
SignalInv ==
  /\ liveAt = "decide" => looked \in Signals /\ looked.bar \in view
  /\ ~Stepping => candidates = {}
  /\ \A c \in candidates : c.bar \in view /\ \A v \in view : v <= c.bar
  /\ \A o \in opened : o.signal \in handled /\ o.signal.bar \in series /\ (Stepping => o.signal.bar \in view)
  /\ SignalOnce

\* Between its cursor and the bar a binding is about to calculate there are only
\* gaps the coverage lets pass, and what is saved was calculated.
BarsInv ==
  /\ liveAt = "decide" =>
       looked \in Signals /\ (cursors[looked.binding] + 1) .. (looked.bar - 1) \subseteq passed[looked.binding]
  /\ \A b \in Bindings : (first[b] + 1) .. saved[b] \subseteq analysed[b] \cup passed[b]
  /\ BarsInOrder

LiveInv == LiveTypes /\ SignalInv /\ BarsInv

LEMMA LatestIs ==
  ASSUME LiveTypes, NEW s, s \subseteq series
  PROVE  /\ LatestBar(s) \in Nat
         /\ s # {} => LatestBar(s) \in s /\ \A v \in s : v <= LatestBar(s)
<1>1. due \in Nat /\ s \subseteq 1..due
  BY DEF LiveTypes
<1>2. s # {} => Max(s) \in s /\ \A v \in s : v <= Max(s)
  BY <1>1, MaxIs
<1>3. CASE s = {}
  BY <1>3 DEF LatestBar
<1>4. CASE s # {}
  <2>1. PICK m : m = Max(s)
    OBVIOUS
  <2>2. LatestBar(s) = m
    BY <1>4, <2>1 DEF LatestBar
  <2>3. m \in s /\ \A v \in s : v <= m
    BY <1>2, <1>4, <2>1
  <2> QED
    BY <1>1, <2>2, <2>3
<1> QED
  BY <1>3, <1>4

LEMMA LiveStarts == LiveInit => LiveInv
<1> SUFFICES ASSUME LiveInit PROVE LiveInv
  OBVIOUS
<1>1. LiveTypes
  BY FS_EmptySet DEF LiveInit, LiveTypes
<1>2. SignalInv
  BY DEF LiveInit, SignalInv, SignalOnce, Stepping
<1>3. BarsInv
  BY DEF LiveInit, BarsInv, BarsInOrder
<1> QED
  BY <1>1, <1>2, <1>3 DEF LiveInv

LEMMA LookNext ==
  ASSUME LiveInv, Look
  PROVE  LiveInv'
<1>1. UNCHANGED <<marketView, view, complete, candidates, managed, cursors, saved, analysed, first, books, liveFaults>>
  BY DEF Look
<1>2. CASE UNCHANGED <<liveAt, looked, passed>>
  BY <1>1, <1>2 DEF LiveInv, LiveTypes, SignalInv, SignalOnce, Stepping, BarsInv, BarsInOrder, marketView, books
<1>3. CASE ~UNCHANGED <<liveAt, looked, passed>>
  <2> DEFINE b == turn
             bar == Min(Fresh(b))
             let == {m \in cursors[b] + 1 .. bar : m \notin view /\ Excused(m)}
  <2>1. /\ liveAt = "bars" /\ b \in Bindings /\ Fresh(b) # {} /\ Quality(view, bar)
        /\ looked' = [binding |-> b, bar |-> bar] /\ liveAt' = "decide"
        /\ passed' = [passed EXCEPT ![b] = @ \cup let]
    BY <1>3 DEF Look
  <2>2. Fresh(b) \subseteq Nat /\ Fresh(b) \subseteq view /\ view \subseteq Nat /\ cursors[b] \in Nat
    BY <2>1 DEF Fresh, LiveInv, LiveTypes
  <2>3. bar \in Fresh(b) /\ \A v \in Fresh(b) : bar <= v
    BY <2>1, <2>2, MinIs
  <2>4. bar \in Nat /\ bar \in view /\ bar > cursors[b]
    BY <2>2, <2>3 DEF Fresh
  <2> HIDE DEF bar
  <2>5. ASSUME NEW m \in (cursors[b] + 1) .. (bar - 1) PROVE m \in let
    <3>1. m \in 1 .. bar /\ m > cursors[b] /\ m < bar
      BY <2>2, <2>4
    <3>2. m \notin view
      BY <2>3, <2>4, <3>1 DEF Fresh
    <3>3. ASSUME NEW k \in view, m < k, k <= bar PROVE k = bar
      <4>1. k \in Nat /\ k > cursors[b]
        BY <2>2, <3>1, <3>3
      <4>2. bar <= k
        BY <2>3, <3>3, <4>1 DEF Fresh
      <4> QED
        BY <2>4, <3>3, <4>1, <4>2
    <3>4. {k \in view : m < k /\ k <= bar} = {bar}
      <4>1. bar \in {k \in view : m < k /\ k <= bar}
        BY <2>4, <3>1
      <4> QED
        BY <3>3, <4>1, Zenon
    <3>5. Cardinality({bar}) = 1 /\ Depth \in Nat /\ Depth > 1
      <4>1. Cardinality({bar}) = 1
        BY FS_Singleton, Zenon
      <4> QED
        BY <4>1, LiveAssumption
    <3>6. m \in Gaps(view, bar)
      BY <3>1, <3>2, <3>4, <3>5 DEF Gaps
    <3> QED
      BY <2>1, <2>2, <2>4, <3>1, <3>2, <3>6 DEF Quality
  <2>6. let \subseteq Nat /\ passed \in [Bindings -> SUBSET Nat]
    BY <2>2, <2>4 DEF LiveInv, LiveTypes
  <2> HIDE DEF let
  <2>7. /\ passed' \in [Bindings -> SUBSET Nat] /\ passed'[b] = passed[b] \cup let
        /\ \A d \in Bindings : passed[d] \subseteq passed'[d]
    BY <2>1, <2>6
  <2>8. looked' \in Signals /\ looked'.bar = bar /\ looked'.binding = b
    BY <2>1, <2>4 DEF Signals
  <2>9. LiveTypes'
    BY <1>1, <2>7 DEF LiveInv, LiveTypes, marketView, books
  <2>10. SignalInv'
    BY <1>1, <2>1, <2>4, <2>8 DEF LiveInv, SignalInv, SignalOnce, Stepping, marketView, books
  <2>11. \A d \in Bindings : /\ (first[d] + 1) .. saved[d] \subseteq analysed[d] \cup passed'[d]
                            /\ (first[d] + 1) .. cursors[d] \subseteq analysed[d] \cup passed'[d]
    <3>1. \A d \in Bindings : /\ (first[d] + 1) .. saved[d] \subseteq analysed[d] \cup passed[d]
                             /\ (first[d] + 1) .. cursors[d] \subseteq analysed[d] \cup passed[d]
      BY DEF LiveInv, BarsInv, BarsInOrder
    <3> QED
      BY <2>7, <3>1, Zenon
  <2>12. (cursors[b] + 1) .. (bar - 1) \subseteq passed'[b]
    BY <2>5, <2>7
  <2>13. BarsInv'
    BY <1>1, <2>8, <2>11, <2>12 DEF BarsInv, BarsInOrder
  <2> QED
    BY <2>9, <2>10, <2>13 DEF LiveInv
<1> QED
  BY <1>2, <1>3

LEMMA DecideNext ==
  ASSUME LiveInv, Decide
  PROVE  LiveInv'
<1>1. PICK marked \in BOOLEAN, trading \in BOOLEAN :
        LET b == looked.binding
            bar == looked.bar
            live == Timely(bar, trading) /\ complete
        IN /\ candidates' = IF live THEN candidates \cup {looked} ELSE candidates
           /\ cursors' = [cursors EXCEPT ![b] = bar]
           /\ saved' = IF marked THEN Marked(b, bar) ELSE saved
           /\ analysed' = [analysed EXCEPT ![b] = @ \cup {bar}]
  BY DEF Decide
<1>2. liveAt = "decide" /\ liveAt' = "bars" /\ UNCHANGED <<due, series, view, first, passed, handled, owned, opened>>
  BY DEF Decide, marketView, books
<1>3. PICK b, bar : b = looked.binding /\ bar = looked.bar
  OBVIOUS
<1>4. looked \in Signals /\ b \in Bindings /\ bar \in Nat /\ bar \in view /\ (cursors[b] + 1) .. (bar - 1) \subseteq passed[b]
  BY <1>2, <1>3 DEF LiveInv, SignalInv, BarsInv, Signals
<1>5. saved \in [Bindings -> Nat] /\ cursors \in [Bindings -> Nat] /\ analysed \in [Bindings -> SUBSET Nat] /\ first \in [Bindings -> Nat]
  BY DEF LiveInv, LiveTypes
<1>6. saved' \in [Bindings -> Nat] /\ \A d \in Bindings : saved'[d] = saved[d] \/ (d = b /\ saved'[d] = bar)
  <2>1. Max({saved[b], bar}) = IF saved[b] >= bar THEN saved[b] ELSE bar
    BY <1>4, <1>5, MaxOfTwo
  <2>2. Marked(b, bar) \in [Bindings -> Nat] /\ \A d \in Bindings : Marked(b, bar)[d] = saved[d] \/ (d = b /\ Marked(b, bar)[d] = bar)
    BY <1>4, <1>5, <2>1 DEF Marked
  <2> QED
    BY <1>1, <1>3, <1>5, <2>2
<1>7. /\ cursors' \in [Bindings -> Nat] /\ analysed' \in [Bindings -> SUBSET Nat]
      /\ cursors'[b] = bar /\ analysed'[b] = analysed[b] \cup {bar}
      /\ \A d \in Bindings : d # b => cursors'[d] = cursors[d] /\ analysed'[d] = analysed[d]
  BY <1>1, <1>3, <1>4, <1>5
<1>8. LiveTypes'
  BY <1>1, <1>2, <1>4, <1>5, <1>6, <1>7 DEF LiveInv, LiveTypes
<1>9. \A c \in candidates' : c.bar \in view /\ \A v \in view : v <= c.bar
  <2>1. Timely(bar, trading) => \A v \in view : v <= bar
    BY <1>4, LatestIs DEF Timely, LiveInv, LiveTypes
  <2> QED
    BY <1>1, <1>3, <1>4, <2>1 DEF LiveInv, SignalInv
<1>10. SignalInv'
  BY <1>2, <1>9 DEF LiveInv, SignalInv, SignalOnce, Stepping
<1>11. \A d \in Bindings : /\ (first[d] + 1) .. cursors'[d] \subseteq analysed'[d] \cup passed[d]
                          /\ (first[d] + 1) .. saved'[d] \subseteq analysed'[d] \cup passed[d]
  <2> TAKE d \in Bindings
  <2>1. /\ (first[d] + 1) .. cursors[d] \subseteq analysed[d] \cup passed[d]
        /\ (first[d] + 1) .. saved[d] \subseteq analysed[d] \cup passed[d]
    BY DEF LiveInv, BarsInv, BarsInOrder
  <2>2. analysed[d] \subseteq analysed'[d] /\ first[d] \in Nat /\ cursors[d] \in Nat /\ saved[d] \in Nat
    BY <1>5, <1>7
  <2>3. CASE d = b
    <3>1. ASSUME NEW x \in (first[d] + 1) .. bar PROVE x \in analysed'[d] \cup passed[d]
      <4>1. \/ x = bar \/ x \in (first[d] + 1) .. cursors[d] \/ x \in (cursors[d] + 1) .. (bar - 1)
        BY <1>4, <2>2
      <4> QED
        BY <1>4, <1>7, <2>1, <2>2, <2>3, <4>1
    <3>2. (first[d] + 1) .. bar \subseteq analysed'[d] \cup passed[d]
      BY <3>1
    <3> QED
      BY <1>6, <1>7, <2>1, <2>2, <2>3, <3>2
  <2>4. CASE d # b
    BY <1>6, <1>7, <2>1, <2>2, <2>4
  <2> QED
    BY <2>3, <2>4
<1>12. BarsInv'
  BY <1>2, <1>11 DEF BarsInv, BarsInOrder
<1> QED
  BY <1>8, <1>10, <1>12 DEF LiveInv

LEMMA AdmitNext ==
  ASSUME LiveInv, Admit
  PROVE  LiveInv'
<1>1. PICK c \in candidates :
        /\ candidates' = candidates \ {c}
        /\ \/ UNCHANGED books
           \/ /\ MayOpen(c) /\ ~Seen(c)
              /\ handled' = handled \cup {c}
              /\ owned' = owned \cup {c.binding}
              /\ opened' = opened \cup {[n |-> Cardinality(opened), signal |-> c]}
  BY DEF Admit
<1>2. liveAt = "admit" /\ UNCHANGED <<due, series, liveAt, view, looked, cursors, saved, analysed, first, passed>>
  BY DEF Admit, marketView
<1>3. BarsInv'
  BY <1>2 DEF LiveInv, BarsInv, BarsInOrder
<1>4. c \in Signals /\ c.bar \in view /\ c.bar \in series /\ \A v \in view : v <= c.bar
  BY DEF LiveInv, LiveTypes, SignalInv
<1>5. CASE UNCHANGED books
  <2>1. LiveTypes'
    BY <1>1, <1>2, <1>5 DEF LiveInv, LiveTypes, books
  <2>2. SignalInv'
    BY <1>1, <1>2, <1>5 DEF LiveInv, SignalInv, SignalOnce, Stepping, books
  <2> QED
    BY <1>3, <2>1, <2>2 DEF LiveInv
<1>6. CASE c \notin handled /\ handled' = handled \cup {c} /\ opened' = opened \cup {[n |-> Cardinality(opened), signal |-> c]}
  <2>1. PICK o : o = [n |-> Cardinality(opened), signal |-> c]
    OBVIOUS
  <2>2. IsFiniteSet(opened) /\ Cardinality(opened) \in Nat /\ \A x \in opened : x.n \in 0..Cardinality(opened) - 1 /\ x.signal \in Signals
    BY FS_CardinalityType DEF LiveInv, LiveTypes
  <2>3. o.n = Cardinality(opened) /\ o.signal = c /\ o \notin opened
    BY <2>1, <2>2
  <2>4. IsFiniteSet(opened') /\ Cardinality(opened') = Cardinality(opened) + 1
    BY <1>6, <2>1, <2>2, <2>3, FS_AddElement
  <2>5. \A x \in opened' : x.n \in 0..Cardinality(opened') - 1 /\ x.signal \in Signals
    BY <1>4, <1>6, <2>1, <2>2, <2>3, <2>4
  <2>6. LiveTypes'
    BY <1>1, <1>2, <2>4, <2>5 DEF LiveInv, LiveTypes
  <2>7. \A x \in opened' : x.signal \in handled' /\ x.signal.bar \in series /\ x.signal.bar \in view
    BY <1>2, <1>4, <1>6, <2>1, <2>3 DEF LiveInv, SignalInv, Stepping
  <2>8. SignalOnce'
    <3> SUFFICES ASSUME NEW x \in opened', NEW y \in opened', x.signal.binding = y.signal.binding, x.n < y.n
                 PROVE  x.signal.bar < y.signal.bar
      BY DEF SignalOnce
    <3>1. CASE x \in opened /\ y \in opened
      BY <3>1 DEF LiveInv, SignalInv, SignalOnce
    <3>2. CASE x \in opened /\ y = o
      <4>1. x.signal \in handled /\ x.signal \in Signals /\ x.signal.bar \in view
        BY <1>2, <2>2, <3>2 DEF LiveInv, SignalInv, Stepping
      <4>2. x.signal # c /\ x.signal.binding = c.binding
        BY <1>6, <2>3, <3>2, <4>1
      <4>3. x.signal.bar # c.bar
        BY <1>4, <4>1, <4>2 DEF Signals
      <4>4. x.signal.bar \in Nat /\ c.bar \in Nat /\ x.signal.bar <= c.bar
        BY <1>4, <4>1 DEF Signals
      <4> QED
        BY <2>3, <3>2, <4>3, <4>4
    <3>3. CASE x = o
      <4>1. y = o \/ y.n \in 0..Cardinality(opened) - 1
        BY <1>6, <2>1, <2>2
      <4> QED
        BY <2>2, <2>3, <3>3, <4>1
    <3> QED
      BY <1>6, <2>1, <3>1, <3>2, <3>3
  <2>9. SignalInv'
    BY <1>1, <1>2, <2>7, <2>8 DEF LiveInv, SignalInv, Stepping
  <2> QED
    BY <1>3, <2>6, <2>9 DEF LiveInv
<1> QED
  BY <1>1, <1>5, <1>6 DEF Seen, AlreadyHandled

LEMMA BootstrapNext ==
  ASSUME LiveInv, Bootstrap
  PROVE  LiveInv'
<1>1. liveAt = "down" /\ liveAt' = "idle" /\ UNCHANGED <<due, series, view, looked, candidates, analysed, passed, handled, owned, opened>>
  BY DEF Bootstrap, marketView, step, books
<1>2. \A b \in Bindings : Resumed(b) \in Nat /\ (saved[b] # 0 => Resumed(b) = saved[b])
  BY LatestIs DEF LiveInv, LiveTypes, Resumed
<1>3. /\ cursors' = [b \in Bindings |-> Resumed(b)]
      /\ first' = [b \in Bindings |-> IF saved[b] # 0 THEN first[b] ELSE Resumed(b)]
      /\ saved' = [b \in Bindings |-> IF saved[b] = 0 /\ series # {} /\ Quality(series, LatestBar(series)) THEN Resumed(b) ELSE saved[b]]
  BY DEF Bootstrap
<1>4. LiveTypes'
  BY <1>1, <1>2, <1>3 DEF LiveInv, LiveTypes
<1>5. SignalInv'
  BY <1>1 DEF LiveInv, SignalInv, SignalOnce, Stepping
<1>6. \A b \in Bindings : /\ (first'[b] + 1) .. cursors'[b] \subseteq analysed[b] \cup passed[b]
                         /\ (first'[b] + 1) .. saved'[b] \subseteq analysed[b] \cup passed[b]
  <2> TAKE b \in Bindings
  <2>1. CASE saved[b] # 0
    BY <1>2, <1>3, <2>1 DEF LiveInv, BarsInv
  <2>2. CASE saved[b] = 0
    <3>1. first'[b] = Resumed(b) /\ cursors'[b] = Resumed(b) /\ saved'[b] \in {0, Resumed(b)} /\ Resumed(b) \in Nat
      BY <1>2, <1>3, <2>2
    <3> QED
      BY <3>1
  <2> QED
    BY <2>1, <2>2
<1>7. BarsInv'
  BY <1>1, <1>6 DEF BarsInv, BarsInOrder
<1> QED
  BY <1>4, <1>5, <1>7 DEF LiveInv

LEMMA LiveOthers ==
  ASSUME LiveInv,
         \/ CloseBar \/ Arrive \/ Prove \/ Absent \/ Cutover \/ StepBegin \/ Served \/ StepEnd \/ TradeEnds \/ Crash
         \/ UNCHANGED liveVars
  PROVE  LiveInv'
<1> USE DEF LiveInv, marketView, step, books
<1>1. CASE CloseBar
  BY <1>1 DEF CloseBar, LiveTypes, SignalInv, SignalOnce, Stepping, BarsInv, BarsInOrder
<1>2. CASE Arrive
  BY <1>2 DEF Arrive, LiveTypes, SignalInv, SignalOnce, Stepping, BarsInv, BarsInOrder
<1>3. CASE Prove \/ Absent \/ Cutover \/ TradeEnds \/ UNCHANGED liveVars
  BY <1>3 DEF Prove, Absent, Cutover, TradeEnds, liveVars, LiveTypes, SignalInv, SignalOnce, Stepping, BarsInv, BarsInOrder
<1>4. CASE StepBegin
  BY <1>4 DEF StepBegin, LiveTypes, SignalInv, SignalOnce, Stepping, BarsInv, BarsInOrder
<1>5. CASE Served
  BY <1>5 DEF Served, LiveTypes, SignalInv, SignalOnce, Stepping, BarsInv, BarsInOrder
<1>6. CASE StepEnd
  BY <1>6 DEF StepEnd, LiveTypes, SignalInv, SignalOnce, Stepping, BarsInv, BarsInOrder
<1>7. CASE Crash
  BY <1>7 DEF Crash, LiveTypes, SignalInv, SignalOnce, Stepping, BarsInv, BarsInOrder
<1> QED
  BY <1>1, <1>2, <1>3, <1>4, <1>5, <1>6, <1>7

LEMMA LiveSteps == LiveInv /\ [LiveNext]_liveVars => LiveInv'
BY LookNext, DecideNext, AdmitNext, BootstrapNext, LiveOthers DEF LiveNext

-----------------------------------------------------------------------------
(* Sequences without repetition.                                               *)

LEMMA SetToSeqIs ==
  ASSUME NEW S, IsFiniteSet(S)
  PROVE  /\ SetToSeq(S) \in Seq(S) /\ Len(SetToSeq(S)) = Cardinality(S)
         /\ Range(SetToSeq(S)) = S /\ IsInjective(SetToSeq(S))
<1>1. PICK n \in Nat : n = Cardinality(S) /\ ExistsBijection(1..n, S)
  BY FS_CardinalityType
<1>2. PICK g \in Bijection(1..n, S) : TRUE
  BY <1>1 DEF ExistsBijection
<1>3. g \in [1..n -> S] /\ IsInjective(g)
  BY <1>2 DEF Bijection, Injection, IsInjective
<1>4. PICK f : f = SetToSeq(S)
  OBVIOUS
<1>5. f \in [1..n -> S] /\ IsInjective(f)
  BY <1>1, <1>3, <1>4 DEF SetToSeq
<1>6. f \in Injection(1..n, S)
  BY <1>5 DEF Injection, IsInjective
<1>7. IsFiniteSet(1..n) /\ Cardinality(1..n) = n
  BY <1>1, FS_Interval
<1>8. f \in Surjection(1..n, S)
  BY <1>1, <1>6, <1>7, FS_Injection
<1>9. Range(f) = S
  BY <1>5, <1>8 DEF Surjection, Range
<1>10. f \in Seq(S) /\ Len(f) = n
  BY <1>1, <1>5, SeqDef
<1> QED
  BY <1>1, <1>4, <1>5, <1>9, <1>10

LEMMA InjectiveCounts ==
  ASSUME NEW T, NEW q \in Seq(T), IsInjective(q)
  PROVE  IsFiniteSet(Range(q)) /\ Cardinality(Range(q)) = Len(q)
<1>1. Len(q) \in Nat /\ DOMAIN q = 1..Len(q) /\ q \in [1..Len(q) -> Range(q)]
  BY DEF Range
<1>2. q \in Surjection(1..Len(q), Range(q)) /\ q \in Injection(1..Len(q), Range(q))
  BY <1>1 DEF Surjection, Injection, Range, IsInjective
<1>3. IsFiniteSet(1..Len(q)) /\ Cardinality(1..Len(q)) = Len(q)
  BY <1>1, FS_Interval
<1> QED
  BY <1>2, <1>3, FS_Surjection

LEMMA JoinedApart ==
  ASSUME NEW T, NEW q \in Seq(T), NEW r \in Seq(T), IsInjective(q), IsInjective(r), Range(q) \cap Range(r) = {}
  PROVE  q \o r \in Seq(T) /\ IsInjective(q \o r) /\ Range(q \o r) = Range(q) \cup Range(r)
<1>1. PICK s : s = q \o r
  OBVIOUS
<1>2. /\ s \in Seq(T) /\ Len(s) = Len(q) + Len(r) /\ Len(q) \in Nat /\ Len(r) \in Nat
      /\ DOMAIN s = 1..Len(s) /\ DOMAIN q = 1..Len(q) /\ DOMAIN r = 1..Len(r)
      /\ \A i \in 1..Len(s) : s[i] = IF i <= Len(q) THEN q[i] ELSE r[i - Len(q)]
  BY <1>1
<1>3. \A i \in 1..Len(s) : \/ i \in 1..Len(q) /\ s[i] = q[i] /\ s[i] \in Range(q)
                           \/ i - Len(q) \in 1..Len(r) /\ s[i] = r[i - Len(q)] /\ s[i] \in Range(r)
  <2> TAKE i \in 1..Len(s)
  <2>1. CASE i <= Len(q)
    <3>1. i \in 1..Len(q) /\ s[i] = q[i]
      BY <1>2, <2>1
    <3> QED
      BY <1>2, <3>1 DEF Range
  <2>2. CASE i > Len(q)
    <3>1. i - Len(q) \in 1..Len(r) /\ s[i] = r[i - Len(q)]
      BY <1>2, <2>2
    <3> QED
      BY <1>2, <3>1 DEF Range
  <2> QED
    BY <1>2, <2>1, <2>2
<1>4. IsInjective(s)
  <2> SUFFICES ASSUME NEW i \in 1..Len(s), NEW j \in 1..Len(s), s[i] = s[j] PROVE i = j
    BY <1>2 DEF IsInjective
  <2>1. CASE i \in 1..Len(q) /\ j \in 1..Len(q) /\ s[i] = q[i] /\ s[j] = q[j]
    BY <1>2, <2>1 DEF IsInjective
  <2>2. CASE /\ i - Len(q) \in 1..Len(r) /\ j - Len(q) \in 1..Len(r)
             /\ s[i] = r[i - Len(q)] /\ s[j] = r[j - Len(q)]
    <3>1. i - Len(q) = j - Len(q)
      BY <1>2, <2>2 DEF IsInjective
    <3> QED
      BY <1>2, <3>1
  <2> QED
    BY <1>3, <2>1, <2>2
<1>5. Range(s) = Range(q) \cup Range(r)
  <2>1. Range(s) \subseteq Range(q) \cup Range(r)
    BY <1>2, <1>3 DEF Range
  <2>2. \A i \in 1..Len(q) : i \in 1..Len(s) /\ s[i] = q[i]
    BY <1>2
  <2>3. \A i \in 1..Len(r) : i + Len(q) \in 1..Len(s) /\ s[i + Len(q)] = r[i]
    <3> TAKE i \in 1..Len(r)
    <3>1. PICK j : j = i + Len(q)
      OBVIOUS
    <3>2. j \in 1..Len(s) /\ ~(j <= Len(q)) /\ j - Len(q) = i
      BY <1>2, <3>1
    <3> QED
      BY <1>2, <3>1, <3>2
  <2>4. Range(q) \subseteq Range(s)
    BY <1>2, <2>2 DEF Range
  <2>5. Range(r) \subseteq Range(s)
    <3> SUFFICES ASSUME NEW x \in Range(r) PROVE x \in Range(s)
      OBVIOUS
    <3>1. PICK i \in 1..Len(r) : x = r[i]
      BY <1>2 DEF Range
    <3>2. i + Len(q) \in DOMAIN s /\ s[i + Len(q)] = x
      BY <1>2, <2>3, <3>1
    <3> QED
      BY <3>2 DEF Range
  <2> QED
    BY <2>1, <2>4, <2>5
<1> QED
  BY <1>1, <1>2, <1>4, <1>5

LEMMA AppendedApart ==
  ASSUME NEW T, NEW q \in Seq(T), IsInjective(q), NEW e \in T, e \notin Range(q)
  PROVE  Append(q, e) \in Seq(T) /\ IsInjective(Append(q, e)) /\ Range(Append(q, e)) = Range(q) \cup {e}
<1>1. <<e>> \in Seq(T) /\ DOMAIN <<e>> = {1} /\ <<e>>[1] = e
  OBVIOUS
<1>2. IsInjective(<<e>>) /\ Range(<<e>>) = {e}
  BY <1>1 DEF IsInjective, Range
<1>3. PICK r : r = <<e>>
  OBVIOUS
<1>4. Append(q, e) = q \o r
  BY <1>3
<1>5. r \in Seq(T) /\ IsInjective(r) /\ Range(r) = {e} /\ Range(q) \cap Range(r) = {}
  BY <1>1, <1>2, <1>3
<1> QED
  BY <1>4, <1>5, JoinedApart

LEMMA TailApart ==
  ASSUME NEW T, NEW q \in Seq(T), IsInjective(q), q # <<>>
  PROVE  /\ Tail(q) \in Seq(T) /\ IsInjective(Tail(q)) /\ Head(q) \in T /\ Head(q) \in Range(q)
         /\ Range(Tail(q)) = Range(q) \ {Head(q)}
<1>1. PICK s : s = Tail(q)
  OBVIOUS
<1>2. /\ s \in Seq(T) /\ Len(q) \in Nat /\ Len(q) > 0 /\ Len(s) = Len(q) - 1 /\ Head(q) = q[1]
      /\ DOMAIN s = 1..Len(s) /\ DOMAIN q = 1..Len(q) /\ \A i \in 1..Len(s) : s[i] = q[i + 1]
  BY <1>1
<1>3. IsInjective(s)
  <2> SUFFICES ASSUME NEW i \in 1..Len(s), NEW j \in 1..Len(s), s[i] = s[j] PROVE i = j
    BY <1>2 DEF IsInjective
  <2>1. i + 1 \in 1..Len(q) /\ j + 1 \in 1..Len(q) /\ q[i + 1] = q[j + 1]
    BY <1>2
  <2>2. i + 1 = j + 1
    BY <1>2, <2>1 DEF IsInjective
  <2> QED
    BY <1>2, <2>2
<1>4. Range(s) = Range(q) \ {q[1]}
  <2>1. \A i \in 1..Len(s) : i + 1 \in 1..Len(q) /\ i + 1 # 1 /\ s[i] = q[i + 1]
    BY <1>2
  <2>2. \A i \in 1..Len(s) : q[i + 1] # q[1]
    BY <1>2, <2>1 DEF IsInjective
  <2>3. Range(s) \subseteq Range(q) \ {q[1]}
    BY <1>2, <2>1, <2>2 DEF Range
  <2>4. ASSUME NEW x \in Range(q) \ {q[1]} PROVE x \in Range(s)
    <3>1. PICK j \in 1..Len(q) : x = q[j] /\ j # 1
      BY <1>2 DEF Range
    <3>2. PICK i : i = j - 1
      OBVIOUS
    <3>3. i \in 1..Len(s) /\ i + 1 = j
      BY <1>2, <3>1, <3>2
    <3>4. s[i] = x
      BY <1>2, <3>1, <3>3
    <3> QED
      BY <1>2, <3>3, <3>4 DEF Range
  <2> QED
    BY <2>3, <2>4
<1>5. q[1] \in T /\ q[1] \in Range(q)
  BY <1>2 DEF Range
<1> QED
  BY <1>1, <1>2, <1>3, <1>4, <1>5

LEMMA ApartCount ==
  ASSUME NEW S, NEW T, IsFiniteSet(S), IsFiniteSet(T), S \cap T = {}
  PROVE  IsFiniteSet(S \cup T) /\ Cardinality(S \cup T) = Cardinality(S) + Cardinality(T)
<1>1. /\ IsFiniteSet(S \cup T)
      /\ Cardinality(S \cup T) = Cardinality(S) + Cardinality(T) - Cardinality(S \cap T)
  BY FS_Union
<1>2. Cardinality(S \cap T) = 0
  BY FS_EmptySet
<1>3. PICK m \in Nat, n \in Nat : m = Cardinality(S) /\ n = Cardinality(T)
  BY FS_CardinalityType
<1>4. Cardinality(S \cup T) = m + n - 0
  BY <1>1, <1>2, <1>3
<1> QED
  BY <1>1, <1>3, <1>4

-----------------------------------------------------------------------------
(* PatternEvents.                                                              *)

BarStates == {"none", "pending", "received", "absent"}
PatternTypes ==
  /\ intervals \in [PatternPairs -> [Bars -> BarStates]]
  /\ {sentMark, primed, watermark} \subseteq [PatternPairs -> Nat] /\ warmed \subseteq PatternPairs
  /\ patternQueue \in Seq(Tasks) /\ doing \in Tasks \cup {<<>>}
  /\ deferredTasks \subseteq Tasks /\ analysedTasks \subseteq Tasks
  /\ {streamed, unsure} \subseteq [Events -> Nat]
  /\ DOMAIN outbox \subseteq Events /\ batch \subseteq DOMAIN outbox
  /\ workerAt \in {"requeue", "publish", "send", "mark", "take", "analyse", "done", "dead"}

\* What was not marked is in the stream no more often than a sending was cut off,
\* but for the one that is being marked.
StreamedOK ==
  /\ \A e \in batch : outbox[e] # "delivered"
  /\ workerAt # "mark" => sending = <<>>
  /\ workerAt = "mark" => sending \in DOMAIN outbox \ batch /\ outbox[sending] # "delivered" /\ streamed[sending] > 0
  /\ \A e \in Events : streamed[e] <= 1 + unsure[e]
  /\ \A e \in Events : sending # e /\ (e \in DOMAIN outbox => outbox[e] # "delivered") => streamed[e] <= unsure[e]
  /\ \A e \in DOMAIN outbox : outbox[e] = "delivered" => streamed[e] > 0

\* A task is in one place, newer than the mark its pair began with, and what was
\* analysed is behind the watermark.
PlacesOK ==
  /\ \A p \in PatternPairs : /\ intervals[p][1] = "received" /\ primed[p] <= sentMark[p]
                            /\ (sentMark[p] > 0 => primed[p] > 0)
  /\ workerAt \in {"analyse", "done"} => doing # <<>>
  /\ workerAt \in {"take", "requeue", "dead"} => doing = <<>>
  /\ IsInjective(patternQueue) /\ Range(patternQueue) \cap deferredTasks = {}
  /\ doing \notin Range(patternQueue) \cup deferredTasks
  /\ pendingTasks = Range(patternQueue) \cup deferredTasks \cup InHand
  /\ IsFiniteSet(pendingTasks) /\ Cardinality(pendingTasks) <= PatternQueue
  /\ \A task \in pendingTasks : primed[task[1]] > 0 /\ task[2] > primed[task[1]]
  /\ \A task \in analysedTasks : task \notin pendingTasks /\ task[2] <= watermark[task[1]]

PatternInv == PatternTypes /\ StreamedOK /\ PlacesOK

LEMMA NotATask == <<>> \notin Tasks /\ <<>> \notin Events
<1>1. \A task \in Tasks : Len(task) = 2
  BY DEF Tasks
<1>2. \A e \in Events : Len(e) = 3
  BY DEF Events
<1>3. Len(<<>>) = 0
  OBVIOUS
<1> QED
  BY <1>1, <1>2, <1>3

LEMMA TaskIs == ASSUME NEW task \in Tasks PROVE task[1] \in PatternPairs /\ task[2] \in Bars /\ Bars \subseteq Nat
BY PatternAssumption DEF Tasks, Bars

LEMMA LastIs ==
  ASSUME PatternInv, NEW p \in PatternPairs
  PROVE  LastOf(p) \in Bars /\ LastOf(p) \in Nat /\ LastOf(p) > 0
<1>1. Bars = 1..Len(Shapes) /\ Len(Shapes) \in Nat /\ 1 \in Bars
  BY PatternAssumption DEF Bars
<1>2. PICK S : S = {b \in Bars : intervals[p][b] = "received"}
  OBVIOUS
<1>3. S \subseteq 1..Len(Shapes) /\ S # {}
  BY <1>1, <1>2 DEF PatternInv, PlacesOK
<1>4. Max(S) \in S
  BY <1>1, <1>3, MaxIs
<1> QED
  BY <1>1, <1>2, <1>3, <1>4 DEF LastOf

LEMMA PatternStarts == PatternInit => PatternInv
<1> SUFFICES ASSUME PatternInit PROVE PatternInv
  OBVIOUS
<1>1. PatternTypes
  BY PatternAssumption DEF PatternInit, PatternTypes, BarStates
<1>2. StreamedOK
  BY DEF PatternInit, StreamedOK
<1>3. 1 \in Bars /\ 1 <= WarmBars
  BY PatternAssumption DEF Bars
<1>4. Range(patternQueue) = {} /\ IsInjective(patternQueue)
  BY DEF PatternInit, Range, IsInjective
<1>5. PlacesOK
  BY <1>3, <1>4, FS_EmptySet, PatternAssumption DEF PatternInit, PlacesOK, InHand
<1> QED
  BY <1>1, <1>2, <1>5 DEF PatternInv

LEMMA MarketStep ==
  ASSUME PatternInv, \/ BarCloses \/ IntervalSettles \/ PairWarms \/ UNCHANGED patternVars
  PROVE  PatternInv'
<1>1. UNCHANGED <<sentMark, primed, taskVars, doing, workerAt, outboxVars>>
  BY DEF BarCloses, IntervalSettles, PairWarms, patternVars, watchVars, taskVars, outboxVars
<1>2. /\ intervals' \in [PatternPairs -> [Bars -> BarStates]] /\ warmed' \subseteq PatternPairs
      /\ \A p \in PatternPairs : intervals'[p][1] = "received"
  <2>1. /\ intervals \in [PatternPairs -> [Bars -> BarStates]] /\ warmed \subseteq PatternPairs
        /\ \A p \in PatternPairs : intervals[p][1] = "received"
    BY DEF PatternInv, PatternTypes, PlacesOK
  <2>2. CASE BarCloses
    <3>1. PICK came \in SUBSET PatternPairs :
            intervals' = [p \in PatternPairs |->
                           IF p \in came THEN [intervals[p] EXCEPT ![lastBar + 1] = "received"] ELSE intervals[p]]
      BY <2>2 DEF BarCloses
    <3>2. warmed' = warmed
      BY <2>2 DEF BarCloses, watchVars
    <3>3. \A p \in PatternPairs : /\ intervals[p] \in [Bars -> BarStates] /\ intervals[p][1] = "received"
                                 /\ intervals'[p] = IF p \in came THEN [intervals[p] EXCEPT ![lastBar + 1] = "received"] ELSE intervals[p]
      BY <2>1, <3>1
    <3>4. 1 \in Bars /\ "received" \in BarStates
      BY PatternAssumption DEF Bars, BarStates
    <3>5. \A p \in PatternPairs : intervals'[p] \in [Bars -> BarStates] /\ intervals'[p][1] = "received"
      BY <3>3, <3>4
    <3> QED
      BY <2>1, <3>1, <3>2, <3>5
  <2>3. CASE IntervalSettles
    <3>1. PICK p \in PatternPairs, b \in 1..lastBar :
            \E s \in BarStates : intervals[p][b] \in {"none", "pending"} /\ intervals' = [intervals EXCEPT ![p][b] = s]
      BY <2>3 DEF IntervalSettles, BarStates
    <3>2. warmed' = warmed
      BY <2>3 DEF IntervalSettles, watchVars
    <3>3. PICK s \in BarStates : intervals' = [intervals EXCEPT ![p][b] = s]
      BY <3>1
    <3>4. b # 1
      BY <2>1, <3>1
    <3>5. \A q \in PatternPairs : /\ intervals[q] \in [Bars -> BarStates] /\ intervals[q][1] = "received"
                                 /\ intervals'[q] = IF q = p THEN [intervals[q] EXCEPT ![b] = s] ELSE intervals[q]
      BY <2>1, <3>3
    <3>6. 1 \in Bars
      BY PatternAssumption DEF Bars
    <3>7. \A q \in PatternPairs : intervals'[q] \in [Bars -> BarStates] /\ intervals'[q][1] = "received"
      BY <3>4, <3>5, <3>6
    <3> QED
      BY <2>1, <3>2, <3>3, <3>7
  <2>4. CASE PairWarms
    BY <2>1, <2>4 DEF PairWarms
  <2>5. CASE UNCHANGED patternVars
    BY <2>1, <2>5 DEF patternVars, watchVars
  <2> QED
    BY <2>2, <2>3, <2>4, <2>5
<1>3. PatternTypes'
  BY <1>1, <1>2 DEF PatternInv, PatternTypes, taskVars, outboxVars
<1>4. StreamedOK'
  BY <1>1 DEF PatternInv, StreamedOK, taskVars, outboxVars
<1>5. PlacesOK'
  BY <1>1, <1>2 DEF PatternInv, PlacesOK, InHand, taskVars
<1> QED
  BY <1>3, <1>4, <1>5 DEF PatternInv

LEMMA ObserveStep ==
  ASSUME PatternInv, Observe
  PROVE  PatternInv'
<1>1. PICK p \in warmed : (Prime(p) \/ Submit(p)) /\ sentMark' = [sentMark EXCEPT ![p] = LastOf(p)]
  BY DEF Observe
<1>2. UNCHANGED <<intervals, warmed, deferredTasks, analysedTasks, doing, workerAt, outboxVars>>
  BY DEF Observe
<1>3. PICK last : last = LastOf(p)
  OBVIOUS
<1>4. p \in PatternPairs /\ last \in Bars /\ last \in Nat /\ last > 0
  BY <1>3, LastIs DEF PatternInv, PatternTypes
<1>5. /\ {sentMark, primed, watermark} \subseteq [PatternPairs -> Nat] /\ patternQueue \in Seq(Tasks)
      /\ pendingTasks = Range(patternQueue) \cup deferredTasks \cup InHand
      /\ \A q \in PatternPairs : primed[q] <= sentMark[q] /\ (sentMark[q] > 0 => primed[q] > 0)
  BY DEF PatternInv, PatternTypes, PlacesOK
<1>6. StreamedOK'
  BY <1>2 DEF PatternInv, StreamedOK, outboxVars
<1>7. CASE Prime(p)
  <2>1. Max({last, watermark[p]}) = IF last >= watermark[p] THEN last ELSE watermark[p]
    <3>1. PICK w \in Int : w = watermark[p]
      BY <1>4, <1>5
    <3>2. Max({last, w}) = IF last >= w THEN last ELSE w
      BY <1>4, MaxOfTwo
    <3> QED
      BY <3>1, <3>2
  <2>2. /\ sentMark[p] = 0 /\ watermark' = [watermark EXCEPT ![p] = Max({last, watermark[p]})]
        /\ primed' = [primed EXCEPT ![p] = last] /\ UNCHANGED <<patternQueue, pendingTasks>>
    BY <1>3, <1>7 DEF Prime
  <2>3. PatternTypes'
    BY <1>1, <1>2, <1>3, <1>4, <1>5, <2>1, <2>2 DEF PatternInv, PatternTypes, outboxVars
  <2>4. \A task \in pendingTasks : task \in Tasks /\ task[1] # p
    <3>1. pendingTasks \subseteq Tasks
      BY <1>5 DEF PatternInv, PatternTypes, InHand, Range
    <3>2. primed[p] = 0
      BY <1>4, <1>5, <2>2
    <3> QED
      BY <3>1, <3>2 DEF PatternInv, PlacesOK
  <2>5. \A task \in pendingTasks : primed'[task[1]] > 0 /\ task[2] > primed'[task[1]]
    BY <1>5, <2>2, <2>4, TaskIs DEF PatternInv, PlacesOK
  <2>6. \A task \in analysedTasks : task \notin pendingTasks /\ task[2] <= watermark'[task[1]]
    <3> TAKE task \in analysedTasks
    <3>1. task \in Tasks /\ task[1] \in PatternPairs /\ task[2] \in Nat /\ task \notin pendingTasks /\ task[2] <= watermark[task[1]]
      BY TaskIs DEF PatternInv, PatternTypes, PlacesOK
    <3>2. watermark'[task[1]] \in Nat /\ watermark[task[1]] \in Nat /\ watermark'[task[1]] >= watermark[task[1]]
      BY <1>4, <1>5, <2>1, <2>2, <3>1
    <3> QED
      BY <3>1, <3>2
  <2>7. \A q \in PatternPairs : primed'[q] <= sentMark'[q] /\ (sentMark'[q] > 0 => primed'[q] > 0)
    BY <1>1, <1>3, <1>4, <1>5, <2>2
  <2>8. PlacesOK'
    BY <1>2, <2>2, <2>5, <2>6, <2>7 DEF PatternInv, PlacesOK, InHand
  <2> QED
    BY <1>6, <2>3, <2>8 DEF PatternInv
<1>8. CASE Submit(p)
  <2>1. PICK task : task = <<p, last>>
    OBVIOUS
  <2>2. task \in Tasks /\ task[1] = p /\ task[2] = last
    BY <1>4, <2>1 DEF Tasks
  <2>3. sentMark[p] > 0 /\ last > sentMark[p] /\ UNCHANGED <<watermark, primed>>
    BY <1>3, <1>8 DEF Submit
  <2>4. \A q \in PatternPairs : primed'[q] <= sentMark'[q] /\ (sentMark'[q] > 0 => primed'[q] > 0)
    BY <1>1, <1>3, <1>4, <1>5, <2>3
  <2>5. sentMark' \in [PatternPairs -> Nat]
    BY <1>1, <1>3, <1>4, <1>5
  <2>6. CASE UNCHANGED <<patternQueue, pendingTasks>>
    <3>1. PatternTypes'
      BY <1>2, <2>3, <2>5, <2>6 DEF PatternInv, PatternTypes, outboxVars
    <3>2. PlacesOK'
      BY <1>2, <2>3, <2>4, <2>6 DEF PatternInv, PlacesOK, InHand
    <3> QED
      BY <1>6, <3>1, <3>2 DEF PatternInv
  <2>7. CASE ~UNCHANGED <<patternQueue, pendingTasks>>
    <3>1. /\ task \notin pendingTasks /\ ~(last <= watermark[p]) /\ ~(Cardinality(pendingTasks) >= PatternQueue)
          /\ patternQueue' = Append(patternQueue, task) /\ pendingTasks' = pendingTasks \cup {task}
      BY <1>3, <1>8, <2>1, <2>7 DEF Submit
    <3>2. IsInjective(patternQueue) /\ task \notin Range(patternQueue)
      BY <1>5, <3>1 DEF PatternInv, PlacesOK
    <3>3. /\ patternQueue' \in Seq(Tasks) /\ IsInjective(patternQueue') /\ Range(patternQueue') = Range(patternQueue) \cup {task}
      BY <1>5, <2>2, <3>1, <3>2, AppendedApart
    <3>4. PatternTypes'
      BY <1>2, <2>3, <2>5, <3>3 DEF PatternInv, PatternTypes, outboxVars
    <3>5. IsFiniteSet(pendingTasks') /\ Cardinality(pendingTasks') <= PatternQueue
      <4>1. IsFiniteSet(pendingTasks) /\ Cardinality(pendingTasks) \in Nat /\ PatternQueue \in Nat
        BY FS_CardinalityType, PatternAssumption DEF PatternInv, PlacesOK
      <4>2. IsFiniteSet(pendingTasks \cup {task}) /\ Cardinality(pendingTasks \cup {task}) = Cardinality(pendingTasks) + 1
        BY <3>1, <4>1, FS_AddElement
      <4> QED
        BY <3>1, <4>1, <4>2
    <3>6. task \notin deferredTasks /\ doing # task
      BY <1>5, <2>2, <3>1, NotATask DEF InHand
    <3>7. primed'[p] > 0 /\ last > primed'[p]
      <4>1. primed[p] \in Nat /\ sentMark[p] \in Nat /\ primed[p] <= sentMark[p] /\ primed[p] > 0
        BY <1>4, <1>5, <2>3
      <4>2. primed'[p] = primed[p]
        BY <2>3
      <4>3. sentMark[p] > 0 /\ last > sentMark[p] /\ last \in Nat
        BY <1>4, <2>3
      <4>4. last > primed[p]
        BY <4>1, <4>3
      <4> QED
        BY <4>1, <4>2, <4>4
    <3>8. task \notin analysedTasks
      <4>1. watermark[p] \in Nat
        BY <1>4, <1>5
      <4> QED
        BY <1>4, <2>2, <3>1, <4>1 DEF PatternInv, PlacesOK
    <3>9. PlacesOK'
      BY <1>2, <2>2, <2>3, <2>4, <3>1, <3>3, <3>5, <3>6, <3>7, <3>8 DEF PatternInv, PlacesOK, InHand
    <3> QED
      BY <1>6, <3>4, <3>9 DEF PatternInv
  <2> QED
    BY <2>6, <2>7
<1> QED
  BY <1>1, <1>7, <1>8

\* The steps of the thread leave the market and the watch alone.
WatchSame == UNCHANGED <<intervals, warmed, sentMark, primed>>

\* A step that moves no task and no event.
LEMMA ThreadStep ==
  ASSUME PatternInv, WatchSame, UNCHANGED <<taskVars, doing, sending, outbox, streamed, unsure>>,
         batch' \subseteq {e \in DOMAIN outbox : outbox[e] # "delivered"},
         workerAt # "mark", workerAt' \in {"requeue", "publish", "send", "take", "done"},
         workerAt' \in {"take", "requeue"} => doing = <<>>,
         workerAt' = "done" => doing # <<>>
  PROVE  PatternInv'
<1>1. PatternTypes'
  BY DEF PatternInv, PatternTypes, WatchSame, taskVars
<1>2. StreamedOK'
  BY DEF PatternInv, StreamedOK
<1>3. PlacesOK'
  BY DEF PatternInv, PlacesOK, InHand, WatchSame, taskVars
<1> QED
  BY <1>1, <1>2, <1>3 DEF PatternInv

LEMMA TurnSteps ==
  ASSUME PatternInv, ReadOutbox \/ Published
  PROVE  PatternInv'
<1>1. WatchSame /\ UNCHANGED <<taskVars, doing, sending, outbox, streamed, unsure>>
  BY DEF ReadOutbox, Published, WatchSame, watchVars, outboxVars
<1>2. CASE ReadOutbox
  <2>1. workerAt = "publish" /\ workerAt' = "send" /\ batch' \subseteq {e \in DOMAIN outbox : outbox[e] # "delivered"}
    BY <1>2 DEF ReadOutbox, Due, Held
  <2> QED
    BY <1>1, <2>1, ThreadStep
<1>3. CASE Published
  <2>1. /\ workerAt = "send" /\ batch = {} /\ workerAt' = IF doing = <<>> THEN "take" ELSE "done"
        /\ batch' = batch
    BY <1>3 DEF Published, outboxVars
  <2>2. workerAt' \in {"take", "done"} /\ (workerAt' = "take" => doing = <<>>) /\ (workerAt' = "done" => doing # <<>>)
    BY <2>1
  <2>3. batch' \subseteq {e \in DOMAIN outbox : outbox[e] # "delivered"}
    BY <2>1
  <2> QED
    BY <1>1, <2>1, <2>2, <2>3, ThreadStep
<1> QED
  BY <1>2, <1>3

LEMMA RequeueStep ==
  ASSUME PatternInv, RequeueDeferred
  PROVE  PatternInv'
<1>1. PICK back \in SUBSET deferredTasks :
        deferredTasks' = deferredTasks \ back /\ patternQueue' = patternQueue \o SetToSeq(back)
  BY DEF RequeueDeferred
<1>2. /\ WatchSame /\ workerAt = "requeue" /\ workerAt' = "publish"
      /\ UNCHANGED <<watermark, pendingTasks, analysedTasks, doing, batch, sending, outbox, streamed, unsure>>
  BY DEF RequeueDeferred, WatchSame, watchVars, outboxVars
<1>3. IsFiniteSet(back) /\ back \subseteq Tasks /\ patternQueue \in Seq(Tasks) /\ IsInjective(patternQueue)
      /\ Range(patternQueue) \cap back = {}
  <2>1. deferredTasks \subseteq pendingTasks /\ IsFiniteSet(pendingTasks)
    BY DEF PatternInv, PlacesOK
  <2> QED
    BY <2>1, FS_Subset DEF PatternInv, PatternTypes, PlacesOK
<1>4. PICK r : r = SetToSeq(back)
  OBVIOUS
<1>5. r \in Seq(back) /\ Range(r) = back /\ IsInjective(r)
  BY <1>3, <1>4, SetToSeqIs
<1>6. r \in Seq(Tasks)
  BY <1>3, <1>5, SeqMonotonic
<1>7. patternQueue' \in Seq(Tasks) /\ IsInjective(patternQueue') /\ Range(patternQueue') = Range(patternQueue) \cup back
  BY <1>1, <1>3, <1>4, <1>5, <1>6, JoinedApart
<1>8. PatternTypes'
  BY <1>1, <1>2, <1>7 DEF PatternInv, PatternTypes, WatchSame
<1>9. StreamedOK'
  BY <1>2 DEF PatternInv, StreamedOK
<1>10. PlacesOK'
  BY <1>1, <1>2, <1>7 DEF PatternInv, PlacesOK, InHand, WatchSame
<1> QED
  BY <1>8, <1>9, <1>10 DEF PatternInv

LEMMA SendStep ==
  ASSUME PatternInv, Send
  PROVE  PatternInv'
<1>1. workerAt = "send" /\ WatchSame /\ UNCHANGED <<taskVars, doing>>
  BY DEF Send, WatchSame, watchVars
<1>2. PlacesOK' /\ workerAt' \in {"send", "mark"}
  BY <1>1 DEF Send, PatternInv, PlacesOK, InHand, WatchSame, taskVars
<1>3. PICK e \in batch :
         \/ /\ streamed' = [streamed EXCEPT ![e] = @ + 1] /\ sending' = e /\ batch' = batch \ {e}
            /\ workerAt' = "mark" /\ UNCHANGED <<outbox, unsure>>
         \/ /\ workerAt' = workerAt /\ outbox' = [outbox EXCEPT ![e] = "held"] /\ batch' = {} /\ sending' = sending
            /\ \/ UNCHANGED <<streamed, unsure>>
               \/ streamed' = [streamed EXCEPT ![e] = @ + 1] /\ unsure' = [unsure EXCEPT ![e] = @ + 1]
  BY DEF Send
<1>4. /\ e \in DOMAIN outbox /\ outbox[e] # "delivered" /\ e \in Events /\ sending = <<>> /\ sending \notin Events
      /\ streamed \in [Events -> Nat] /\ unsure \in [Events -> Nat] /\ DOMAIN outbox \subseteq Events
  BY <1>1, NotATask DEF PatternInv, PatternTypes, StreamedOK
<1>5. streamed[e] <= unsure[e] /\ streamed[e] \in Nat /\ unsure[e] \in Nat
  BY <1>4 DEF PatternInv, StreamedOK
<1>6. CASE /\ streamed' = [streamed EXCEPT ![e] = @ + 1] /\ sending' = e /\ batch' = batch \ {e}
           /\ workerAt' = "mark" /\ UNCHANGED <<outbox, unsure>>
  <2>1. streamed' \in [Events -> Nat] /\ streamed'[e] = streamed[e] + 1 /\ \A f \in Events : f # e => streamed'[f] = streamed[f]
    BY <1>4, <1>6
  <2>2. PatternTypes'
    BY <1>1, <1>6, <2>1 DEF PatternInv, PatternTypes, WatchSame, taskVars
  <2>3. StreamedOK'
    BY <1>4, <1>5, <1>6, <2>1 DEF PatternInv, StreamedOK
  <2> QED
    BY <1>2, <2>2, <2>3 DEF PatternInv
<1>7. CASE /\ workerAt' = workerAt /\ outbox' = [outbox EXCEPT ![e] = "held"] /\ batch' = {} /\ sending' = sending
           /\ \/ UNCHANGED <<streamed, unsure>>
              \/ streamed' = [streamed EXCEPT ![e] = @ + 1] /\ unsure' = [unsure EXCEPT ![e] = @ + 1]
  <2>1. /\ {streamed', unsure'} \subseteq [Events -> Nat] /\ streamed'[e] <= unsure'[e] /\ streamed'[e] >= streamed[e]
        /\ \A f \in Events : f # e => streamed'[f] = streamed[f] /\ unsure'[f] = unsure[f]
    <3>1. CASE UNCHANGED <<streamed, unsure>>
      BY <1>4, <1>5, <3>1
    <3>2. CASE streamed' = [streamed EXCEPT ![e] = @ + 1] /\ unsure' = [unsure EXCEPT ![e] = @ + 1]
      <4>1. streamed' \in [Events -> Nat] /\ streamed'[e] = streamed[e] + 1 /\ \A f \in Events : f # e => streamed'[f] = streamed[f]
        BY <1>4, <1>5, <3>2
      <4>2. unsure' \in [Events -> Nat] /\ unsure'[e] = unsure[e] + 1 /\ \A f \in Events : f # e => unsure'[f] = unsure[f]
        BY <1>4, <1>5, <3>2
      <4> QED
        BY <1>5, <4>1, <4>2
    <3> QED
      BY <1>7, <3>1, <3>2
  <2>2. /\ DOMAIN outbox' = DOMAIN outbox /\ outbox'[e] = "held"
        /\ \A f \in DOMAIN outbox : f # e => outbox'[f] = outbox[f]
    BY <1>4, <1>7
  <2>3. PatternTypes'
    BY <1>1, <1>7, <2>1, <2>2 DEF PatternInv, PatternTypes, WatchSame, taskVars
  <2>4. \A f \in Events : streamed'[f] <= 1 + unsure'[f]
    <3> TAKE f \in Events
    <3>1. streamed'[f] \in Nat /\ unsure'[f] \in Nat /\ streamed[f] <= 1 + unsure[f]
      BY <2>1 DEF PatternInv, StreamedOK
    <3> QED
      BY <2>1, <3>1
  <2>5. \A f \in Events : sending # f /\ (f \in DOMAIN outbox' => outbox'[f] # "delivered") => streamed'[f] <= unsure'[f]
    BY <1>4, <2>1, <2>2 DEF PatternInv, StreamedOK
  <2>6. \A f \in DOMAIN outbox' : outbox'[f] = "delivered" => streamed'[f] > 0
    BY <1>4, <2>1, <2>2 DEF PatternInv, StreamedOK
  <2>7. StreamedOK'
    BY <1>1, <1>4, <1>7, <2>4, <2>5, <2>6 DEF StreamedOK
  <2> QED
    BY <1>2, <2>3, <2>7 DEF PatternInv
<1> QED
  BY <1>3, <1>6, <1>7

LEMMA MarkStep ==
  ASSUME PatternInv, MarkDelivered
  PROVE  PatternInv'
<1>1. /\ workerAt = "mark" /\ workerAt' = "send" /\ outbox' = [outbox EXCEPT ![sending] = "delivered"] /\ sending' = <<>>
      /\ WatchSame /\ UNCHANGED <<taskVars, doing, batch, streamed, unsure>>
  BY DEF MarkDelivered, WatchSame, watchVars
<1>2. sending \in DOMAIN outbox /\ sending \notin batch /\ streamed[sending] > 0
  BY <1>1 DEF PatternInv, StreamedOK
<1>3. /\ DOMAIN outbox' = DOMAIN outbox /\ outbox'[sending] = "delivered"
      /\ \A f \in DOMAIN outbox : f # sending => outbox'[f] = outbox[f]
  BY <1>1, <1>2
<1>4. PatternTypes'
  BY <1>1, <1>3 DEF PatternInv, PatternTypes, WatchSame, taskVars
<1>5. StreamedOK'
  BY <1>1, <1>2, <1>3 DEF PatternInv, PatternTypes, StreamedOK
<1>6. PlacesOK'
  BY <1>1 DEF PatternInv, PlacesOK, InHand, WatchSame, taskVars
<1> QED
  BY <1>4, <1>5, <1>6 DEF PatternInv

LEMMA TakeStep ==
  ASSUME PatternInv, TakeTask
  PROVE  PatternInv'
<1>1. /\ workerAt = "take" /\ WatchSame
      /\ UNCHANGED <<watermark, deferredTasks, pendingTasks, analysedTasks, batch, sending, outbox, streamed, unsure>>
  BY DEF TakeTask, WatchSame, watchVars, outboxVars
<1>2. CASE patternQueue = <<>>
  <2>1. workerAt' = "requeue" /\ UNCHANGED <<patternQueue, doing>> /\ doing = <<>>
    BY <1>1, <1>2 DEF TakeTask, PatternInv, PlacesOK
  <2>2. PatternTypes'
    BY <1>1, <2>1 DEF PatternInv, PatternTypes, WatchSame
  <2>3. StreamedOK'
    BY <1>1, <2>1 DEF PatternInv, StreamedOK
  <2>4. PlacesOK'
    BY <1>1, <2>1 DEF PatternInv, PlacesOK, InHand, WatchSame
  <2> QED
    BY <2>2, <2>3, <2>4 DEF PatternInv
<1>3. CASE patternQueue # <<>>
  <2>1. workerAt' = "analyse" /\ doing' = Head(patternQueue) /\ patternQueue' = Tail(patternQueue) /\ doing = <<>>
    BY <1>1, <1>3 DEF TakeTask, PatternInv, PlacesOK
  <2>2. /\ patternQueue' \in Seq(Tasks) /\ IsInjective(patternQueue') /\ doing' \in Tasks /\ doing' \in Range(patternQueue)
        /\ Range(patternQueue') = Range(patternQueue) \ {doing'}
    BY <1>3, <2>1, TailApart DEF PatternInv, PatternTypes, PlacesOK
  <2>3. doing' # <<>>
    BY <2>2, NotATask
  <2>4. PatternTypes'
    BY <1>1, <2>1, <2>2 DEF PatternInv, PatternTypes, WatchSame
  <2>5. StreamedOK'
    BY <1>1, <2>1 DEF PatternInv, StreamedOK
  <2>6. PlacesOK'
    BY <1>1, <2>1, <2>2, <2>3 DEF PatternInv, PlacesOK, InHand, WatchSame
  <2> QED
    BY <2>4, <2>5, <2>6 DEF PatternInv
<1> QED
  BY <1>2, <1>3

LEMMA AnalyseStep ==
  ASSUME PatternInv, AnalyseWhole
  PROVE  PatternInv'
<1>1. /\ workerAt = "analyse" /\ outbox' = [e \in DOMAIN outbox \union EventsOf(doing) |-> IF e \in DOMAIN outbox THEN outbox[e] ELSE "due"] /\ workerAt' \in {"done", "publish"}
      /\ WatchSame /\ UNCHANGED <<taskVars, doing, batch, sending, streamed, unsure>>
  BY DEF AnalyseWhole, WatchSame, watchVars
<1>2. doing \in Tasks /\ doing # <<>> /\ sending = <<>>
  BY <1>1 DEF PatternInv, PatternTypes, PlacesOK, StreamedOK
<1>3. EventsOf(doing) \subseteq Events
  BY <1>2, TaskIs DEF EventsOf, Events, Found
<1>4. /\ DOMAIN outbox' = DOMAIN outbox \cup EventsOf(doing)
      /\ \A e \in DOMAIN outbox : outbox'[e] = outbox[e]
      /\ \A e \in EventsOf(doing) \ DOMAIN outbox : outbox'[e] = "due"
  BY <1>1
<1>5. PatternTypes'
  BY <1>1, <1>3, <1>4 DEF PatternInv, PatternTypes, WatchSame, taskVars
<1>6. StreamedOK'
  BY <1>1, <1>2, <1>3, <1>4 DEF PatternInv, PatternTypes, StreamedOK
<1>7. PlacesOK'
  BY <1>1, <1>2 DEF PatternInv, PlacesOK, InHand, WatchSame, taskVars
<1> QED
  BY <1>5, <1>6, <1>7 DEF PatternInv

LEMMA DoneStep ==
  ASSUME PatternInv, TaskDone
  PROVE  PatternInv'
<1>1. /\ workerAt = "done" /\ workerAt' = "requeue" /\ doing' = <<>>
      /\ pendingTasks' = pendingTasks \ {doing} /\ analysedTasks' = analysedTasks \cup {doing}
      /\ watermark' = [watermark EXCEPT ![doing[1]] = Max({doing[2], @})]
      /\ WatchSame /\ UNCHANGED <<patternQueue, deferredTasks, batch, sending, outbox, streamed, unsure>>
  BY DEF TaskDone, WatchSame, watchVars, outboxVars
<1>2. PICK p, bar : p = doing[1] /\ bar = doing[2]
  OBVIOUS
<1>3. doing \in Tasks /\ doing # <<>> /\ p \in PatternPairs /\ bar \in Nat /\ watermark \in [PatternPairs -> Nat]
  BY <1>1, <1>2, TaskIs DEF PatternInv, PatternTypes, PlacesOK
<1>4. PICK w \in Int : w = watermark[p]
  BY <1>3
<1>5. Max({bar, w}) = IF bar >= w THEN bar ELSE w
  BY <1>3, <1>4, MaxOfTwo
<1>6. /\ watermark' \in [PatternPairs -> Nat] /\ watermark'[p] = Max({bar, w})
      /\ \A q \in PatternPairs : q # p => watermark'[q] = watermark[q]
  BY <1>1, <1>2, <1>3, <1>4, <1>5
<1>7. PatternTypes'
  BY <1>1, <1>3, <1>6 DEF PatternInv, PatternTypes, WatchSame
<1>8. StreamedOK'
  BY <1>1 DEF PatternInv, StreamedOK
<1>9. IsFiniteSet(pendingTasks') /\ Cardinality(pendingTasks') <= PatternQueue
  <2>1. IsFiniteSet(pendingTasks) /\ Cardinality(pendingTasks) \in Nat /\ PatternQueue \in Nat /\ Cardinality(pendingTasks) <= PatternQueue
    BY FS_CardinalityType, PatternAssumption DEF PatternInv, PlacesOK
  <2>2. IsFiniteSet(pendingTasks \ {doing}) /\ Cardinality(pendingTasks \ {doing}) <= Cardinality(pendingTasks)
    BY <2>1, FS_RemoveElement
  <2>3. Cardinality(pendingTasks \ {doing}) \in Nat
    BY <2>2, FS_CardinalityType
  <2> QED
    BY <1>1, <2>1, <2>2, <2>3
<1>10. \A task \in analysedTasks' : task \notin pendingTasks' /\ task[2] <= watermark'[task[1]]
  <2> TAKE task \in analysedTasks'
  <2>1. CASE task = doing
    BY <1>1, <1>2, <1>3, <1>4, <1>5, <1>6, <2>1
  <2>2. CASE task \in analysedTasks
    <3>1. task[1] \in PatternPairs /\ task[2] \in Nat /\ task \notin pendingTasks /\ task[2] <= watermark[task[1]]
      BY <2>2, TaskIs DEF PatternInv, PatternTypes, PlacesOK
    <3>2. watermark'[task[1]] >= watermark[task[1]] /\ watermark'[task[1]] \in Nat /\ watermark[task[1]] \in Nat
      BY <1>3, <1>4, <1>5, <1>6, <3>1
    <3> QED
      BY <1>1, <3>1, <3>2
  <2> QED
    BY <1>1, <2>1, <2>2
<1>11. PlacesOK'
  <2>1. doing' \notin Range(patternQueue) \cup deferredTasks
    BY <1>1, NotATask DEF PatternInv, PatternTypes, Range
  <2>2. pendingTasks' = Range(patternQueue) \cup deferredTasks
    BY <1>1, <1>3 DEF PatternInv, PlacesOK, InHand
  <2> QED
    BY <1>1, <1>9, <1>10, <2>1, <2>2 DEF PatternInv, PlacesOK, InHand, WatchSame
<1> QED
  BY <1>7, <1>8, <1>11 DEF PatternInv

\* A task in hand is put off; nothing is being marked any more.
LEMMA PutOffPlaces ==
  ASSUME PatternInv, doing # <<>>, PutOff, WatchSame, UNCHANGED <<watermark, patternQueue, pendingTasks, analysedTasks>>
  PROVE  PlacesOK' /\ deferredTasks' \subseteq Tasks /\ doing' = <<>> /\ workerAt' = "requeue"
<1>1. deferredTasks' = deferredTasks \cup {doing} /\ doing' = <<>> /\ workerAt' = "requeue" /\ doing \in Tasks
  BY DEF PutOff, PatternInv, PatternTypes
<1>2. doing' \notin Range(patternQueue) \cup deferredTasks'
  BY <1>1, NotATask DEF PatternInv, PatternTypes, Range
<1>3. pendingTasks = Range(patternQueue) \cup deferredTasks'
  BY <1>1 DEF PatternInv, PlacesOK, InHand
<1>4. Range(patternQueue) \cap deferredTasks' = {}
  BY <1>1 DEF PatternInv, PlacesOK
<1>5. PlacesOK'
  BY <1>1, <1>2, <1>3, <1>4 DEF PatternInv, PlacesOK, InHand, WatchSame
<1> QED
  BY <1>1, <1>5 DEF PatternInv, PatternTypes

LEMMA HoleStep ==
  ASSUME PatternInv, AnalyseHole
  PROVE  PatternInv'
<1>1. /\ workerAt = "analyse" /\ PutOff /\ WatchSame
      /\ UNCHANGED <<watermark, patternQueue, pendingTasks, analysedTasks, batch, sending, outbox, streamed, unsure>>
  BY DEF AnalyseHole, WatchSame, watchVars, outboxVars
<1>2. PlacesOK' /\ deferredTasks' \subseteq Tasks /\ doing' = <<>> /\ workerAt' = "requeue"
  BY <1>1, PutOffPlaces DEF PatternInv, PlacesOK
<1>3. PatternTypes'
  BY <1>1, <1>2 DEF PatternInv, PatternTypes, WatchSame
<1>4. StreamedOK'
  BY <1>1, <1>2 DEF PatternInv, StreamedOK
<1> QED
  BY <1>2, <1>3, <1>4 DEF PatternInv

\* What was being sent is counted as cut off.
LEMMA CutOff ==
  ASSUME PatternInv, unsure' = IF sending = <<>> THEN unsure ELSE [unsure EXCEPT ![sending] = @ + 1],
         batch' = {}, sending' = <<>>, UNCHANGED <<outbox, streamed>>, workerAt' # "mark"
  PROVE  StreamedOK' /\ unsure' \in [Events -> Nat]
<1>1. sending = <<>> \/ sending \in Events
  BY DEF PatternInv, PatternTypes, StreamedOK
<1>2. unsure \in [Events -> Nat] /\ streamed \in [Events -> Nat]
  BY DEF PatternInv, PatternTypes
<1>3. CASE sending = <<>>
  BY <1>2, <1>3 DEF PatternInv, StreamedOK
<1>4. CASE sending # <<>>
  <2>1. /\ unsure' \in [Events -> Nat] /\ sending \in Events /\ unsure'[sending] = unsure[sending] + 1
        /\ \A e \in Events : e # sending => unsure'[e] = unsure[e]
    BY <1>1, <1>2, <1>4
  <2>2. \A e \in Events : streamed[e] <= 1 + unsure'[e]
    <3> TAKE e \in Events
    <3>1. streamed[e] \in Nat /\ unsure[e] \in Nat /\ streamed[e] <= 1 + unsure[e]
      BY <1>2 DEF PatternInv, StreamedOK
    <3> QED
      BY <2>1, <3>1
  <2>3. \A e \in Events : (e \in DOMAIN outbox => outbox[e] # "delivered") => streamed[e] <= unsure'[e]
    <3> TAKE e \in Events
    <3>1. streamed[e] \in Nat /\ unsure[e] \in Nat /\ streamed[e] <= 1 + unsure[e]
      BY <1>2 DEF PatternInv, StreamedOK
    <3>2. CASE e = sending
      BY <2>1, <3>1, <3>2
    <3>3. CASE e # sending
      BY <2>1, <3>3 DEF PatternInv, StreamedOK
    <3> QED
      BY <3>2, <3>3
  <2>4. \A e \in DOMAIN outbox : outbox[e] = "delivered" => streamed[e] > 0
    BY DEF PatternInv, StreamedOK
  <2> QED
    BY <2>1, <2>2, <2>3, <2>4 DEF StreamedOK
<1> QED
  BY <1>3, <1>4

LEMMA FailStep ==
  ASSUME PatternInv, StoreFails
  PROVE  PatternInv'
<1>1. /\ workerAt \in {"publish", "mark", "analyse"} /\ WatchSame
      /\ unsure' = IF sending = <<>> THEN unsure ELSE [unsure EXCEPT ![sending] = @ + 1]
      /\ batch' = {} /\ sending' = <<>>
      /\ IF doing = <<>> THEN workerAt' = "dead" /\ UNCHANGED <<doing, deferredTasks>> ELSE PutOff
      /\ UNCHANGED <<watermark, patternQueue, pendingTasks, analysedTasks, outbox, streamed>>
  BY DEF StoreFails, WatchSame, watchVars
<1>2. CASE doing = <<>>
  <2>1. workerAt' = "dead" /\ UNCHANGED <<doing, deferredTasks>>
    BY <1>1, <1>2
  <2>2. StreamedOK' /\ unsure' \in [Events -> Nat]
    BY <1>1, <2>1, CutOff
  <2>3. PatternTypes'
    BY <1>1, <2>1, <2>2 DEF PatternInv, PatternTypes, WatchSame
  <2>4. PlacesOK'
    BY <1>1, <1>2, <2>1 DEF PatternInv, PlacesOK, InHand, WatchSame
  <2> QED
    BY <2>2, <2>3, <2>4 DEF PatternInv
<1>3. CASE doing # <<>>
  <2>1. PlacesOK' /\ deferredTasks' \subseteq Tasks /\ doing' = <<>> /\ workerAt' = "requeue"
    BY <1>1, <1>3, PutOffPlaces
  <2>2. StreamedOK' /\ unsure' \in [Events -> Nat]
    BY <1>1, <2>1, CutOff
  <2>3. PatternTypes'
    BY <1>1, <2>1, <2>2 DEF PatternInv, PatternTypes, WatchSame
  <2> QED
    BY <2>1, <2>2, <2>3 DEF PatternInv
<1> QED
  BY <1>2, <1>3

LEMMA RestartStep ==
  ASSUME PatternInv, PatternRestart
  PROVE  PatternInv'
<1>1. /\ unsure' = IF sending = <<>> THEN unsure ELSE [unsure EXCEPT ![sending] = @ + 1]
      /\ batch' = {} /\ sending' = <<>> /\ UNCHANGED <<intervals, outbox, streamed>>
      /\ warmed' = {} /\ sentMark' = [p \in PatternPairs |-> 0] /\ primed' = sentMark' /\ watermark' = sentMark'
      /\ patternQueue' = <<>> /\ deferredTasks' = {} /\ pendingTasks' = {} /\ analysedTasks' = {}
      /\ doing' = <<>> /\ workerAt' = "requeue"
  BY DEF PatternRestart
<1>2. StreamedOK' /\ unsure' \in [Events -> Nat]
  BY <1>1, CutOff
<1>3. Range(patternQueue') = {} /\ IsInjective(patternQueue') /\ patternQueue' \in Seq(Tasks)
  BY <1>1 DEF Range, IsInjective
<1>4. PatternTypes'
  BY <1>1, <1>2, <1>3 DEF PatternInv, PatternTypes
<1>5. \A p \in PatternPairs : sentMark'[p] = 0 /\ primed'[p] = 0
  BY <1>1
<1>6. IsFiniteSet({}) /\ Cardinality({}) <= PatternQueue
  BY FS_EmptySet, PatternAssumption
<1>7. PlacesOK'
  BY <1>1, <1>3, <1>5, <1>6 DEF PatternInv, PlacesOK, InHand
<1> QED
  BY <1>2, <1>4, <1>7 DEF PatternInv

LEMMA PatternSteps == PatternInv /\ [PatternNext]_patternVars => PatternInv'
BY MarketStep, ObserveStep, TurnSteps, RequeueStep, SendStep, MarkStep, TakeStep, AnalyseStep, DoneStep, HoleStep,
   FailStep, RestartStep DEF PatternNext

LEMMA PatternPromises == PatternInv => EventOnce /\ TaskIsKept
<1> SUFFICES ASSUME PatternInv PROVE EventOnce /\ TaskIsKept
  OBVIOUS
<1>1. EventOnce
  BY DEF PatternInv, StreamedOK, PlacesOK, EventOnce
<1>2. /\ pendingTasks = Range(patternQueue) \cup deferredTasks \cup InHand
      /\ IsFiniteSet(pendingTasks) /\ Cardinality(pendingTasks) <= PatternQueue
      /\ IsInjective(patternQueue) /\ Range(patternQueue) \cap deferredTasks = {}
      /\ doing \notin Range(patternQueue) \cup deferredTasks /\ patternQueue \in Seq(Tasks)
  BY DEF PatternInv, PatternTypes, PlacesOK
<1>3. Cardinality(pendingTasks) = Len(patternQueue) + Cardinality(deferredTasks) + Cardinality(InHand)
  <2>1. PICK q, d, h : q = Range(patternQueue) /\ d = deferredTasks /\ h = InHand
    OBVIOUS
  <2>2. IsFiniteSet(q) /\ Cardinality(q) = Len(patternQueue)
    BY <1>2, <2>1, InjectiveCounts
  <2>3. IsFiniteSet(d) /\ IsFiniteSet(h)
    BY <1>2, <2>1, FS_Subset
  <2>4. q \cap d = {} /\ (q \cup d) \cap h = {}
    BY <1>2, <2>1 DEF InHand
  <2>5. IsFiniteSet(q \cup d) /\ Cardinality(q \cup d) = Cardinality(q) + Cardinality(d)
    BY <2>2, <2>3, <2>4, ApartCount
  <2>6. Cardinality((q \cup d) \cup h) = Cardinality(q \cup d) + Cardinality(h)
    BY <2>3, <2>4, <2>5, ApartCount
  <2> QED
    BY <1>2, <2>1, <2>2, <2>5, <2>6
<1>4. TaskIsKept
  BY <1>2, <1>3 DEF PatternInv, StreamedOK, PlacesOK, TaskIsKept
<1> QED
  BY <1>1, <1>4


-----------------------------------------------------------------------------
(* TelegramDelivery.                                                           *)

OpStates == {"none", "pending", "attempting", "deferred", "confirmed", "uncertain", "failed"}
Items == [event : Messages, key : Operations, stored : BOOLEAN, started : BOOLEAN]
JobPlaces == {"idle", "operation", "request"} \cup SendOutcomes
Jobs == [at : JobPlaces, item : Items, key : Operations, tries : Nat, doubt : BOOLEAN]

DeliveryTypes ==
  /\ emitted \in 0..MessageEvents /\ claimed \in 0..emitted /\ worker \in {"off", "run", "closing"}
  /\ mail \in Seq(Messages) /\ held \in Seq(Items) /\ job \in Jobs
  /\ opStatus \in [Operations -> OpStates] /\ opRows \in Seq(Operations)
  /\ arrivals \in [Operations -> Nat]

\* What waits in memory: a gate whose head is the item in hand, events nobody has
\* claimed behind the claimed ones, and the mail behind them all.
GateInv ==
  /\ worker = "off" => mail = <<>> /\ held = <<>> /\ job = NoJob
  /\ job.at = "idle" => job = NoJob
  /\ job # NoJob /\ held # <<>> => held[1] = job.item
  /\ job # NoJob => job.key[1] = job.item.event /\ job.item.key[1] = job.item.event /\ job.item.event <= claimed
  /\ \A i \in DOMAIN held :
        /\ held[i].key[1] = held[i].event /\ held[i].event <= emitted
        /\ held[i].started => held[i].event <= claimed
        /\ ~held[i].started => held[i].event > claimed \/ (i = 1 /\ job # NoJob)
  /\ \A i, j \in DOMAIN held : i < j /\ ~held[i].started /\ ~held[j].started => held[i].event < held[j].event
  /\ \A m \in DOMAIN mail : mail[m] > claimed /\ mail[m] <= emitted /\ \A i \in DOMAIN held : mail[m] > held[i].event
  /\ \A m, n \in DOMAIN mail : m < n => mail[m] < mail[n]

\* An operation has a row once its event is claimed.
RowsInv ==
  /\ \A k \in Operations : k[1] > claimed => opStatus[k] = "none"
  /\ \A i \in DOMAIN opRows : opStatus[opRows[i]] # "none"

\* What may still be sent has not arrived, but for the repeats of the transport
\* and the explicit word.
Repeated == echoed \cup worded
Unsent == {"none", "pending", "deferred", "failed"}
SentInv ==
  /\ job.at \notin {"idle", "operation"} => opStatus[job.key] = "attempting"
  /\ job.at = "operation" => ~job.doubt
  /\ job.at \in {"lost", "heard"} => job.doubt
  /\ job.at \in {"request", "refused", "unsent"} /\ job.key \notin Repeated => arrivals[job.key] = 0 /\ ~job.doubt
  /\ \A k \in Operations \ Repeated : opStatus[k] \in Unsent => arrivals[k] = 0
  /\ SentOnce

DeliveryInv == DeliveryTypes /\ GateInv /\ RowsInv /\ SentInv

\* A set of positions can be enumerated in ascending order.
Ascends(f, S) == f \in [1..Cardinality(S) -> S] /\ \A i, j \in DOMAIN f : i < j => f[i] < f[j]

LEMMA SizeOfPart ==
  ASSUME NEW n \in Nat, NEW S, S \subseteq 1..n
  PROVE  IsFiniteSet(S) /\ Cardinality(S) \in Nat
<1>1. IsFiniteSet(1..n)
  BY FS_Interval
<1>2. IsFiniteSet(S)
  BY <1>1, FS_Subset
<1> QED
  BY <1>2, FS_CardinalityType

LEMMA OneMore ==
  ASSUME NEW n \in Nat, NEW S, S \subseteq 1..n, S # {},
         \A R \in SUBSET S : R # S => \E g : Ascends(g, R)
  PROVE  \E f : Ascends(f, S)
<1>1. PICK x \in S : \A y \in S : x >= y
  BY LargestExists
<1>2. IsFiniteSet(S) /\ Cardinality(S) \in Nat
  BY SizeOfPart
<1>3. PICK R : R = S \ {x}
  OBVIOUS
<1>4. R \subseteq S /\ R # S /\ \A y \in R : y < x
  BY <1>1, <1>3
<1>5. Cardinality(R) = Cardinality(S) - 1
  BY <1>1, <1>2, <1>3, FS_RemoveElement
<1>6. PICK g : Ascends(g, R)
  BY <1>4
<1>7. PICK m : m = Cardinality(S)
  OBVIOUS
<1>8. m \in Nat /\ m > 0
  BY <1>2, <1>7, FS_EmptySet
<1>9. g \in [1..m - 1 -> R] /\ \A i, j \in 1..m - 1 : i < j => g[i] < g[j]
  BY <1>5, <1>6, <1>7 DEF Ascends
<1> DEFINE f == [i \in 1..m |-> IF i < m THEN g[i] ELSE x]
<1>10. \A i \in 1..m : (i < m /\ i \in 1..m - 1 /\ f[i] = g[i] /\ g[i] \in R) \/ (i = m /\ f[i] = x)
  BY <1>8, <1>9
<1>11. DOMAIN f = 1..m /\ f = [i \in 1..m |-> f[i]]
  OBVIOUS
<1> HIDE DEF f
<1>12. f \in [1..m -> S]
  <2>1. \A i \in 1..m : f[i] \in S
    BY <1>1, <1>4, <1>10
  <2> QED
    BY <1>11, <2>1
<1>13. \A i, j \in 1..m : i < j => f[i] < f[j]
  <2> SUFFICES ASSUME NEW i \in 1..m, NEW j \in 1..m, i < j PROVE f[i] < f[j]
    OBVIOUS
  <2>1. i < m /\ i \in 1..m - 1 /\ f[i] = g[i] /\ g[i] \in R
    BY <1>8, <1>10
  <2>2. CASE j < m
    BY <1>9, <1>10, <2>1, <2>2
  <2>3. CASE j = m
    <3>1. f[j] = x
      BY <1>8, <1>10, <2>3
    <3>2. PICK y \in R : y = f[i]
      BY <2>1
    <3>3. y < x
      BY <1>4
    <3> QED
      BY <3>1, <3>2, <3>3
  <2> QED
    BY <1>8, <2>2, <2>3
<1>14. Ascends(f, S)
  BY <1>7, <1>12, <1>13 DEF Ascends
<1> QED
  BY <1>14

LEMMA AscentExists ==
  ASSUME NEW n \in Nat, NEW S, S \subseteq 1..n
  PROVE  \E f : Ascends(f, S)
<1> DEFINE T == {A \in SUBSET (1..n) : ~ \E f : Ascends(f, A)}
<1>1. SUFFICES ASSUME T # {} PROVE FALSE
  OBVIOUS
<1>2. IsFiniteSet(1..n) /\ IsWellFoundedOn(StrictSubsetOrdering(1..n), FiniteSubsetsOf(1..n))
  BY FS_Interval, FS_StrictSubsetOrderingWellFounded
<1>3. T \subseteq FiniteSubsetsOf(1..n)
  BY <1>2, FS_Subset DEF FiniteSubsetsOf
<1> HIDE DEF T
<1>4. PICK A \in T : \A B \in T : <<B, A>> \notin StrictSubsetOrdering(1..n)
  BY <1>1, <1>2, <1>3, WFMin
<1>5. A \subseteq 1..n /\ ~ \E f : Ascends(f, A)
  BY <1>4 DEF T
<1>6. A # {}
  <2>1. Cardinality({}) = 0
    BY FS_EmptySet
  <2>2. 1..0 = {}
    OBVIOUS
  <2>3. Ascends([i \in {} |-> 0], {})
    BY <2>1, <2>2 DEF Ascends
  <2> QED
    BY <1>5, <2>3
<1>7. ASSUME NEW R \in SUBSET A, R # A PROVE \E g : Ascends(g, R)
  <2>1. R \subseteq 1..n /\ A \subseteq 1..n /\ R \subseteq A /\ IsFiniteSet(R) /\ IsFiniteSet(A)
    BY <1>2, <1>5, FS_Subset
  <2>2. <<R, A>> \in StrictSubsetOrdering(1..n)
    BY <1>7, <2>1 DEF StrictSubsetOrdering, FiniteSubsetsOf
  <2> QED
    BY <1>4, <2>1, <2>2 DEF T
<1> QED
  BY <1>5, <1>6, <1>7, OneMore

LEMMA InOrderIs ==
  ASSUME NEW n \in Nat, NEW S, S \subseteq 1..n
  PROVE  Cardinality(S) \in Nat /\ Ascends(InOrder(S), S)
<1>1. Cardinality(S) \in Nat
  BY SizeOfPart
<1>2. PICK f : Ascends(f, S)
  BY AscentExists
<1> QED
  BY <1>1, <1>2 DEF Ascends, InOrder

LEMMA AscentIsOnto ==
  ASSUME NEW n \in Nat, NEW S, S \subseteq 1..n, NEW f, Ascends(f, S)
  PROVE  \A x \in S : \E i \in 1..Cardinality(S) : f[i] = x
<1>1. IsFiniteSet(S) /\ Cardinality(S) \in Nat
  BY SizeOfPart
<1>2. PICK m \in Nat : m = Cardinality(S)
  BY <1>1
<1>3. f \in [1..m -> S] /\ \A i, j \in 1..m : i < j => f[i] < f[j]
  BY <1>2 DEF Ascends
<1>4. ASSUME NEW i \in 1..m, NEW j \in 1..m, f[i] = f[j] PROVE i = j
  <2>1. f[i] \in 1..n /\ f[j] \in 1..n
    BY <1>3
  <2>2. f[i] \in Int
    BY <2>1
  <2>3. ~(f[i] < f[j]) /\ ~(f[j] < f[i])
    BY <1>4, <2>2
  <2>4. ~(i < j) /\ ~(j < i)
    BY <1>3, <2>3
  <2> QED
    BY <2>4
<1>5. f \in Injection(1..m, S)
  BY <1>3, <1>4 DEF Injection, IsInjective
<1>6. Cardinality(1..m) = m
  BY FS_Interval
<1>7. f \in Surjection(1..m, S)
  BY <1>1, <1>2, <1>5, <1>6, FS_Injection
<1> QED
  BY <1>2, <1>7 DEF Surjection

LEMMA PickedIs ==
  ASSUME NEW T, NEW q \in Seq(T), NEW S, S \subseteq DOMAIN q
  PROVE  /\ Cardinality(S) \in Nat /\ Picked(q, S) \in Seq(T) /\ Len(Picked(q, S)) = Cardinality(S)
         /\ \E f \in [1..Cardinality(S) -> S] :
               /\ \A i \in 1..Cardinality(S) : Picked(q, S)[i] = q[f[i]]
               /\ \A i, j \in 1..Cardinality(S) : i < j => f[i] < f[j]
               /\ \A x \in S : \E i \in 1..Cardinality(S) : f[i] = x
<1>1. Len(q) \in Nat /\ DOMAIN q = 1..Len(q) /\ q \in [1..Len(q) -> T]
  OBVIOUS
<1>2. PICK f : f = InOrder(S)
  OBVIOUS
<1>3. PICK m : m = Cardinality(S)
  OBVIOUS
<1>4. m \in Nat /\ Ascends(f, S)
  BY <1>1, <1>2, <1>3, InOrderIs
<1>5. f \in [1..m -> S] /\ \A i, j \in 1..m : i < j => f[i] < f[j]
  BY <1>3, <1>4 DEF Ascends
<1>6. Picked(q, S) = [i \in 1..m |-> q[f[i]]]
  BY <1>2, <1>3 DEF Picked
<1>7. Picked(q, S) \in [1..m -> T]
  BY <1>1, <1>5, <1>6
<1>8. Picked(q, S) \in Seq(T) /\ Len(Picked(q, S)) = m
  BY <1>4, <1>7, SeqDef
<1>9. \A i \in 1..m : Picked(q, S)[i] = q[f[i]]
  BY <1>6
<1>10. \A x \in S : \E i \in 1..m : f[i] = x
  BY <1>1, <1>3, <1>4, AscentIsOnto
<1> QED
  BY <1>3, <1>4, <1>5, <1>8, <1>9, <1>10

LEMMA OperationIs ==
  /\ \A k \in Operations : k[1] \in Messages
  /\ \A e \in Messages : Post(e) \in Operations /\ Post(e)[1] = e /\ Post(e)[2] = "post"
  /\ \A e \in Messages : e # 1 => RootEdit(e) \in Operations /\ RootEdit(e)[1] = e /\ RootEdit(e)[2] = "root"
  /\ 1 \in Messages /\ Messages \subseteq Nat
BY DeliveryAssumption DEF Operations, Post, RootEdit, Messages

LEMMA MessagesAreNat == Messages \subseteq Nat
BY DEF Messages

LEMMA ItemsAre ==
  /\ \A e \in Messages : /\ EventItem(e) \in Items /\ EventItem(e).event = e /\ EventItem(e).key = Post(e)
                         /\ ~EventItem(e).started /\ ~EventItem(e).stored
  /\ \A k \in Operations : /\ StoredItem(k) \in Items /\ StoredItem(k).event = k[1] /\ StoredItem(k).key = k
                           /\ StoredItem(k).started
BY OperationIs DEF Items, EventItem, StoredItem

LEMMA JobsAre ==
  /\ NoJob \in Jobs /\ NoJob.at = "idle" /\ ~NoJob.doubt
  /\ \A item \in Items, k \in Operations :
        /\ Working(item, k) \in Jobs /\ Working(item, k).at = "operation" /\ Working(item, k).item = item
        /\ Working(item, k).key = k /\ Working(item, k) # NoJob /\ ~Working(item, k).doubt
<1>1. NoJob \in Jobs /\ NoJob.at = "idle" /\ ~NoJob.doubt
  BY OperationIs, ItemsAre DEF NoJob, Jobs, JobPlaces
<1>2. ASSUME NEW item \in Items, NEW k \in Operations
      PROVE  /\ Working(item, k) \in Jobs /\ Working(item, k).at = "operation" /\ Working(item, k).item = item
             /\ Working(item, k).key = k /\ Working(item, k) # NoJob /\ ~Working(item, k).doubt
  <2>1. Working(item, k) \in Jobs
    BY <1>1 DEF Working, Jobs, JobPlaces
  <2>2. /\ Working(item, k).at = "operation" /\ Working(item, k).item = item /\ Working(item, k).key = k
        /\ Working(item, k).doubt = NoJob.doubt
    BY <1>1 DEF Working, Jobs
  <2> QED
    BY <1>1, <2>1, <2>2
<1> QED
  BY <1>1, <1>2

LEMMA DeliveryStarts == DeliveryInit => DeliveryInv
<1> SUFFICES ASSUME DeliveryInit PROVE DeliveryInv
  OBVIOUS
<1>1. job = NoJob /\ job.at = "idle" /\ job \in Jobs
  BY JobsAre DEF DeliveryInit
<1>2. DeliveryTypes
  BY <1>1, DeliveryAssumption DEF DeliveryInit, DeliveryTypes, OpStates
<1>3. GateInv
  BY <1>1 DEF DeliveryInit, GateInv
<1>4. RowsInv
  BY DEF DeliveryInit, RowsInv
<1>5. SentInv
  BY <1>1 DEF DeliveryInit, SentInv, SentOnce
<1> QED
  BY <1>2, <1>3, <1>4, <1>5 DEF DeliveryInv

\* The item in hand is the head of the gate, when there is a gate.
LEMMA HeadInHand ==
  ASSUME DeliveryTypes, GateInv, job # NoJob
  PROVE  /\ worker # "off" /\ (FromHeld <=> held # <<>>) /\ job.at # "idle"
         /\ held # <<>> => Head(held) = held[1] /\ held[1] = job.item /\ 1 \in DOMAIN held
BY DEF DeliveryTypes, GateInv, FromHeld

LEMMA ItemDoneGate ==
  ASSUME DeliveryTypes, GateInv, job # NoJob, ItemDone, UNCHANGED <<emitted, worker, mail, claimed>>
  PROVE  GateInv' /\ held' \in Seq(Items) /\ job' = NoJob /\ job'.at = "idle" /\ job' \in Jobs
<1>1. job' = NoJob /\ job'.at = "idle" /\ job' \in Jobs
  BY JobsAre DEF ItemDone
<1>2. worker # "off"
  BY HeadInHand
<1>3. CASE held = <<>>
  <2>1. held' = <<>>
    BY <1>3, HeadInHand DEF ItemDone
  <2>2. held' \in Seq(Items)
    BY <2>1
  <2>3. GateInv'
    BY <1>1, <1>2, <2>1 DEF GateInv
  <2> QED
    BY <1>1, <2>2, <2>3
<1>4. CASE held # <<>>
  <2>1. held' = Tail(held)
    BY <1>4, HeadInHand DEF ItemDone
  <2>2. /\ held' \in Seq(Items) /\ DOMAIN held' = 1..Len(held) - 1 /\ Len(held) \in Nat /\ DOMAIN held = 1..Len(held)
        /\ \A i \in 1..Len(held) - 1 : held'[i] = held[i + 1] /\ i + 1 \in DOMAIN held /\ i + 1 # 1
    BY <1>4, <2>1 DEF DeliveryTypes
  <2>3. \A i, j \in DOMAIN held' : i < j /\ ~held'[i].started /\ ~held'[j].started => held'[i].event < held'[j].event
    <3> SUFFICES ASSUME NEW i \in DOMAIN held', NEW j \in DOMAIN held', i < j, ~held'[i].started, ~held'[j].started
                 PROVE  held'[i].event < held'[j].event
      OBVIOUS
    <3>1. i + 1 \in DOMAIN held /\ j + 1 \in DOMAIN held /\ i + 1 < j + 1 /\ held'[i] = held[i + 1] /\ held'[j] = held[j + 1]
      BY <2>2
    <3> QED
      BY <3>1 DEF GateInv
  <2>4. \A i \in DOMAIN held' :
          /\ held'[i].key[1] = held'[i].event /\ held'[i].event <= emitted
          /\ held'[i].started => held'[i].event <= claimed
          /\ ~held'[i].started => held'[i].event > claimed
    <3> SUFFICES ASSUME NEW i \in DOMAIN held'
                 PROVE  /\ held'[i].key[1] = held'[i].event /\ held'[i].event <= emitted
                        /\ held'[i].started => held'[i].event <= claimed
                        /\ ~held'[i].started => held'[i].event > claimed
      OBVIOUS
    <3>1. PICK h \in DOMAIN held : h = i + 1 /\ h # 1 /\ held'[i] = held[h]
      BY <2>2
    <3> QED
      BY <3>1 DEF GateInv
  <2>5. \A m \in DOMAIN mail : \A i \in DOMAIN held' : mail[m] > held'[i].event
    <3> SUFFICES ASSUME NEW m \in DOMAIN mail, NEW i \in DOMAIN held' PROVE mail[m] > held'[i].event
      OBVIOUS
    <3>1. PICK h \in DOMAIN held : held'[i] = held[h]
      BY <2>2
    <3> QED
      BY <3>1 DEF GateInv
  <2>6. GateInv'
    BY <1>1, <1>2, <2>3, <2>4, <2>5 DEF GateInv
  <2> QED
    BY <1>1, <2>2, <2>6
<1> QED
  BY <1>3, <1>4

\* Another operation of the item in hand.
LEMMA GoesOn ==
  ASSUME DeliveryTypes, GateInv, job # NoJob, UNCHANGED <<emitted, worker, mail, claimed, held>>,
         job' \in Jobs, job'.at # "idle", job'.item = job.item, job'.key[1] = job.key[1]
  PROVE  GateInv' /\ job' # NoJob
BY JobsAre DEF GateInv

LEMMA NextStepGate ==
  ASSUME DeliveryTypes, GateInv, job # NoJob, NEW k, NextStep(k), UNCHANGED <<emitted, worker, mail, claimed>>
  PROVE  /\ GateInv' /\ held' \in Seq(Items) /\ job' \in Jobs /\ job'.at \in {"idle", "operation"}
         /\ job'.at = "operation" => ~job'.doubt
<1>1. CASE k = Post(job.item.event) /\ ~job.item.stored /\ k # Post(1) /\ rootSent
  <2>1. job.item \in Items /\ job.item.event \in Messages
    BY DEF DeliveryTypes, Jobs, Items
  <2>2. RootEdit(job.item.event) \in Operations /\ RootEdit(job.item.event)[1] = job.item.event
    BY <1>1, <2>1, OperationIs
  <2>3. job' = Working(job.item, RootEdit(job.item.event)) /\ UNCHANGED held
    BY <1>1 DEF NextStep
  <2>4. job' \in Jobs /\ job'.at = "operation" /\ ~job'.doubt /\ job'.item = job.item /\ job'.key[1] = job.item.event
    BY <2>1, <2>2, <2>3, JobsAre
  <2>5. job.key[1] = job.item.event
    BY DEF GateInv
  <2>6. GateInv'
    BY <2>3, <2>4, <2>5, GoesOn
  <2> QED
    BY <2>3, <2>4, <2>6 DEF DeliveryTypes
<1>2. CASE ~(k = Post(job.item.event) /\ ~job.item.stored /\ k # Post(1) /\ rootSent)
  <2>1. ItemDone
    BY <1>2 DEF NextStep
  <2> QED
    BY <2>1, ItemDoneGate
<1> QED
  BY <1>1, <1>2

LEMMA HeldItems ==
  ASSUME DeliveryTypes
  PROVE  /\ \A i \in DOMAIN held : /\ held[i] \in Items /\ held[i].event \in Messages /\ held[i].key \in Operations
                                  /\ held[i].started \in BOOLEAN
         /\ job.item \in Items /\ job.item.event \in Messages /\ job.key \in Operations
<1>1. held \in Seq(Items) /\ job \in Jobs
  BY DEF DeliveryTypes
<1>2. \A i \in DOMAIN held : held[i] \in Items
  BY <1>1
<1>3. job.item \in Items /\ job.key \in Operations
  BY <1>1 DEF Jobs
<1> QED
  BY <1>2, <1>3 DEF Items

\* What the sent requests promise is kept when only memory changes hands.
LEMMA SentStays ==
  ASSUME SentInv, UNCHANGED <<opStatus, arrivals, echoed, worded>>,
         job' = job \/ job'.at \in {"idle", "operation"}, job'.at = "operation" => job' = job \/ ~job'.doubt
  PROVE  SentInv'
BY DEF SentInv, SentOnce, Repeated

LEMMA RowsStay ==
  ASSUME DeliveryTypes, RowsInv, UNCHANGED <<opStatus, opRows>>, claimed' \in Nat, claimed' >= claimed
  PROVE  RowsInv'
<1>1. \A k \in Operations : k[1] \in Nat
  BY OperationIs
<1> QED
  BY <1>1 DEF RowsInv, DeliveryTypes

LEMMA EmitStep ==
  ASSUME DeliveryInv, EmitEvent
  PROVE  DeliveryInv'
<1> USE DEF DeliveryInv, delivery, chat
<1>1. /\ emitted' = emitted + 1 /\ emitted' \in Messages /\ emitted \in Nat /\ claimed \in Nat
      /\ UNCHANGED <<worker, held, job, opStatus, opRows, claimed, arrivals, echoed, worded>>
  BY DeliveryAssumption DEF EmitEvent, DeliveryTypes, Messages
<1>2. mail \in Seq(Messages) /\ \A m \in DOMAIN mail : mail[m] <= emitted /\ mail[m] \in Nat
  <2>1. mail \in Seq(Messages) /\ \A m \in DOMAIN mail : mail[m] \in Messages
    BY DEF DeliveryTypes
  <2> QED
    BY <2>1, OperationIs DEF GateInv
<1>3. /\ mail' \in Seq(Messages) /\ (worker = "off" => mail' = <<>>)
      /\ \A m \in DOMAIN mail' : \/ mail'[m] = emitted' /\ (\A n \in DOMAIN mail' : m < n => FALSE)
                                 \/ mail'[m] <= emitted
      /\ \A m \in DOMAIN mail' : mail'[m] = emitted' \/ \E n \in DOMAIN mail : mail'[m] = mail[n]
      /\ \A m, n \in DOMAIN mail' : m < n => mail'[m] < mail'[n]
  <2>1. CASE worker # "run"
    BY <1>1, <1>2, <2>1 DEF EmitEvent, GateInv
  <2>2. ASSUME NEW q \in Seq(Messages), mail' = Append(q, emitted'), worker = "run",
               \A m \in DOMAIN q : q[m] <= emitted /\ q[m] \in Nat /\ \E n \in DOMAIN mail : q[m] = mail[n],
               \A m, n \in DOMAIN q : m < n => q[m] < q[n]
        PROVE  /\ mail' \in Seq(Messages) /\ (worker = "off" => mail' = <<>>)
               /\ \A m \in DOMAIN mail' : \/ mail'[m] = emitted' /\ (\A n \in DOMAIN mail' : m < n => FALSE)
                                          \/ mail'[m] <= emitted
               /\ \A m \in DOMAIN mail' : mail'[m] = emitted' \/ \E n \in DOMAIN mail : mail'[m] = mail[n]
               /\ \A m, n \in DOMAIN mail' : m < n => mail'[m] < mail'[n]
    <3>1. /\ mail' \in Seq(Messages) /\ DOMAIN mail' = 1..Len(q) + 1 /\ Len(q) \in Nat /\ DOMAIN q = 1..Len(q)
          /\ mail'[Len(q) + 1] = emitted' /\ \A m \in 1..Len(q) : mail'[m] = q[m]
      BY <1>1, <2>2
    <3>2. \A m, n \in DOMAIN mail' : m < n => mail'[m] < mail'[n]
      <4> SUFFICES ASSUME NEW m \in DOMAIN mail', NEW n \in DOMAIN mail', m < n PROVE mail'[m] < mail'[n]
        OBVIOUS
      <4>1. m \in DOMAIN q /\ mail'[m] = q[m]
        BY <3>1
      <4>2. CASE n \in DOMAIN q
        BY <2>2, <3>1, <4>1, <4>2
      <4>3. CASE n = Len(q) + 1
        BY <1>1, <2>2, <3>1, <4>1, <4>3
      <4> QED
        BY <3>1, <4>2, <4>3
    <3>3. \A m \in DOMAIN mail' : mail'[m] = emitted' \/ \E n \in DOMAIN mail : mail'[m] = mail[n]
      BY <2>2, <3>1
    <3>4. \A m \in DOMAIN mail' : \/ mail'[m] = emitted' /\ (\A n \in DOMAIN mail' : m < n => FALSE)
                                  \/ mail'[m] <= emitted
      <4> TAKE m \in DOMAIN mail'
      <4>1. CASE m = Len(q) + 1
        BY <3>1, <4>1
      <4>2. CASE m \in DOMAIN q
        BY <2>2, <3>1, <4>2
      <4> QED
        BY <3>1, <4>1, <4>2
    <3> QED
      BY <2>2, <3>1, <3>2, <3>3, <3>4
  <2>3. CASE worker = "run" /\ Len(mail) < QueueSize
    <3>1. mail' = Append(mail, emitted')
      BY <1>1, <2>3 DEF EmitEvent
    <3>2. \A m, n \in DOMAIN mail : m < n => mail[m] < mail[n]
      BY DEF GateInv
    <3> QED
      BY <1>2, <2>2, <2>3, <3>1, <3>2
  <2>4. CASE worker = "run" /\ ~(Len(mail) < QueueSize)
    <3>1. mail' = Append(Tail(mail), emitted')
      BY <1>1, <2>4 DEF EmitEvent
    <3>2. mail # <<>>
      BY <1>2, <2>4, DeliveryAssumption
    <3>3. /\ Tail(mail) \in Seq(Messages) /\ DOMAIN Tail(mail) = 1..Len(mail) - 1 /\ DOMAIN mail = 1..Len(mail)
          /\ Len(mail) \in Nat /\ \A m \in 1..Len(mail) - 1 : m + 1 \in DOMAIN mail /\ Tail(mail)[m] = mail[m + 1]
      BY <1>2, <3>2
    <3>4. PICK q : q = Tail(mail)
      OBVIOUS
    <3>5. \A m \in DOMAIN q : q[m] <= emitted /\ q[m] \in Nat /\ \E n \in DOMAIN mail : q[m] = mail[n]
      BY <1>2, <3>3, <3>4
    <3>6. \A m, n \in DOMAIN q : m < n => q[m] < q[n]
      <4> SUFFICES ASSUME NEW m \in DOMAIN q, NEW n \in DOMAIN q, m < n PROVE q[m] < q[n]
        OBVIOUS
      <4>1. m + 1 \in DOMAIN mail /\ n + 1 \in DOMAIN mail /\ m + 1 < n + 1 /\ q[m] = mail[m + 1] /\ q[n] = mail[n + 1]
        BY <3>3, <3>4
      <4> QED
        BY <4>1 DEF GateInv
    <3>7. q \in Seq(Messages) /\ mail' = Append(q, emitted')
      BY <3>1, <3>3, <3>4
    <3> QED
      BY <2>2, <2>4, <3>5, <3>6, <3>7
  <2> QED
    BY <2>1, <2>3, <2>4
<1>4. DeliveryTypes'
  <2>1. emitted' \in 0..MessageEvents /\ claimed' \in 0..emitted'
    BY <1>1, DeliveryAssumption DEF DeliveryTypes, Messages
  <2> QED
    BY <1>1, <1>3, <2>1 DEF DeliveryTypes
<1>5. \A i \in DOMAIN held : held[i].event \in Nat /\ held[i].event <= emitted
  <2>1. \A i \in DOMAIN held : held[i].event \in Messages
    BY HeldItems
  <2> QED
    BY <2>1, OperationIs DEF GateInv
<1>6. \A m \in DOMAIN mail' : mail'[m] > claimed /\ mail'[m] <= emitted' /\ \A i \in DOMAIN held : mail'[m] > held[i].event
  <2> TAKE m \in DOMAIN mail'
  <2>1. CASE mail'[m] = emitted'
    BY <1>1, <1>5, <2>1 DEF DeliveryTypes
  <2>2. CASE \E n \in DOMAIN mail : mail'[m] = mail[n]
    BY <1>1, <1>2, <2>2 DEF GateInv
  <2> QED
    BY <1>3, <2>1, <2>2
<1>7. \A i \in DOMAIN held : held[i].event <= emitted'
  BY <1>1, <1>5
<1>8. GateInv'
  BY <1>1, <1>3, <1>6, <1>7 DEF GateInv
<1>9. RowsInv' /\ SentInv'
  BY <1>1, RowsStay, SentStays DEF DeliveryTypes
<1> QED
  BY <1>4, <1>8, <1>9

LEMMA DispatchStep ==
  ASSUME DeliveryInv, DispatchEvent
  PROVE  DeliveryInv'
<1> USE DEF DeliveryInv, chat
<1>1. PICK e : e = Head(mail)
  OBVIOUS
<1>2. /\ worker # "off" /\ job = NoJob /\ mail # <<>> /\ mail' = Tail(mail)
      /\ UNCHANGED <<emitted, worker, opStatus, opRows, arrivals, echoed, worded>>
  BY DEF DispatchEvent
<1>3. /\ mail' \in Seq(Messages) /\ DOMAIN mail' = 1..Len(mail) - 1 /\ DOMAIN mail = 1..Len(mail) /\ Len(mail) \in Nat
      /\ e = mail[1] /\ 1 \in DOMAIN mail /\ e \in Messages
      /\ \A m \in 1..Len(mail) - 1 : m + 1 \in DOMAIN mail /\ mail'[m] = mail[m + 1]
  BY <1>1, <1>2 DEF DeliveryTypes
<1>4. /\ EventItem(e) \in Items /\ EventItem(e).event = e /\ EventItem(e).key = Post(e) /\ ~EventItem(e).started
      /\ Post(e) \in Operations /\ Post(e)[1] = e /\ e \in Nat
  BY <1>3, ItemsAre, OperationIs
<1>5. e > claimed /\ e <= emitted /\ (\A i \in DOMAIN held : e > held[i].event) /\ claimed \in Nat /\ emitted \in Nat
  BY <1>3 DEF GateInv, DeliveryTypes
<1>6. \A m \in DOMAIN mail' : /\ mail'[m] > e /\ mail'[m] > claimed /\ mail'[m] <= emitted
                              /\ \A i \in DOMAIN held : mail'[m] > held[i].event
  <2> TAKE m \in DOMAIN mail'
  <2>1. PICK n \in DOMAIN mail : n = m + 1 /\ mail'[m] = mail[n] /\ 1 < n
    BY <1>3
  <2> QED
    BY <1>3, <2>1 DEF GateInv
<1>7. \A m, n \in DOMAIN mail' : m < n => mail'[m] < mail'[n]
  <2> SUFFICES ASSUME NEW m \in DOMAIN mail', NEW n \in DOMAIN mail', m < n PROVE mail'[m] < mail'[n]
    OBVIOUS
  <2>1. m + 1 \in DOMAIN mail /\ n + 1 \in DOMAIN mail /\ m + 1 < n + 1 /\ mail'[m] = mail[m + 1] /\ mail'[n] = mail[n + 1]
    BY <1>3
  <2> QED
    BY <2>1 DEF GateInv
<1>8. CASE MustWait
  <2>1. held' = Append(held, EventItem(e)) /\ job' = NoJob /\ claimed' = claimed
    BY <1>1, <1>8 DEF DispatchEvent
  <2>2. /\ held' \in Seq(Items) /\ DOMAIN held' = 1..Len(held) + 1 /\ DOMAIN held = 1..Len(held) /\ Len(held) \in Nat
        /\ held'[Len(held) + 1] = EventItem(e) /\ \A i \in DOMAIN held : held'[i] = held[i]
    BY <1>4, <2>1 DEF DeliveryTypes
  <2>3. \A i \in DOMAIN held' : i \in DOMAIN held \/ i = Len(held) + 1
    BY <2>2
  <2>4. DeliveryTypes'
    BY <1>2, <1>3, <2>1, <2>2 DEF DeliveryTypes
  <2>5. \A i \in DOMAIN held' : /\ held'[i].key[1] = held'[i].event /\ held'[i].event <= emitted
                                /\ held'[i].started => held'[i].event <= claimed
                                /\ ~held'[i].started => held'[i].event > claimed
    BY <1>2, <1>4, <1>5, <2>2, <2>3 DEF GateInv
  <2>6. \A m \in DOMAIN mail' : \A i \in DOMAIN held' : mail'[m] > held'[i].event
    BY <1>4, <1>6, <2>2, <2>3
  <2>7. \A i, j \in DOMAIN held' : i < j /\ ~held'[i].started /\ ~held'[j].started => held'[i].event < held'[j].event
    <3> SUFFICES ASSUME NEW i \in DOMAIN held', NEW j \in DOMAIN held', i < j, ~held'[i].started, ~held'[j].started
                 PROVE  held'[i].event < held'[j].event
      OBVIOUS
    <3>1. i \in DOMAIN held /\ held'[i] = held[i] /\ held[i].event < e
      BY <1>5, <2>2, <2>3
    <3>2. CASE j \in DOMAIN held
      BY <2>2, <3>1, <3>2 DEF GateInv
    <3>3. CASE j = Len(held) + 1
      BY <1>4, <2>2, <3>1, <3>3
    <3> QED
      BY <2>3, <3>2, <3>3
  <2>8. GateInv'
    BY <1>2, <1>6, <1>7, <2>1, <2>5, <2>6, <2>7 DEF GateInv
  <2>9. RowsInv' /\ SentInv'
    BY <1>2, <2>1, JobsAre, RowsStay, SentStays DEF DeliveryTypes
  <2> QED
    BY <2>4, <2>8, <2>9
<1>9. CASE ~MustWait
  <2>1. held = <<>> /\ held' = <<>> /\ DOMAIN held' = {}
    BY <1>9 DEF DispatchEvent, MustWait, HeldUp
  <2>2. Claims(EventItem(e))
    BY <1>4, <1>5 DEF Claims
  <2>3. job' = Working(EventItem(e), Post(e)) /\ claimed' = e
    BY <1>1, <1>4, <1>9, <2>2 DEF DispatchEvent
  <2>4. /\ job' \in Jobs /\ job'.at = "operation" /\ job'.item = EventItem(e) /\ job'.key = Post(e) /\ job' # NoJob
        /\ ~job'.doubt
    BY <1>4, <2>3, JobsAre
  <2>5. DeliveryTypes'
    BY <1>2, <1>3, <1>4, <1>5, <2>1, <2>3, <2>4 DEF DeliveryTypes
  <2>6. GateInv'
    BY <1>2, <1>4, <1>6, <1>7, <2>1, <2>3, <2>4 DEF GateInv
  <2>7. RowsInv' /\ SentInv'
    BY <1>2, <1>4, <1>5, <2>3, <2>4, RowsStay, SentStays
  <2> QED
    BY <2>5, <2>6, <2>7
<1> QED
  BY <1>8, <1>9

LEMMA RetryStep ==
  ASSUME DeliveryInv, RetryHeld
  PROVE  DeliveryInv'
<1> USE DEF DeliveryInv, chat
<1>1. PICK h : h = held[1]
  OBVIOUS
<1>2. /\ worker = "run" /\ job = NoJob /\ held # <<>> /\ Head(held) = h /\ 1 \in DOMAIN held
      /\ UNCHANGED <<emitted, worker, mail, opStatus, opRows, arrivals, echoed, worded>>
  BY <1>1 DEF RetryHeld, DeliveryTypes
<1>3. h \in Items /\ h.event \in Messages /\ h.key \in Operations /\ h.key[1] = h.event /\ h.event \in Nat
  BY <1>1, <1>2, HeldItems, OperationIs DEF GateInv
<1>4. claimed \in Nat /\ emitted \in Nat /\ claimed <= emitted
  BY DEF DeliveryTypes
<1>5. h.event <= emitted /\ (h.started => h.event <= claimed) /\ (~h.started => h.event > claimed)
  BY <1>1, <1>2 DEF GateInv
<1>6. Claims(h)
  BY <1>5 DEF Claims
<1>7. job' = Working(h, h.key) /\ held' = held /\ claimed' = IF ~h.started THEN h.event ELSE claimed
  BY <1>2, <1>6 DEF RetryHeld
<1>8. /\ job' \in Jobs /\ job'.at = "operation" /\ job'.item = h /\ job'.key = h.key /\ job' # NoJob
      /\ ~job'.doubt
  BY <1>3, <1>7, JobsAre
<1>9. claimed' \in 0..emitted' /\ claimed' >= claimed /\ h.event <= claimed' /\ claimed' \in Nat
  BY <1>2, <1>3, <1>4, <1>5, <1>7
<1>10. DeliveryTypes'
  BY <1>2, <1>7, <1>8, <1>9 DEF DeliveryTypes
<1>11. \A i \in DOMAIN held :
         /\ held[i].started => held[i].event <= claimed'
         /\ ~held[i].started => held[i].event > claimed' \/ i = 1
  <2> SUFFICES ASSUME NEW i \in DOMAIN held
               PROVE  /\ held[i].started => held[i].event <= claimed'
                      /\ ~held[i].started => held[i].event > claimed' \/ i = 1
    OBVIOUS
  <2>1. held[i].event \in Nat /\ i \in Nat /\ i >= 1
    <3>1. held \in Seq(Items) /\ DOMAIN held = 1..Len(held) /\ Len(held) \in Nat
      BY DEF DeliveryTypes
    <3>2. i \in Nat /\ i >= 1
      BY <3>1
    <3>3. held[i].event \in Messages
      BY HeldItems
    <3> QED
      BY <3>2, <3>3, OperationIs
  <2>2. held[i].started => held[i].event <= claimed
    BY DEF GateInv
  <2>3. ASSUME ~held[i].started, i # 1 PROVE held[i].event > claimed'
    <3>1. held[i].event > claimed
      BY <2>3 DEF GateInv
    <3>2. ~h.started => h.event < held[i].event
      BY <1>1, <1>2, <2>1, <2>3 DEF GateInv
    <3> QED
      BY <1>7, <3>1, <3>2
  <2> QED
    BY <1>4, <1>9, <2>1, <2>2, <2>3
<1>12. \A m \in DOMAIN mail : mail[m] > claimed'
  BY <1>1, <1>2, <1>7 DEF GateInv
<1>13. GateInv'
  BY <1>1, <1>2, <1>3, <1>7, <1>8, <1>9, <1>11, <1>12 DEF GateInv
<1>14. RowsInv' /\ SentInv'
  BY <1>2, <1>8, <1>9, RowsStay, SentStays
<1> QED
  BY <1>10, <1>13, <1>14

LEMMA BeginStep ==
  ASSUME DeliveryInv, BeginOperation
  PROVE  DeliveryInv'
<1> USE DEF DeliveryInv, chat
<1>1. PICK k : k = job.key
  OBVIOUS
<1>2. /\ job.at = "operation" /\ job # NoJob /\ k \in Operations /\ job \in Jobs
      /\ UNCHANGED <<emitted, worker, mail, claimed, arrivals, echoed, worded>>
  BY <1>1, JobsAre, HeldItems DEF BeginOperation, DeliveryTypes
<1>3. CASE Sendable(k)
  <2>1. PICK s \in {"pending", "attempting"} :
            /\ opStatus' = [opStatus EXCEPT ![k] = s]
            /\ job' = job \/ (s = "attempting" /\ job' = [job EXCEPT !.at = "request"])
            /\ opRows' = Append(opRows, k) \/ opRows' = opRows
            /\ held' = held
    BY <1>1, <1>3 DEF BeginOperation
  <2>2. /\ job' \in Jobs /\ job'.item = job.item /\ job'.key = k /\ job'.doubt = job.doubt
        /\ job'.at = "operation" \/ (job'.at = "request" /\ s = "attempting")
    BY <1>1, <1>2, <2>1 DEF Jobs, JobPlaces
  <2>3. opStatus' \in [Operations -> OpStates] /\ opRows' \in Seq(Operations)
    <3>1. s \in OpStates
      BY <2>1 DEF OpStates
    <3>2. opStatus \in [Operations -> OpStates] /\ opRows \in Seq(Operations)
      BY DEF DeliveryTypes
    <3>3. opStatus' \in [Operations -> OpStates]
      BY <2>1, <3>1, <3>2
    <3>4. opRows' \in Seq(Operations)
      BY <1>2, <2>1, <3>2
    <3> QED
      BY <3>3, <3>4
  <2>4. DeliveryTypes'
    BY <1>2, <2>1, <2>2, <2>3 DEF DeliveryTypes
  <2>5. GateInv'
    BY <1>1, <1>2, <2>1, <2>2, GoesOn
  <2>6. RowsInv'
    <3>1. k[1] <= claimed /\ k[1] \in Nat
      BY <1>1, <1>2, HeldItems, OperationIs DEF GateInv
    <3>2. \A o \in Operations : o[1] > claimed' => opStatus'[o] = "none"
      BY <1>2, <2>1, <3>1 DEF RowsInv, DeliveryTypes
    <3>3. ASSUME NEW i \in DOMAIN opRows' PROVE opStatus'[opRows'[i]] # "none"
      <4>1. CASE i \in DOMAIN opRows /\ opRows'[i] = opRows[i]
        BY <2>1, <4>1 DEF RowsInv, DeliveryTypes
      <4>2. CASE opRows'[i] = k
        BY <1>2, <2>1, <4>2 DEF DeliveryTypes
      <4>3. opRows \in Seq(Operations)
        BY DEF DeliveryTypes
      <4> QED
        BY <1>2, <2>1, <4>1, <4>2, <4>3
    <3> QED
      BY <3>2, <3>3 DEF RowsInv
  <2>7. SentInv'
    <3>1. opStatus'[k] = s /\ \A o \in Operations : o # k => opStatus'[o] = opStatus[o]
      BY <1>2, <2>1 DEF DeliveryTypes
    <3>2. k \notin Repeated => arrivals[k] = 0 /\ opStatus[k] \in Unsent
      BY <1>2, <1>3 DEF SentInv, Sendable, Unsent
    <3>3. ~job.doubt
      BY <1>2 DEF SentInv
    <3> QED
      BY <1>2, <2>2, <3>1, <3>2, <3>3 DEF SentInv, SentOnce, Repeated, Unsent
  <2> QED
    BY <2>4, <2>5, <2>6, <2>7
<1>4. CASE ~Sendable(k)
  <2>1. /\ (opStatus[k] = "confirmed" /\ NextStep(k)) \/ ItemDone
        /\ UNCHANGED <<opStatus, opRows>>
    BY <1>1, <1>4 DEF BeginOperation
  <2>2. /\ GateInv' /\ held' \in Seq(Items) /\ job' \in Jobs /\ job'.at \in {"idle", "operation"}
        /\ job'.at = "operation" => ~job'.doubt
    BY <1>2, <2>1, NextStepGate, ItemDoneGate
  <2>3. DeliveryTypes'
    BY <1>2, <2>1, <2>2 DEF DeliveryTypes
  <2>4. RowsInv' /\ SentInv'
    BY <1>2, <2>1, <2>2, RowsStay, SentStays DEF DeliveryTypes
  <2> QED
    BY <2>2, <2>3, <2>4
<1> QED
  BY <1>3, <1>4

LEMMA SendRequestStep ==
  ASSUME DeliveryInv, SendRequest
  PROVE  DeliveryInv'
<1> USE DEF DeliveryInv, delivery, chat
<1>1. PICK k : k = job.key
  OBVIOUS
<1>2. PICK outcome \in SendOutcomes :
         /\ job.at = "request" /\ job' = [job EXCEPT !.at = outcome, !.doubt = @ \/ outcome \in {"lost", "heard"}]
         /\ IF outcome \in {"ok", "heard"} THEN CallArrives(k) ELSE UNCHANGED <<arrivals, arrived>>
         /\ UNCHANGED <<emitted, worker, mail, held, opStatus, opRows, claimed, echoed, worded>>
  BY <1>1 DEF SendRequest, SendOutcomes
<1>3. k \in Operations /\ job # NoJob /\ job \in Jobs
  BY <1>1, <1>2, JobsAre, HeldItems DEF DeliveryTypes
<1>4. /\ job' \in Jobs /\ job'.at = outcome /\ job'.item = job.item /\ job'.key = k
      /\ outcome \in {"refused", "unsent"} => job'.doubt = job.doubt
      /\ outcome \in {"lost", "heard"} => job'.doubt
  BY <1>1, <1>2, <1>3 DEF Jobs, JobPlaces, SendOutcomes
<1>5. /\ arrivals' \in [Operations -> Nat] /\ \A o \in Operations : o # k => arrivals'[o] = arrivals[o]
      /\ outcome \in {"ok", "heard"} => arrivals'[k] = arrivals[k] + 1
      /\ outcome \notin {"ok", "heard"} => arrivals'[k] = arrivals[k]
  BY <1>2, <1>3 DEF DeliveryTypes, CallArrives
<1>6. DeliveryTypes'
  BY <1>2, <1>4, <1>5 DEF DeliveryTypes
<1>7. GateInv'
  BY <1>1, <1>2, <1>3, <1>4, GoesOn DEF SendOutcomes
<1>8. RowsInv'
  BY <1>2, RowsStay DEF DeliveryTypes
<1>9. SentInv'
  <2>1. opStatus[k] = "attempting" /\ (k \notin Repeated => arrivals[k] = 0 /\ ~job.doubt)
    BY <1>1, <1>2 DEF SentInv
  <2>2. \A o \in Operations \ Repeated : opStatus[o] \in Unsent => arrivals'[o] = 0
    BY <1>5, <2>1 DEF SentInv, Unsent
  <2>3. \A o \in Operations \ Repeated : arrivals'[o] <= 1
    BY <1>5, <2>1 DEF SentInv, SentOnce, Repeated
  <2> QED
    BY <1>2, <1>4, <1>5, <2>1, <2>2, <2>3 DEF SentInv, SentOnce, Repeated, SendOutcomes
<1> QED
  BY <1>6, <1>7, <1>8, <1>9

\* An operation that is settled and may be sent again has not arrived.
LEMMA SettledRight ==
  ASSUME DeliveryTypes, RowsInv, GateInv, SentInv, job # NoJob, job.at \in SendOutcomes, NEW s \in OpStates, s # "none",
         opStatus' = [opStatus EXCEPT ![job.key] = s], Repeated \subseteq Repeated',
         s \in Unsent => job.at \in {"refused", "unsent"},
         job'.at \in {"idle", "operation"}, job'.at = "operation" => ~job'.doubt,
         UNCHANGED <<opRows, claimed, arrivals>>
  PROVE  RowsInv' /\ SentInv' /\ opStatus' \in [Operations -> OpStates]
<1>1. PICK k \in Operations : k = job.key
  BY HeldItems
<1>2. /\ opStatus' \in [Operations -> OpStates] /\ opStatus'[k] = s
      /\ \A o \in Operations : o # k => opStatus'[o] = opStatus[o]
  BY <1>1 DEF DeliveryTypes
<1>3. k[1] <= claimed /\ k[1] \in Nat /\ claimed \in Nat
  <2>1. k[1] \in Messages /\ claimed \in Nat
    BY OperationIs DEF DeliveryTypes
  <2>2. k[1] <= claimed
    BY <1>1 DEF GateInv
  <2> QED
    BY <2>1, <2>2, OperationIs
<1>4. RowsInv'
  <2>1. \A o \in Operations : o[1] > claimed' => opStatus'[o] = "none"
    BY <1>2, <1>3 DEF RowsInv
  <2>2. \A i \in DOMAIN opRows : opRows[i] \in Operations
    BY DEF DeliveryTypes
  <2>3. \A i \in DOMAIN opRows' : opStatus'[opRows'[i]] # "none"
    BY <1>2, <2>2 DEF RowsInv
  <2> QED
    BY <2>1, <2>3 DEF RowsInv
<1>5. SentInv'
  <2>1. s \in Unsent /\ k \notin Repeated' => arrivals[k] = 0
    BY <1>1 DEF SentInv
  <2>2. \A o \in Operations \ Repeated' : opStatus'[o] \in Unsent => arrivals[o] = 0
    BY <1>2, <2>1 DEF SentInv
  <2> QED
    BY <2>2 DEF SentInv, SentOnce, Repeated
<1> QED
  BY <1>2, <1>4, <1>5

LEMMA PutBefore ==
  ASSUME NEW T, NEW d \in T, NEW q \in Seq(T)
  PROVE  /\ <<d>> \o q \in Seq(T) /\ Len(<<d>> \o q) = Len(q) + 1 /\ (<<d>> \o q)[1] = d
         /\ \A i \in 1..Len(q) + 1 : i # 1 => i - 1 \in DOMAIN q /\ (<<d>> \o q)[i] = q[i - 1]
<1>1. PICK s : s = <<d>>
  OBVIOUS
<1>2. s \in Seq(T) /\ Len(s) = 1 /\ s[1] = d /\ Len(q) \in Nat /\ DOMAIN q = 1..Len(q)
  BY <1>1
<1>3. PICK r : r = s \o q
  OBVIOUS
<1>4. /\ r \in Seq(T) /\ Len(r) = Len(s) + Len(q)
      /\ \A i \in 1..Len(r) : r[i] = IF i <= Len(s) THEN s[i] ELSE q[i - Len(s)]
  <2>1. q \in Seq(T) /\ s \in Seq(T)
    BY <1>2
  <2> QED
    BY <1>3, <2>1
<1>5. \A i \in 1..Len(q) + 1 : i # 1 => i - 1 \in DOMAIN q /\ r[i] = q[i - 1]
  BY <1>2, <1>4
<1>6. r[1] = d
  BY <1>2, <1>4
<1> QED
  BY <1>1, <1>3, <1>4, <1>5, <1>6

\* An item put off stays the head of its gate, as one that was begun.
LEMMA DeferredGate ==
  ASSUME DeliveryTypes, GateInv, job # NoJob, job' = NoJob,
         held' = <<Deferred>> \o (IF FromHeld THEN Tail(held) ELSE <<>>), UNCHANGED <<emitted, worker, mail, claimed>>
  PROVE  GateInv' /\ held' \in Seq(Items)
<1>1. PICK item \in Items : item = job.item /\ item.event \in Messages
  BY HeldItems
<1>2. PICK d : d = Deferred
  OBVIOUS
<1>3. d \in Items /\ d.event = item.event /\ d.key = item.key /\ d.started
  BY <1>1, <1>2 DEF Deferred, Items
<1>4. /\ item.event <= claimed /\ item.key[1] = item.event /\ claimed \in Nat /\ emitted \in Nat /\ claimed <= emitted
      /\ item.event \in Nat /\ item.event <= emitted
  <2>1. item.event <= claimed /\ item.key[1] = item.event /\ claimed \in Nat /\ emitted \in Nat /\ claimed <= emitted
    BY <1>1 DEF GateInv, DeliveryTypes
  <2>2. item.event \in Nat
    BY <1>1, OperationIs
  <2> QED
    BY <2>1, <2>2
<1>5. PICK q : q = IF FromHeld THEN Tail(held) ELSE <<>>
  OBVIOUS
<1>6. /\ q \in Seq(Items) /\ Len(q) \in Nat /\ DOMAIN q = 1..Len(q)
      /\ \A i \in DOMAIN q : i + 1 \in DOMAIN held /\ i + 1 # 1 /\ q[i] = held[i + 1]
  <2>1. CASE held = <<>>
    BY <1>5, <2>1, HeadInHand
  <2>2. CASE held # <<>>
    <3>1. q = Tail(held) /\ held \in Seq(Items)
      BY <1>5, <2>2, HeadInHand DEF DeliveryTypes
    <3> QED
      BY <2>2, <3>1
  <2> QED
    BY <2>1, <2>2
<1>7. /\ held' \in Seq(Items) /\ DOMAIN held' = 1..Len(q) + 1 /\ held'[1] = d
      /\ \A i \in DOMAIN held' : i # 1 => i - 1 \in DOMAIN q /\ i \in DOMAIN held /\ held'[i] = held[i]
  <2>1. PICK r : r = <<d>> \o q
    OBVIOUS
  <2>2. /\ r \in Seq(Items) /\ Len(r) = Len(q) + 1 /\ r[1] = d
        /\ \A i \in 1..Len(q) + 1 : i # 1 => i - 1 \in DOMAIN q /\ r[i] = q[i - 1]
    BY <1>3, <1>6, <2>1, PutBefore
  <2>3. held' = r /\ DOMAIN r = 1..Len(r)
    BY <1>2, <1>5, <2>1, <2>2
  <2>4. \A i \in 1..Len(q) + 1 : i # 1 => i \in DOMAIN held /\ held'[i] = held[i]
    <3> TAKE i \in 1..Len(q) + 1
    <3> HAVE i # 1
    <3>1. PICK j \in DOMAIN q : j = i - 1 /\ held'[i] = q[j]
      BY <2>2, <2>3
    <3>2. j + 1 = i
      BY <3>1
    <3> QED
      BY <1>6, <3>1, <3>2
  <2> QED
    BY <2>2, <2>3, <2>4
<1>8. worker # "off" /\ job'.at = "idle"
  BY HeadInHand, JobsAre
<1>9. \A i \in DOMAIN held' :
        /\ held'[i].key[1] = held'[i].event /\ held'[i].event <= emitted
        /\ held'[i].started => held'[i].event <= claimed
        /\ ~held'[i].started => held'[i].event > claimed /\ i # 1
  <2> TAKE i \in DOMAIN held'
  <2>1. CASE i = 1
    BY <1>3, <1>4, <1>7, <2>1
  <2>2. CASE i # 1
    BY <1>7, <2>2 DEF GateInv
  <2> QED
    BY <2>1, <2>2
<1>10. \A i, j \in DOMAIN held' : i < j /\ ~held'[i].started /\ ~held'[j].started => held'[i].event < held'[j].event
  <2> SUFFICES ASSUME NEW i \in DOMAIN held', NEW j \in DOMAIN held', i < j, ~held'[i].started, ~held'[j].started
               PROVE  held'[i].event < held'[j].event
    OBVIOUS
  <2>1. i # 1 /\ j # 1
    BY <1>9
  <2>2. i \in DOMAIN held /\ j \in DOMAIN held /\ held'[i] = held[i] /\ held'[j] = held[j]
    BY <1>7, <2>1
  <2> QED
    BY <2>2 DEF GateInv
<1>11. \A m \in DOMAIN mail : \A i \in DOMAIN held' : mail[m] > held'[i].event
  <2> SUFFICES ASSUME NEW m \in DOMAIN mail, NEW i \in DOMAIN held' PROVE mail[m] > held'[i].event
    OBVIOUS
  <2>1. mail[m] > claimed /\ mail[m] \in Nat
    <3>1. mail[m] \in Messages
      BY DEF DeliveryTypes
    <3> QED
      BY <3>1, OperationIs DEF GateInv
  <2>2. CASE i = 1
    BY <1>3, <1>4, <1>7, <2>1, <2>2
  <2>3. CASE i # 1
    BY <1>7, <2>3 DEF GateInv
  <2> QED
    BY <2>2, <2>3
<1>12. GateInv'
  BY <1>8, <1>9, <1>10, <1>11 DEF GateInv
<1> QED
  BY <1>7, <1>12

LEMMA AnswerStep ==
  ASSUME DeliveryInv, TakeAnswer
  PROVE  DeliveryInv'
<1> USE DEF DeliveryInv
<1>1. PICK k : k = job.key
  OBVIOUS
<1>2. /\ job.at \in SendOutcomes /\ job # NoJob /\ k \in Operations /\ job \in Jobs
      /\ UNCHANGED <<emitted, worker, mail, opRows, claimed, arrivals, worded>>
      /\ echoed' = IF Again /\ job.doubt THEN echoed \cup {k} ELSE echoed
  BY <1>1, JobsAre, HeldItems DEF TakeAnswer, DeliveryTypes, SendOutcomes
<1>3. Repeated \subseteq Repeated'
  BY <1>2 DEF Repeated
<1>4. CASE Again /\ job' = [job EXCEPT !.at = "request", !.tries = @ + 1] /\ UNCHANGED <<held, opStatus>>
  <2>1. /\ job' \in Jobs /\ job'.at = "request" /\ job'.item = job.item /\ job'.key = k /\ job'.doubt = job.doubt
    <3>1. job.tries + 1 \in Nat
      BY <1>2 DEF Jobs
    <3> QED
      BY <1>1, <1>2, <1>4, <3>1 DEF Jobs, JobPlaces
  <2>2. DeliveryTypes'
    BY <1>2, <1>4, <2>1 DEF DeliveryTypes
  <2>3. GateInv'
    BY <1>1, <1>2, <1>4, <2>1, GoesOn
  <2>4. RowsInv'
    BY <1>2, <1>4, RowsStay DEF DeliveryTypes
  <2>5. SentInv'
    <3>1. opStatus[k] = "attempting"
      BY <1>1, <1>2 DEF SentInv, SendOutcomes
    <3>2. k \notin Repeated' => arrivals[k] = 0 /\ ~job.doubt
      <4>1. SUFFICES ASSUME k \notin Repeated' PROVE arrivals[k] = 0 /\ ~job.doubt
        OBVIOUS
      <4>2. ~job.doubt /\ k \notin Repeated
        BY <1>2, <1>3, <1>4, <4>1 DEF Repeated
      <4>3. job.at = "unsent"
        BY <1>4, <4>2 DEF Again, SentInv
      <4> QED
        BY <1>1, <4>2, <4>3 DEF SentInv
    <3> QED
      BY <1>2, <1>3, <1>4, <2>1, <3>1, <3>2 DEF SentInv, SentOnce, Repeated
  <2> QED
    BY <2>2, <2>3, <2>4, <2>5
<1>5. ASSUME NEW s \in OpStates, s # "none", opStatus' = [opStatus EXCEPT ![k] = s],
             s \in Unsent => job.at \in {"refused", "unsent"},
             GateInv', held' \in Seq(Items), job' \in Jobs, job'.at \in {"idle", "operation"},
             job'.at = "operation" => ~job'.doubt
      PROVE  DeliveryInv'
  <2>1. RowsInv' /\ SentInv' /\ opStatus' \in [Operations -> OpStates]
    BY <1>1, <1>2, <1>3, <1>5, SettledRight
  <2>2. DeliveryTypes'
    BY <1>2, <1>5, <2>1 DEF DeliveryTypes
  <2> QED
    BY <1>5, <2>1, <2>2
<1>6. CASE SettleOperation(k, "confirmed") /\ NextStep(k)
  <2>1. opStatus' = [opStatus EXCEPT ![k] = "confirmed"]
    BY <1>6 DEF SettleOperation
  <2>2. /\ GateInv' /\ held' \in Seq(Items) /\ job' \in Jobs /\ job'.at \in {"idle", "operation"}
        /\ job'.at = "operation" => ~job'.doubt
    BY <1>2, <1>6, NextStepGate
  <2> QED
    BY <1>5, <2>1, <2>2 DEF OpStates, Unsent
<1>7. CASE job.at = "unsent" /\ opStatus' = [opStatus EXCEPT ![k] = "deferred"] /\ job' = NoJob
           /\ held' = <<Deferred>> \o (IF FromHeld THEN Tail(held) ELSE <<>>)
  <2>1. GateInv' /\ held' \in Seq(Items)
    BY <1>2, <1>7, DeferredGate
  <2>2. job' \in Jobs /\ job'.at = "idle"
    BY <1>7, JobsAre
  <2> QED
    BY <1>5, <1>7, <2>1, <2>2 DEF OpStates
<1>8. ASSUME NEW s \in {"failed", "uncertain"}, SettleOperation(k, s), ItemDone,
             s = "failed" => job.at \in {"refused", "unsent"}
      PROVE  DeliveryInv'
  <2>1. opStatus' = [opStatus EXCEPT ![k] = s]
    BY <1>8 DEF SettleOperation
  <2>2. GateInv' /\ held' \in Seq(Items) /\ job' = NoJob /\ job'.at = "idle" /\ job' \in Jobs
    BY <1>2, <1>8, ItemDoneGate
  <2> QED
    BY <1>5, <1>8, <2>1, <2>2 DEF OpStates, Unsent
<1>9. CASE k \in retried /\ SettleOperation(k, "failed") /\ ItemDone /\ job.at = "unsent"
  BY <1>8, <1>9
<1>10. CASE job.at # "ok" /\ SettleOperation(k, IF job.at = "refused" THEN "failed" ELSE "uncertain") /\ ItemDone
  BY <1>8, <1>10
<1>11. \/ Again /\ job' = [job EXCEPT !.at = "request", !.tries = @ + 1] /\ UNCHANGED <<held, opStatus>>
       \/ SettleOperation(k, "confirmed") /\ NextStep(k)
       \/ (job.at = "unsent" /\ opStatus' = [opStatus EXCEPT ![k] = "deferred"] /\ job' = NoJob
           /\ held' = <<Deferred>> \o (IF FromHeld THEN Tail(held) ELSE <<>>))
       \/ k \in retried /\ SettleOperation(k, "failed") /\ ItemDone /\ job.at = "unsent"
       \/ job.at # "ok" /\ SettleOperation(k, IF job.at = "refused" THEN "failed" ELSE "uncertain") /\ ItemDone
  BY <1>1 DEF TakeAnswer
<1> QED
  BY <1>4, <1>6, <1>7, <1>9, <1>10, <1>11

\* The channel stops, or the process dies: what was in memory is gone.
LEMMA StopSteps ==
  ASSUME DeliveryInv, CloseChannel \/ WorkerDies \/ UNCHANGED deliveryVars
  PROVE  DeliveryInv'
<1> USE DEF DeliveryInv, delivery, chat
<1>1. CASE CloseChannel
  BY <1>1 DEF CloseChannel, DeliveryTypes, GateInv, RowsInv, SentInv, SentOnce, Repeated
<1>2. CASE WorkerDies
  <2>1. /\ worker' = "off" /\ mail' = <<>> /\ held' = <<>> /\ job' = NoJob /\ job'.at = "idle" /\ job' \in Jobs
        /\ UNCHANGED <<emitted, opStatus, opRows, claimed, arrivals, echoed, worded>>
    BY <1>2, JobsAre DEF WorkerDies
  <2>2. DeliveryTypes'
    BY <2>1 DEF DeliveryTypes
  <2>3. GateInv'
    BY <2>1 DEF GateInv
  <2>4. RowsInv' /\ SentInv'
    BY <2>1, RowsStay, SentStays DEF DeliveryTypes
  <2> QED
    BY <2>2, <2>3, <2>4
<1>3. CASE UNCHANGED deliveryVars
  BY <1>3 DEF deliveryVars, DeliveryTypes, GateInv, RowsInv, SentInv, SentOnce, Repeated
<1> QED
  BY <1>1, <1>2, <1>3

\* The posts the channel parks: of events it held back, in their order, behind
\* everything that has a row.
Parks(posts, n) ==
  /\ posts \in Seq(Operations) /\ DOMAIN posts = 1..n
  /\ \A i \in 1..n : /\ posts[i] = Post(posts[i][1]) /\ posts[i][1] \in Nat
                     /\ posts[i][1] > claimed /\ posts[i][1] <= claimed'
                     /\ \E h \in DOMAIN held : held[h].event = posts[i][1]
  /\ \A i, j \in 1..n : i < j => posts[i][1] < posts[j][1]
  /\ worker = "closing" /\ job = NoJob /\ claimed' \in 0..emitted /\ claimed' >= claimed
  /\ worker' = "off" /\ mail' = <<>> /\ held' = <<>> /\ opRows' = opRows \o posts
  /\ opStatus' \in [Operations -> OpStates] /\ opRows' \in Seq(Operations)
  /\ \A k \in Operations : k \notin Range(posts) => opStatus'[k] = opStatus[k]
  /\ \A k \in Range(posts) : k \in Operations /\ opStatus'[k] = "deferred" /\ opStatus[k] = "none" /\ k[1] <= claimed'
  /\ \A i \in DOMAIN opRows' : \/ \E j \in DOMAIN opRows : opRows'[i] = opRows[j]
                               \/ opRows'[i] \in Range(posts)
  /\ UNCHANGED <<emitted, job, rootSent, arrivals, arrived, echoed, worded>>

LEMMA ParkedPosts ==
  ASSUME DeliveryInv, ParkHeld
  PROVE  \E n \in Nat : \E posts : Parks(posts, n)
<1> USE DEF DeliveryInv, chat
<1>1. PICK S : S = {i \in DOMAIN held : ~held[i].started}
  OBVIOUS
<1>2. PICK m : m = Cardinality(S)
  OBVIOUS
<1>3. PICK p : p = Parked
  OBVIOUS
<1>4. PICK f : /\ m \in Nat /\ p \in Seq(Items) /\ Len(p) = m /\ DOMAIN p = 1..m
               /\ f \in [1..m -> S] /\ (\A i \in 1..m : p[i] = held[f[i]])
               /\ \A i, j \in 1..m : i < j => f[i] < f[j]
  <2>1. held \in Seq(Items) /\ S \subseteq DOMAIN held /\ p = Picked(held, S)
    BY <1>1, <1>3 DEF DeliveryTypes, Parked
  <2>2. m \in Nat /\ p \in Seq(Items) /\ Len(p) = m
    BY <1>2, <2>1, PickedIs
  <2>3. \E f \in [1..m -> S] : /\ (\A i \in 1..m : p[i] = held[f[i]])
                               /\ \A i, j \in 1..m : i < j => f[i] < f[j]
    BY <1>2, <2>1, PickedIs
  <2> QED
    BY <2>2, <2>3
<1>5. \A i \in 1..m : /\ p[i].event \in Messages /\ p[i].event > claimed /\ p[i].event <= emitted /\ p[i].event \in Nat
  <2> TAKE i \in 1..m
  <2>1. f[i] \in S /\ f[i] \in DOMAIN held /\ ~held[f[i]].started /\ p[i] = held[f[i]] /\ job = NoJob
    BY <1>1, <1>4 DEF ParkHeld
  <2>2. p[i].event \in Messages
    BY <2>1, HeldItems
  <2> QED
    BY <2>1, <2>2, OperationIs DEF GateInv
<1>6. \A i, j \in 1..m : i < j => p[i].event < p[j].event
  <2> SUFFICES ASSUME NEW i \in 1..m, NEW j \in 1..m, i < j PROVE p[i].event < p[j].event
    OBVIOUS
  <2>1. f[i] \in DOMAIN held /\ f[j] \in DOMAIN held /\ f[i] < f[j] /\ ~held[f[i]].started /\ ~held[f[j]].started
    BY <1>1, <1>4
  <2> QED
    BY <1>4, <2>1 DEF GateInv
<1>7. PICK posts : posts = [i \in 1..Len(p) |-> Post(p[i].event)]
  OBVIOUS
<1>8. /\ posts \in [1..m -> Operations] /\ posts \in Seq(Operations) /\ DOMAIN posts = 1..m /\ Len(posts) = m
      /\ \A i \in 1..m : posts[i] = Post(p[i].event) /\ posts[i] \in Operations /\ posts[i][1] = p[i].event
  <2>1. \A i \in 1..m : Post(p[i].event) \in Operations /\ Post(p[i].event)[1] = p[i].event
    BY <1>5, OperationIs
  <2>2. posts \in [1..m -> Operations] /\ \A i \in 1..m : posts[i] = Post(p[i].event)
    BY <1>4, <1>7, <2>1
  <2>3. posts \in Seq(Operations) /\ DOMAIN posts = 1..m /\ Len(posts) = m
    BY <1>4, <2>2, SeqDef
  <2> QED
    BY <2>1, <2>2, <2>3
<1>9. /\ worker = "closing" /\ job = NoJob
      /\ opStatus' = [k \in Operations |-> IF k \in Range(posts) THEN "deferred" ELSE opStatus[k]]
      /\ opRows' = opRows \o posts /\ claimed' = IF posts = <<>> THEN claimed ELSE Last(p).event
      /\ worker' = "off" /\ mail' = <<>> /\ held' = <<>> /\ UNCHANGED <<emitted, job, rootSent, arrivals, arrived, echoed, worded>>
  BY <1>3, <1>7 DEF ParkHeld
<1>10. claimed \in Nat /\ emitted \in Nat /\ claimed <= emitted
  BY DEF DeliveryTypes
<1>11. /\ claimed' \in 0..emitted /\ claimed' >= claimed /\ \A i \in 1..m : p[i].event <= claimed'
  <2>1. CASE m = 0
    <3>1. posts = <<>> /\ 1..m = {}
      BY <1>8, <2>1
    <3> QED
      BY <1>9, <1>10, <3>1
  <2>2. CASE m # 0
    <3>1. posts # <<>> /\ m \in 1..m /\ Last(p) = p[m]
      BY <1>4, <1>8, <2>2 DEF Last
    <3>2. claimed' = p[m].event
      BY <1>9, <3>1
    <3>3. \A i \in 1..m : i = m \/ i < m
      BY <1>4
    <3> QED
      BY <1>5, <1>6, <1>10, <3>1, <3>2, <3>3
  <2> QED
    BY <2>1, <2>2
<1>12. /\ opStatus' \in [Operations -> OpStates]
       /\ \A k \in Operations : k \notin Range(posts) => opStatus'[k] = opStatus[k]
       /\ \A k \in Range(posts) : k \in Operations /\ opStatus'[k] = "deferred" /\ opStatus[k] = "none" /\ k[1] <= claimed'
  <2>1. \A k \in Range(posts) : k \in Operations /\ k[1] > claimed /\ k[1] <= claimed'
    BY <1>5, <1>8, <1>11 DEF Range
  <2>2. opStatus \in [Operations -> OpStates]
    BY DEF DeliveryTypes
  <2> QED
    BY <1>9, <2>1, <2>2 DEF OpStates, RowsInv
<1>13. /\ opRows \in Seq(Operations) /\ opRows' \in Seq(Operations)
       /\ \A i \in DOMAIN opRows' : \/ \E j \in DOMAIN opRows : opRows'[i] = opRows[j]
                                    \/ opRows'[i] \in Range(posts)
  <2>1. opRows \in Seq(Operations) /\ posts \in Seq(Operations)
    BY <1>8 DEF DeliveryTypes
  <2>2. PICK r : r = opRows \o posts
    OBVIOUS
  <2>3. /\ r \in Seq(Operations) /\ Len(r) = Len(opRows) + Len(posts) /\ DOMAIN r = 1..Len(r)
        /\ Len(opRows) \in Nat /\ DOMAIN opRows = 1..Len(opRows)
        /\ \A i \in 1..Len(r) : r[i] = IF i <= Len(opRows) THEN opRows[i] ELSE posts[i - Len(opRows)]
    BY <2>1, <2>2
  <2>4. \A i \in DOMAIN r : (\E j \in DOMAIN opRows : r[i] = opRows[j]) \/ r[i] \in Range(posts)
    <3> TAKE i \in DOMAIN r
    <3>1. CASE i <= Len(opRows)
      BY <2>3, <3>1
    <3>2. CASE i > Len(opRows)
      <4>1. r[i] = posts[i - Len(opRows)] /\ i - Len(opRows) \in DOMAIN posts
        BY <1>4, <1>8, <2>3, <3>2
      <4> QED
        BY <4>1 DEF Range
    <3> QED
      BY <2>3, <3>1, <3>2
  <2> QED
    BY <1>9, <2>1, <2>2, <2>3, <2>4
<1>14. \A i \in 1..m : /\ posts[i] = Post(posts[i][1]) /\ posts[i][1] \in Nat
                        /\ posts[i][1] > claimed /\ posts[i][1] <= claimed'
                        /\ \E h \in DOMAIN held : held[h].event = posts[i][1]
  <2> TAKE i \in 1..m
  <2>1. posts[i][1] = p[i].event /\ posts[i] = Post(p[i].event)
    BY <1>8
  <2>2. f[i] \in DOMAIN held /\ p[i] = held[f[i]]
    BY <1>1, <1>4
  <2> QED
    BY <1>5, <1>11, <2>1, <2>2
<1>15. \A i, j \in 1..m : i < j => posts[i][1] < posts[j][1]
  BY <1>6, <1>8
<1>16. Parks(posts, m)
  BY <1>8, <1>9, <1>11, <1>12, <1>13, <1>14, <1>15 DEF Parks
<1> QED
  BY <1>4, <1>16

LEMMA ParkStep ==
  ASSUME DeliveryInv, ParkHeld
  PROVE  DeliveryInv'
<1> USE DEF DeliveryInv
<1>1. PICK posts : \E n \in Nat : Parks(posts, n)
  BY ParkedPosts
<1>2. claimed \in Nat /\ emitted \in Nat /\ claimed <= emitted
  BY DEF DeliveryTypes
<1>3. /\ claimed' \in 0..emitted /\ claimed' >= claimed /\ job = NoJob
      /\ worker' = "off" /\ mail' = <<>> /\ held' = <<>> /\ UNCHANGED <<emitted, job, arrivals, echoed, worded>>
  BY <1>1 DEF Parks
<1>4. /\ opStatus' \in [Operations -> OpStates]
      /\ \A k \in Operations : k \notin Range(posts) => opStatus'[k] = opStatus[k]
      /\ \A k \in Range(posts) : k \in Operations /\ opStatus'[k] = "deferred" /\ opStatus[k] = "none" /\ k[1] <= claimed'
  BY <1>1 DEF Parks
<1>5. /\ opRows \in Seq(Operations) /\ opRows' \in Seq(Operations)
      /\ \A i \in DOMAIN opRows' : \/ \E j \in DOMAIN opRows : opRows'[i] = opRows[j]
                                   \/ opRows'[i] \in Range(posts)
  BY <1>1 DEF Parks, DeliveryTypes
<1>6. DeliveryTypes'
  BY <1>3, <1>4, <1>5 DEF DeliveryTypes
<1>7. GateInv'
  BY <1>3, JobsAre DEF GateInv
<1>8. RowsInv'
  <2>1. \A k \in Operations : k[1] > claimed' => opStatus'[k] = "none"
    <3> SUFFICES ASSUME NEW k \in Operations, k[1] > claimed' PROVE opStatus'[k] = "none"
      OBVIOUS
    <3>1. k[1] \in Nat /\ claimed' \in Nat
      <4>1. k[1] \in Messages
        BY OperationIs
      <4>2. k[1] \in Nat
        BY <4>1, MessagesAreNat
      <4>3. claimed' \in Nat
        BY <1>2, <1>3
      <4> QED
        BY <4>2, <4>3
    <3>2. k \notin Range(posts)
      BY <1>4, <3>1
    <3>3. k[1] > claimed
      BY <1>2, <1>3, <3>1
    <3> QED
      BY <1>4, <3>2, <3>3 DEF RowsInv
  <2>2. \A j \in DOMAIN opRows : opRows[j] \in Operations /\ opStatus[opRows[j]] # "none"
    BY <1>5 DEF RowsInv
  <2>3. \A i \in DOMAIN opRows' : opStatus'[opRows'[i]] # "none"
    BY <1>4, <1>5, <2>2
  <2> QED
    BY <2>1, <2>3 DEF RowsInv
<1>9. SentInv'
  <2>1. \A k \in Range(posts) \ Repeated : arrivals[k] = 0
    BY <1>4 DEF SentInv, Unsent
  <2>2. \A k \in Operations \ Repeated : opStatus'[k] \in Unsent => arrivals[k] = 0
    BY <1>4, <2>1 DEF SentInv
  <2> QED
    BY <1>3, <2>2, JobsAre DEF SentInv, SentOnce, Repeated
<1> QED
  BY <1>6, <1>7, <1>8, <1>9

\* A new run, or a call by hand, counts an attempt without an end as uncertain.
LEMMA MigratedIs ==
  ASSUME DeliveryTypes
  PROVE  \A k \in Operations : /\ Migrated(opStatus)[k] = IF opStatus[k] = "attempting" THEN "uncertain" ELSE opStatus[k]
                               /\ Migrated(opStatus)[k] \in OpStates
BY DEF DeliveryTypes, Migrated, Interrupted, OpStates

LEMMA StartStep ==
  ASSUME DeliveryInv, WorkerStart
  PROVE  DeliveryInv'
<1> USE DEF DeliveryInv, chat
<1>1. PICK S : S = {i \in DOMAIN opRows : Migrated(opStatus)[opRows[i]] = "deferred"}
  OBVIOUS
<1>2. PICK m : m = Cardinality(S)
  OBVIOUS
<1>3. PICK w : w = Picked(opRows, S)
  OBVIOUS
<1>4. opRows \in Seq(Operations) /\ S \subseteq DOMAIN opRows
  BY <1>1 DEF DeliveryTypes
<1>5. m \in Nat /\ w \in Seq(Operations) /\ Len(w) = m
  BY <1>2, <1>3, <1>4, PickedIs
<1>6. \A i \in 1..m : w[i] \in Operations /\ opStatus[w[i]] # "none" /\ w[i][1] <= claimed
  <2>1. PICK f \in [1..m -> S] : \A i \in 1..m : w[i] = opRows[f[i]]
    BY <1>2, <1>3, <1>4, PickedIs
  <2> TAKE i \in 1..m
  <2>2. f[i] \in DOMAIN opRows /\ w[i] = opRows[f[i]] /\ w[i] \in Operations
    BY <1>4, <2>1
  <2>3. opStatus[w[i]] # "none" /\ w[i][1] \in Messages
    BY <2>2, OperationIs DEF RowsInv
  <2>4. claimed \in Nat /\ w[i][1] \in Nat
    <3>1. w[i][1] \in Nat
      BY <2>3, MessagesAreNat
    <3>2. claimed \in Nat
      BY DEF DeliveryTypes
    <3> QED
      BY <3>1, <3>2
  <2> QED
    BY <2>2, <2>3, <2>4 DEF RowsInv
<1>7. PICK over \in 0..Len(w) :
         /\ opStatus' = [k \in Operations |-> IF k \in {w[i] : i \in 1..over} THEN "failed" ELSE Migrated(opStatus)[k]]
         /\ held' = [i \in 1..Len(w) - over |-> StoredItem(w[i + over])]
  <2>1. w = Waiting
    BY <1>1, <1>3 DEF Waiting
  <2> QED
    BY <2>1 DEF WorkerStart
<1>8. /\ worker = "off" /\ worker' = "run" /\ mail = <<>> /\ job = NoJob /\ job.at = "idle"
      /\ UNCHANGED <<emitted, mail, job, opRows, claimed, arrivals, echoed, worded>>
  BY JobsAre DEF WorkerStart, GateInv
<1>9. PICK n \in Nat : n = Len(w) - over
  BY <1>5, <1>7
<1>10. \A i \in 1..n : /\ StoredItem(w[i + over]) \in Items /\ StoredItem(w[i + over]).started
                       /\ StoredItem(w[i + over]).key[1] = StoredItem(w[i + over]).event
                       /\ StoredItem(w[i + over]).event <= claimed
  <2> TAKE i \in 1..n
  <2>1. i + over \in 1..m
    BY <1>5, <1>7, <1>9
  <2> QED
    BY <1>6, <2>1, ItemsAre
<1>11. /\ held' \in Seq(Items) /\ DOMAIN held' = 1..n
       /\ \A i \in 1..n : held'[i].started /\ held'[i].key[1] = held'[i].event /\ held'[i].event <= claimed
  <2>1. held' \in [1..n -> Items] /\ \A i \in 1..n : held'[i] = StoredItem(w[i + over])
    BY <1>7, <1>9, <1>10
  <2>2. held' \in Seq(Items) /\ DOMAIN held' = 1..n
    BY <2>1, SeqDef
  <2> QED
    BY <1>10, <2>1, <2>2
<1>12. /\ opStatus' \in [Operations -> OpStates]
       /\ \A k \in Operations : /\ opStatus[k] = "none" <=> opStatus'[k] = "none"
                                /\ opStatus'[k] \in Unsent => opStatus[k] \in Unsent
  <2>1. \A k \in Operations : \/ /\ k \in {w[i] : i \in 1..over}
                                 /\ opStatus'[k] = "failed" /\ Migrated(opStatus)[k] = "deferred"
                              \/ opStatus'[k] = Migrated(opStatus)[k]
    <3>1. PICK f \in [1..m -> S] : \A i \in 1..m : w[i] = opRows[f[i]]
      BY <1>2, <1>3, <1>4, PickedIs
    <3>2. \A i \in 1..m : Migrated(opStatus)[w[i]] = "deferred"
      BY <1>1, <3>1
    <3>3. \A i \in 1..over : i \in 1..m
      BY <1>5, <1>7
    <3> QED
      BY <1>7, <3>2, <3>3
  <2>2. \A k \in Operations : opStatus'[k] \in OpStates
    BY <2>1, MigratedIs DEF OpStates
  <2>3. opStatus' \in [Operations -> OpStates]
    BY <1>7, <2>2
  <2>4. \A k \in Operations : /\ opStatus[k] = "none" <=> opStatus'[k] = "none"
                              /\ opStatus'[k] \in Unsent => opStatus[k] \in Unsent
    BY <2>1, MigratedIs DEF Unsent
  <2> QED
    BY <2>3, <2>4
<1>13. DeliveryTypes'
  BY <1>8, <1>11, <1>12 DEF DeliveryTypes
<1>14. claimed \in Nat /\ emitted \in Nat /\ claimed <= emitted
  BY DEF DeliveryTypes
<1>15. \A i \in 1..n : held'[i].event <= emitted
  <2> TAKE i \in 1..n
  <2>1. held'[i] \in Items /\ held'[i].event \in Messages
    <3>1. held'[i] \in Items
      BY <1>11
    <3> QED
      BY <3>1 DEF Items
  <2>2. held'[i].event \in Nat
    BY <2>1, MessagesAreNat
  <2>3. held'[i].event <= claimed
    BY <1>11
  <2> QED
    BY <1>14, <2>2, <2>3
<1>16. GateInv'
  BY <1>8, <1>11, <1>15 DEF GateInv
<1>17. RowsInv'
  <2>1. \A i \in DOMAIN opRows : opRows[i] \in Operations
    BY <1>4
  <2> QED
    BY <1>8, <1>12, <2>1 DEF RowsInv
<1>18. SentInv'
  BY <1>8, <1>12 DEF SentInv, SentOnce, Repeated
<1> QED
  BY <1>13, <1>16, <1>17, <1>18

LEMMA ByHandStep ==
  ASSUME DeliveryInv, RetryByHand
  PROVE  DeliveryInv'
<1> USE DEF DeliveryInv
<1>1. PICK k \in Range(opRows), outcome \in SendOutcomes :
        /\ worker = "off" /\ Migrated(opStatus)[k] # "confirmed"
        /\ worded' = (IF Migrated(opStatus)[k] = "uncertain" THEN worded \cup {k} ELSE worded)
        /\ opStatus' = [Migrated(opStatus) EXCEPT ![k] = CASE outcome = "ok" -> "confirmed"
                                                          [] outcome \in {"lost", "heard"} -> "uncertain"
                                                          [] OTHER -> "failed"]
        /\ arrivals' = (IF outcome \in {"ok", "heard"} THEN [arrivals EXCEPT ![k] = @ + 1] ELSE arrivals)
        /\ UNCHANGED <<emitted, worker, mail, held, job, opRows, claimed, echoed>>
  BY DEF RetryByHand
<1>2. k \in Operations /\ opStatus[k] # "none" /\ opRows \in Seq(Operations)
  <2>1. PICK i \in DOMAIN opRows : k = opRows[i]
    BY DEF Range
  <2> QED
    BY <2>1 DEF DeliveryTypes, RowsInv
<1>3. job = NoJob /\ job.at = "idle"
  BY <1>1, JobsAre DEF GateInv
<1>4. PICK s : s = CASE outcome = "ok" -> "confirmed"
                     [] outcome \in {"lost", "heard"} -> "uncertain"
                     [] OTHER -> "failed"
  OBVIOUS
<1>5. /\ s \in {"confirmed", "uncertain", "failed"}
      /\ s = "failed" => outcome \notin {"ok", "heard"}
  BY <1>4 DEF SendOutcomes
<1>6. DOMAIN Migrated(opStatus) = Operations /\ Migrated(opStatus) \in [Operations -> OpStates]
  BY MigratedIs DEF Migrated, Interrupted
<1>7. /\ opStatus' \in [Operations -> OpStates] /\ opStatus'[k] = s
      /\ \A o \in Operations : o # k => opStatus'[o] = Migrated(opStatus)[o]
  <2>1. opStatus' = [Migrated(opStatus) EXCEPT ![k] = s]
    BY <1>1, <1>4
  <2>2. s \in OpStates
    BY <1>5 DEF OpStates
  <2> QED
    BY <1>2, <1>6, <2>1, <2>2
<1>8. /\ arrivals' \in [Operations -> Nat] /\ \A o \in Operations : o # k => arrivals'[o] = arrivals[o]
      /\ outcome \in {"ok", "heard"} => arrivals'[k] = arrivals[k] + 1
      /\ outcome \notin {"ok", "heard"} => arrivals'[k] = arrivals[k]
  BY <1>1, <1>2 DEF DeliveryTypes
<1>9. Repeated \subseteq Repeated' /\ (k \notin Repeated' => arrivals[k] = 0)
  <2>1. Repeated \subseteq Repeated'
    BY <1>1 DEF Repeated
  <2>2. ASSUME k \notin Repeated' PROVE arrivals[k] = 0
    <3>1. Migrated(opStatus)[k] # "uncertain" /\ k \notin Repeated
      BY <1>1, <2>1, <2>2 DEF Repeated
    <3>2. opStatus[k] \in Unsent
      BY <1>1, <1>2, <3>1, MigratedIs DEF Unsent, DeliveryTypes, OpStates
    <3> QED
      BY <1>2, <3>1, <3>2 DEF SentInv
  <2> QED
    BY <2>1, <2>2
<1>10. DeliveryTypes'
  BY <1>1, <1>7, <1>8 DEF DeliveryTypes
<1>11. GateInv'
  BY <1>1 DEF GateInv
<1>12. RowsInv'
  <2>1. \A o \in Operations : opStatus[o] = "none" <=> opStatus'[o] = "none"
    BY <1>2, <1>5, <1>7, MigratedIs
  <2>2. \A i \in DOMAIN opRows : opRows[i] \in Operations
    BY <1>2
  <2> QED
    BY <1>1, <2>1, <2>2 DEF RowsInv
<1>13. SentInv'
  <2>1. \A o \in Operations \ Repeated' : arrivals'[o] <= 1 /\ (opStatus'[o] \in Unsent => arrivals'[o] = 0)
    <3> TAKE o \in Operations \ Repeated'
    <3>1. CASE o = k
      BY <1>5, <1>7, <1>8, <1>9, <3>1 DEF Unsent
    <3>2. CASE o # k
      BY <1>7, <1>8, <1>9, <3>2, MigratedIs DEF Unsent, SentInv, SentOnce, Repeated
    <3> QED
      BY <3>1, <3>2
  <2> QED
    BY <1>1, <1>3, <2>1 DEF SentInv, SentOnce, Repeated
<1> QED
  BY <1>10, <1>11, <1>12, <1>13

LEMMA DeliverySteps == DeliveryInv /\ [DeliveryNext]_deliveryVars => DeliveryInv'
BY EmitStep, StartStep, DispatchStep, RetryStep, BeginStep, SendRequestStep, AnswerStep, StopSteps, ParkStep,
   ByHandStep DEF DeliveryNext

-----------------------------------------------------------------------------
(* TelegramDelivery: the order in which the posts arrive.                      *)

Reached(n) == \A i \in DOMAIN arrived : arrived[i] <= n
ArrivedInv == arrived \in Seq(Messages) /\ TradeInOrder /\ Reached(claimed)

\* The gate keeps the order of the events; nothing in it, nor in hand, is behind
\* what has arrived; an event of this run that was begun is the last one claimed.
WaitsInOrder == \A i, j \in DOMAIN held : i < j => held[i].event <= held[j].event
WaitsAhead == \A i \in DOMAIN held : Reached(held[i].event)
WaitsKnown ==
  \A i \in DOMAIN held :
     /\ held[i].stored => held[i].started /\ opStatus[held[i].key] # "none"
     /\ ~held[i].stored => held[i].key = Post(held[i].event)
     /\ held[i].started /\ ~held[i].stored => held[i].event = claimed
Known(j) ==
  /\ Reached(j.item.event)
  /\ j.item.stored => j.key = j.item.key /\ j.item.started /\ opStatus[j.key] # "none"
  /\ ~j.item.stored =>
        /\ j.item.event = claimed /\ j.item.key = Post(j.item.event)
        /\ \/ j.key = Post(j.item.event)
           \/ /\ j.item.event # 1 /\ j.key = RootEdit(j.item.event)
              /\ opStatus[Post(j.item.event)] = "confirmed" /\ rootSent
QueueInv == WaitsInOrder /\ WaitsAhead /\ WaitsKnown /\ (job # NoJob => Known(job))

\* The rows keep that order too; what is deferred is ahead of what has arrived,
\* and waits in the gate while the worker runs.
RowsInOrder == \A i, j \in DOMAIN opRows : i < j => opRows[i][1] <= opRows[j][1]
HasRow == \A k \in Operations : opStatus[k] # "none" => k \in Range(opRows)
DeferredAhead == \A k \in Operations : opStatus[k] = "deferred" => Reached(k[1])
Witnessed(q, k) == \E i \in DOMAIN q : q[i].event = k[1] /\ (q[i].stored => q[i].key = k)
DeferredWaits == worker # "off" => \A k \in Operations : opStatus[k] = "deferred" => Witnessed(held, k)
RootAfterPost ==
  \A e \in Messages : e # 1 /\ opStatus[RootEdit(e)] # "none" => opStatus[Post(e)] = "confirmed" /\ rootSent
TableInv == RowsInOrder /\ HasRow /\ DeferredAhead /\ DeferredWaits /\ RootAfterPost

OrderInv == ArrivedInv /\ QueueInv /\ TableInv
OrderedDelivery == DeliveryInv /\ OrderInv

LEMMA OrderStarts == DeliveryInit => OrderInv
<1> SUFFICES ASSUME DeliveryInit PROVE OrderInv
  OBVIOUS
<1>1. /\ arrived = <<>> /\ held = <<>> /\ job = NoJob /\ opRows = <<>> /\ \A k \in Operations : opStatus[k] = "none"
  BY DEF DeliveryInit
<1>2. ArrivedInv
  BY <1>1 DEF ArrivedInv, TradeInOrder, Reached
<1>3. QueueInv
  BY <1>1 DEF QueueInv, WaitsInOrder, WaitsAhead, WaitsKnown
<1>4. \A e \in Messages : e # 1 => opStatus[RootEdit(e)] = "none"
  BY <1>1, OperationIs
<1>5. TableInv
  BY <1>1, <1>4 DEF TableInv, RowsInOrder, HasRow, DeferredAhead, DeferredWaits, RootAfterPost
<1> QED
  BY <1>2, <1>3, <1>5 DEF OrderInv

LEMMA OperationsAre ==
  /\ \A k \in Operations : \/ k = Post(k[1])
                           \/ k[1] # 1 /\ k = RootEdit(k[1])
  /\ \A e, f : Post(e) # RootEdit(f)
BY DEF Operations, Post, RootEdit

LEMMA ReachedStays == \A n : arrived' = arrived => (Reached(n)' <=> Reached(n))
BY DEF Reached

LEMMA ReachedFarther ==
  ASSUME arrived \in Seq(Messages), NEW m \in Nat, NEW n \in Nat, m <= n, Reached(m)
  PROVE  Reached(n)
<1>1. \A i \in DOMAIN arrived : arrived[i] \in Messages
  OBVIOUS
<1>2. \A i \in DOMAIN arrived : arrived[i] \in Nat
  BY <1>1, MessagesAreNat
<1> QED
  BY <1>2 DEF Reached

LEMMA EventsAre ==
  ASSUME DeliveryInv
  PROVE  /\ claimed \in Nat /\ emitted \in Nat /\ claimed <= emitted
         /\ \A i \in DOMAIN held : held[i].event \in Nat /\ held[i].event \in Messages /\ held[i].key \in Operations
                                   /\ held[i].stored \in BOOLEAN /\ held[i].started \in BOOLEAN
         /\ job.item.event \in Nat /\ job.item.event \in Messages /\ job.key \in Operations
         /\ \A i \in DOMAIN opRows : opRows[i] \in Operations /\ opRows[i][1] \in Nat /\ opRows[i][1] <= claimed
         /\ \A k \in Operations : k[1] \in Nat
         /\ DOMAIN held = 1..Len(held) /\ Len(held) \in Nat /\ DOMAIN opRows = 1..Len(opRows) /\ Len(opRows) \in Nat
<1>1. DeliveryTypes /\ RowsInv
  BY DEF DeliveryInv
<1>2. claimed \in Nat /\ emitted \in Nat /\ claimed <= emitted
  BY <1>1 DEF DeliveryTypes
<1>3. \A k \in Operations : k[1] \in Nat
  BY OperationIs
<1>4. \A i \in DOMAIN held : held[i] \in Items
  BY <1>1 DEF DeliveryTypes
<1>5. \A i \in DOMAIN held : held[i].event \in Messages /\ held[i].key \in Operations
                             /\ held[i].stored \in BOOLEAN /\ held[i].started \in BOOLEAN
  BY <1>4 DEF Items
<1>6. job.item.event \in Messages /\ job.key \in Operations
  BY <1>1, HeldItems
<1>7. \A i \in DOMAIN opRows : opRows[i] \in Operations /\ opStatus[opRows[i]] # "none"
  BY <1>1 DEF DeliveryTypes, RowsInv
<1>8. ASSUME NEW i \in DOMAIN opRows PROVE opRows[i][1] \in Nat /\ opRows[i][1] <= claimed
  <2>1. PICK n \in Nat : n = opRows[i][1]
    BY <1>3, <1>7
  <2>2. ~(n > claimed)
    BY <1>1, <1>7, <2>1 DEF RowsInv
  <2> QED
    BY <1>2, <2>1, <2>2
<1>9. DOMAIN held = 1..Len(held) /\ Len(held) \in Nat /\ DOMAIN opRows = 1..Len(opRows) /\ Len(opRows) \in Nat
  BY <1>1 DEF DeliveryTypes
<1> QED
  BY <1>2, <1>3, <1>5, <1>6, <1>7, <1>8, <1>9, MessagesAreNat

\* Nothing changes but the worker, the mail and what is emitted.
LEMMA OrderStays ==
  ASSUME OrderInv, UNCHANGED <<held, job, opStatus, opRows, claimed, rootSent, arrived>>, worker' = worker \/ worker # "off"
  PROVE  OrderInv'
<1>1. ArrivedInv'
  BY DEF OrderInv, ArrivedInv, TradeInOrder, Reached
<1>2. QueueInv'
  BY DEF OrderInv, QueueInv, WaitsInOrder, WaitsAhead, WaitsKnown, Known, Reached
<1>3. TableInv'
  BY DEF OrderInv, TableInv, RowsInOrder, HasRow, DeferredAhead, DeferredWaits, RootAfterPost, Reached, Witnessed
<1> QED
  BY <1>1, <1>2, <1>3 DEF OrderInv

\* Without a worker there is no gate and no work.
LEMMA OrderOff ==
  ASSUME OrderInv, worker' = "off", held' = <<>>, job' = NoJob, UNCHANGED <<opStatus, opRows, claimed, rootSent, arrived>>
  PROVE  OrderInv'
<1>1. ArrivedInv'
  BY DEF OrderInv, ArrivedInv, TradeInOrder, Reached
<1>2. QueueInv'
  BY DEF QueueInv, WaitsInOrder, WaitsAhead, WaitsKnown
<1>3. TableInv'
  BY DEF OrderInv, TableInv, RowsInOrder, HasRow, DeferredAhead, DeferredWaits, RootAfterPost, Reached
<1> QED
  BY <1>1, <1>2, <1>3 DEF OrderInv

LEMMA DispatchOrder ==
  ASSUME OrderedDelivery, DispatchEvent
  PROVE  OrderInv'
<1> USE DEF OrderedDelivery
<1>1. PICK e : e = Head(mail)
  OBVIOUS
<1>2. /\ worker # "off" /\ job = NoJob /\ mail # <<>>
      /\ UNCHANGED <<emitted, worker, opStatus, opRows, rootSent, arrived>>
  BY DEF DispatchEvent, chat
<1>3. e = mail[1] /\ 1 \in DOMAIN mail /\ e \in Messages /\ e \in Nat
  <2>1. mail \in Seq(Messages) /\ mail # <<>>
    BY <1>2 DEF DeliveryInv, DeliveryTypes
  <2>2. e = mail[1] /\ 1 \in DOMAIN mail /\ e \in Messages
    BY <1>1, <2>1
  <2> QED
    BY <2>2, MessagesAreNat
<1>4. e > claimed /\ (\A i \in DOMAIN held : e > held[i].event) /\ claimed \in Nat
  BY <1>3, EventsAre DEF DeliveryInv, GateInv
<1>5. /\ EventItem(e) \in Items /\ EventItem(e).event = e /\ EventItem(e).key = Post(e) /\ ~EventItem(e).started /\ ~EventItem(e).stored
  BY <1>3, ItemsAre
<1>6. Reached(e)
  BY <1>3, <1>4, ReachedFarther DEF OrderInv, ArrivedInv
<1>7. CASE MustWait
  <2>1. held' = Append(held, EventItem(e)) /\ job' = NoJob /\ claimed' = claimed
    BY <1>1, <1>7 DEF DispatchEvent
  <2>2. /\ DOMAIN held' = 1..Len(held) + 1 /\ DOMAIN held = 1..Len(held) /\ Len(held) \in Nat
        /\ held'[Len(held) + 1] = EventItem(e) /\ \A i \in DOMAIN held : held'[i] = held[i]
    BY <1>5, <2>1 DEF DeliveryInv, DeliveryTypes
  <2>3. \A i \in DOMAIN held' : (i \in DOMAIN held /\ held'[i] = held[i]) \/ (i = Len(held) + 1 /\ held'[i] = EventItem(e))
    BY <2>2
  <2>4. ArrivedInv'
    BY <1>2, <2>1, ReachedStays DEF OrderInv, ArrivedInv, TradeInOrder
  <2>5. WaitsInOrder'
    <3> SUFFICES ASSUME NEW i \in DOMAIN held', NEW j \in DOMAIN held', i < j PROVE held'[i].event <= held'[j].event
      BY DEF WaitsInOrder
    <3>1. i \in DOMAIN held /\ held'[i] = held[i]
      BY <2>2, <2>3
    <3>2. CASE j \in DOMAIN held /\ held'[j] = held[j]
      BY <3>1, <3>2 DEF OrderInv, QueueInv, WaitsInOrder
    <3>3. CASE held'[j] = EventItem(e)
      <4>1. held[i].event \in Nat
        BY <3>1, EventsAre
      <4> QED
        BY <1>3, <1>4, <1>5, <3>1, <3>3, <4>1
    <3> QED
      BY <2>3, <3>2, <3>3
  <2>6. WaitsAhead'
    BY <1>2, <1>5, <1>6, <2>3, ReachedStays DEF OrderInv, QueueInv, WaitsAhead
  <2>7. WaitsKnown'
    BY <1>2, <1>5, <2>1, <2>3 DEF OrderInv, QueueInv, WaitsKnown
  <2>8. QueueInv'
    BY <2>1, <2>5, <2>6, <2>7 DEF QueueInv
  <2>9. DeferredWaits'
    BY <1>2, <2>2 DEF OrderInv, TableInv, DeferredWaits, Witnessed
  <2>10. TableInv'
    BY <1>2, <2>9, ReachedStays DEF OrderInv, TableInv, RowsInOrder, HasRow, DeferredAhead, RootAfterPost
  <2> QED
    BY <2>4, <2>8, <2>10 DEF OrderInv
<1>8. CASE ~MustWait
  <2>1. held = <<>> /\ held' = <<>> /\ DOMAIN held' = {}
    BY <1>8 DEF DispatchEvent, MustWait, HeldUp
  <2>2. Claims(EventItem(e))
    BY <1>4, <1>5 DEF Claims
  <2>3. job' = Working(EventItem(e), Post(e)) /\ claimed' = e
    BY <1>1, <1>5, <1>8, <2>2 DEF DispatchEvent
  <2>4. job'.item = EventItem(e) /\ job'.key = Post(e)
    BY <1>3, <1>5, <2>3, OperationIs, JobsAre
  <2>5. ArrivedInv'
    BY <1>2, <1>6, <2>3, ReachedStays DEF OrderInv, ArrivedInv, TradeInOrder
  <2>6. QueueInv'
    BY <1>2, <1>5, <1>6, <2>1, <2>3, <2>4, ReachedStays DEF QueueInv, WaitsInOrder, WaitsAhead, WaitsKnown, Known
  <2>7. DeferredWaits'
    BY <1>2, <2>1 DEF OrderInv, TableInv, DeferredWaits, Witnessed
  <2>8. TableInv'
    BY <1>2, <2>7, ReachedStays DEF OrderInv, TableInv, RowsInOrder, HasRow, DeferredAhead, RootAfterPost
  <2> QED
    BY <2>5, <2>6, <2>8 DEF OrderInv
<1> QED
  BY <1>7, <1>8

LEMMA RetryOrder ==
  ASSUME OrderedDelivery, RetryHeld
  PROVE  OrderInv'
<1> USE DEF OrderedDelivery
<1>1. PICK h : h = held[1]
  OBVIOUS
<1>2. /\ worker # "off" /\ worker = "run" /\ job = NoJob /\ held # <<>> /\ Head(held) = h /\ 1 \in DOMAIN held
      /\ UNCHANGED <<emitted, worker, mail, opStatus, opRows, rootSent, arrived>>
  BY <1>1 DEF RetryHeld, DeliveryInv, DeliveryTypes, chat
<1>3. h \in Items /\ h.event \in Messages /\ h.key \in Operations /\ h.event \in Nat /\ claimed \in Nat
  BY <1>1, <1>2, HeldItems, EventsAre DEF DeliveryInv
<1>4. (h.started => h.event <= claimed) /\ (~h.started => h.event > claimed)
  BY <1>1, <1>2 DEF DeliveryInv, GateInv
<1>5. Claims(h)
  BY <1>4 DEF Claims
<1>6. job' = Working(h, h.key) /\ held' = held /\ claimed' = IF ~h.started THEN h.event ELSE claimed
  BY <1>2, <1>5 DEF RetryHeld
<1>7. job'.item = h /\ job'.key = h.key
  BY <1>3, <1>6, JobsAre
<1>8. claimed <= claimed' /\ claimed' \in Nat
  BY <1>3, <1>4, <1>6
<1>9. ArrivedInv'
  BY <1>2, <1>3, <1>8, ReachedFarther, ReachedStays DEF OrderInv, ArrivedInv, TradeInOrder
<1>10. ASSUME NEW i \in DOMAIN held, held[i].started, ~held[i].stored PROVE held[i].event = claimed'
  <2>1. held[i].event = claimed
    BY <1>10 DEF OrderInv, QueueInv, WaitsKnown
  <2>2. CASE h.started
    BY <1>6, <2>1, <2>2
  <2>3. CASE ~h.started
    <3>1. i # 1
      BY <1>1, <1>10, <2>3
    <3>2. 1 < i
      BY <1>10, <3>1, EventsAre
    <3>3. h.event <= held[i].event
      BY <1>1, <1>2, <1>10, <3>2 DEF OrderInv, QueueInv, WaitsInOrder
    <3> QED
      BY <1>3, <1>4, <2>1, <2>3, <3>3
  <2> QED
    BY <2>2, <2>3
<1>11. Known(job)'
  <2>1. Reached(h.event)'
    BY <1>1, <1>2, ReachedStays DEF OrderInv, QueueInv, WaitsAhead
  <2>2. h.stored => h.started /\ opStatus'[h.key] # "none"
    BY <1>1, <1>2 DEF OrderInv, QueueInv, WaitsKnown
  <2>3. ~h.stored => h.event = claimed' /\ h.key = Post(h.event)
    BY <1>1, <1>2, <1>4, <1>6, <1>10 DEF OrderInv, QueueInv, WaitsKnown
  <2> QED
    BY <1>7, <2>1, <2>2, <2>3 DEF Known
<1>12. QueueInv'
  <2>1. WaitsInOrder'
    BY <1>6 DEF OrderInv, QueueInv, WaitsInOrder
  <2>2. WaitsAhead'
    BY <1>2, <1>6, ReachedStays DEF OrderInv, QueueInv, WaitsAhead
  <2>3. WaitsKnown'
    BY <1>2, <1>6, <1>10 DEF OrderInv, QueueInv, WaitsKnown
  <2> QED
    BY <1>11, <2>1, <2>2, <2>3 DEF QueueInv
<1>13. TableInv'
  BY <1>2, <1>6, ReachedStays DEF OrderInv, TableInv, RowsInOrder, HasRow, DeferredAhead, RootAfterPost, DeferredWaits, Witnessed
<1> QED
  BY <1>9, <1>12, <1>13 DEF OrderInv

\* What the item in hand is: the head of the gate, with its own operation.
LEMMA InHandIs ==
  ASSUME OrderedDelivery, job # NoJob
  PROVE  /\ Known(job) /\ job.key[1] = job.item.event /\ job.item.event <= claimed /\ worker # "off"
         /\ held # <<>> => Head(held) = held[1] /\ held[1] = job.item /\ 1 \in DOMAIN held
         /\ FromHeld <=> held # <<>>
<1>1. DeliveryTypes /\ GateInv
  BY DEF OrderedDelivery, DeliveryInv
<1> QED
  BY <1>1, HeadInHand DEF OrderedDelivery, OrderInv, QueueInv, GateInv

LEMMA SendOrder ==
  ASSUME OrderedDelivery, SendRequest
  PROVE  OrderInv'
<1> USE DEF OrderedDelivery
<1>1. PICK k : k = job.key
  OBVIOUS
<1>2. PICK outcome \in SendOutcomes :
         /\ job.at = "request" /\ job' = [job EXCEPT !.at = outcome, !.doubt = @ \/ outcome \in {"lost", "heard"}]
         /\ IF outcome \in {"ok", "heard"} THEN CallArrives(k) ELSE UNCHANGED <<arrivals, arrived>>
         /\ UNCHANGED <<emitted, worker, mail, held, opStatus, opRows, claimed, rootSent>>
  BY <1>1 DEF SendRequest, SendOutcomes, delivery
<1>3. job # NoJob /\ job \in Jobs
  BY <1>2, JobsAre DEF DeliveryInv, DeliveryTypes
<1>4. job'.item = job.item /\ job'.key = k
  BY <1>1, <1>2, <1>3 DEF Jobs
<1>5. /\ Known(job) /\ k[1] = job.item.event /\ job.item.event <= claimed /\ worker # "off"
      /\ held # <<>> => held[1] = job.item /\ 1 \in DOMAIN held
  BY <1>1, <1>3, InHandIs
<1>6. PICK e \in Nat : e = job.item.event /\ e \in Messages /\ e <= claimed /\ claimed \in Nat /\ Reached(e)
  BY <1>5, EventsAre DEF Known
<1>7. arrived' = arrived \/ arrived' = Append(arrived, e)
  BY <1>2, <1>5, <1>6 DEF CallArrives
<1>8. \A n \in Nat : e <= n /\ Reached(n) => Reached(n)'
  BY <1>6, <1>7 DEF OrderInv, ArrivedInv, Reached
<1>9. Reached(e)' /\ Reached(claimed)'
  BY <1>2, <1>6, <1>8 DEF OrderInv, ArrivedInv
<1>10. ArrivedInv'
  <2>1. arrived' \in Seq(Messages)
    BY <1>6, <1>7 DEF OrderInv, ArrivedInv
  <2>2. CASE arrived' = arrived
    BY <1>2, <1>9, <2>1, <2>2 DEF OrderInv, ArrivedInv, TradeInOrder, Reached
  <2>3. CASE arrived' = Append(arrived, e)
    <3>1. /\ DOMAIN arrived' = 1..Len(arrived) + 1 /\ DOMAIN arrived = 1..Len(arrived) /\ Len(arrived) \in Nat
          /\ arrived'[Len(arrived) + 1] = e /\ \A i \in DOMAIN arrived : arrived'[i] = arrived[i]
      BY <1>6, <2>3 DEF OrderInv, ArrivedInv
    <3>2. ASSUME NEW i \in DOMAIN arrived', NEW j \in DOMAIN arrived', i < j PROVE arrived'[i] <= arrived'[j]
      <4>1. i \in DOMAIN arrived /\ arrived'[i] = arrived[i]
        BY <3>1, <3>2
      <4>2. CASE j \in DOMAIN arrived
        BY <3>1, <3>2, <4>1, <4>2 DEF OrderInv, ArrivedInv, TradeInOrder
      <4>3. CASE j = Len(arrived) + 1
        BY <1>6, <3>1, <4>1, <4>3 DEF Reached
      <4> QED
        BY <3>1, <4>2, <4>3
    <3>3. TradeInOrder'
      BY <3>2 DEF TradeInOrder
    <3> QED
      BY <1>2, <1>9, <2>1, <3>3 DEF ArrivedInv, Reached
  <2> QED
    BY <1>7, <2>2, <2>3
<1>11. \A i \in DOMAIN held : e <= held[i].event
  <2> TAKE i \in DOMAIN held
  <2>1. held[1] = job.item /\ 1 \in DOMAIN held /\ (i = 1 \/ 1 < i)
    BY <1>5, EventsAre
  <2>2. CASE i = 1
    BY <1>6, <2>1, <2>2
  <2>3. CASE 1 < i
    BY <1>6, <2>1, <2>3 DEF OrderInv, QueueInv, WaitsInOrder
  <2> QED
    BY <2>1, <2>2, <2>3
<1>12. QueueInv'
  <2>1. WaitsAhead'
    BY <1>2, <1>8, <1>11, EventsAre DEF OrderInv, QueueInv, WaitsAhead
  <2>2. WaitsInOrder' /\ WaitsKnown'
    BY <1>2 DEF OrderInv, QueueInv, WaitsInOrder, WaitsKnown
  <2>3. Known(job)'
    BY <1>1, <1>2, <1>4, <1>5, <1>6, <1>9 DEF Known
  <2> QED
    BY <2>1, <2>2, <2>3 DEF QueueInv
<1>13. DeferredAhead'
  <2> SUFFICES ASSUME NEW o \in Operations, opStatus[o] = "deferred" PROVE Reached(o[1])'
    BY <1>2 DEF DeferredAhead
  <2>1. PICK i \in DOMAIN held : held[i].event = o[1]
    BY <1>5 DEF OrderInv, TableInv, DeferredWaits, Witnessed
  <2>2. Reached(o[1]) /\ o[1] \in Nat
    BY EventsAre DEF OrderInv, TableInv, DeferredAhead
  <2> QED
    BY <1>8, <1>11, <2>1, <2>2
<1>14. TableInv'
  BY <1>2, <1>13 DEF OrderInv, TableInv, RowsInOrder, HasRow, DeferredWaits, Witnessed, RootAfterPost
<1> QED
  BY <1>10, <1>12, <1>14 DEF OrderInv

\* Of an event of this run two operations are never open at once: the other one
\* is deferred only where the post is confirmed and the root is known.
LEMMA OneOpen ==
  ASSUME OrderedDelivery, job # NoJob, ~job.item.stored, NEW k \in Operations, k # job.key, k[1] = job.item.event,
         opStatus[k] = "deferred"
  PROVE  /\ job.key = Post(job.item.event) /\ job.item.event # 1 /\ rootSent /\ opStatus[job.key] = "confirmed"
<1>1. Known(job)
  BY InHandIs
<1>2. job.item.event \in Messages
  BY EventsAre DEF OrderedDelivery
<1>3. k = Post(job.item.event) \/ (job.item.event # 1 /\ k = RootEdit(job.item.event))
  BY OperationsAre
<1>4. k # Post(job.item.event)
  BY <1>1 DEF Known
<1>5. opStatus[Post(job.item.event)] = "confirmed" /\ rootSent
  BY <1>2, <1>3, <1>4 DEF OrderedDelivery, OrderInv, TableInv, RootAfterPost
<1> QED
  BY <1>1, <1>3, <1>4, <1>5 DEF Known

\* The item in hand is over.
LEMMA DoneQueue ==
  ASSUME OrderedDelivery, job # NoJob, ItemDone, UNCHANGED <<worker, claimed, arrived>>,
         \A k \in Operations : opStatus[k] # "none" => opStatus'[k] # "none",
         \A k \in Operations : opStatus'[k] = "deferred" =>
             opStatus[k] = "deferred" /\ k # job.key /\ (k[1] = job.item.event => job.item.stored)
  PROVE  QueueInv' /\ DeferredWaits'
<1>1. /\ Known(job) /\ worker # "off" /\ job' = NoJob
      /\ held # <<>> => held[1] = job.item /\ 1 \in DOMAIN held
      /\ held' = (IF held # <<>> THEN Tail(held) ELSE held)
  BY InHandIs DEF ItemDone
<1>2. CASE held = <<>>
  <2>1. held' = <<>>
    BY <1>1, <1>2
  <2>2. QueueInv'
    BY <1>1, <2>1 DEF QueueInv, WaitsInOrder, WaitsAhead, WaitsKnown
  <2>3. \A k \in Operations : opStatus[k] # "deferred"
    BY <1>1, <1>2 DEF OrderedDelivery, OrderInv, TableInv, DeferredWaits, Witnessed
  <2> QED
    BY <2>2, <2>3 DEF DeferredWaits
<1>3. CASE held # <<>>
  <2>1. held' = Tail(held) /\ held \in Seq(Items)
    BY <1>1, <1>3 DEF OrderedDelivery, DeliveryInv, DeliveryTypes
  <2>2. PICK n \in Nat : n = Len(held) - 1 /\ DOMAIN held = 1..n + 1 /\ DOMAIN held' = 1..n
        /\ \A i \in 1..n : i + 1 \in DOMAIN held /\ held'[i] = held[i + 1]
    BY <1>3, <2>1
  <2>3. \A i \in DOMAIN held' : \E j \in DOMAIN held : held'[i] = held[j]
    BY <2>2
  <2>4. WaitsInOrder'
    <3> SUFFICES ASSUME NEW i \in 1..n, NEW j \in 1..n, i < j PROVE held'[i].event <= held'[j].event
      BY <2>2 DEF WaitsInOrder
    <3>1. i + 1 \in DOMAIN held /\ j + 1 \in DOMAIN held /\ i + 1 < j + 1 /\ held'[i] = held[i + 1] /\ held'[j] = held[j + 1]
      BY <2>2
    <3> QED
      BY <3>1 DEF OrderedDelivery, OrderInv, QueueInv, WaitsInOrder
  <2>5. WaitsAhead'
    BY <2>3, ReachedStays DEF OrderedDelivery, OrderInv, QueueInv, WaitsAhead
  <2>6. WaitsKnown'
    <3> SUFFICES ASSUME NEW i \in DOMAIN held'
                 PROVE  /\ held'[i].stored => held'[i].started /\ opStatus'[held'[i].key] # "none"
                        /\ ~held'[i].stored => held'[i].key = Post(held'[i].event)
                        /\ held'[i].started /\ ~held'[i].stored => held'[i].event = claimed
      BY DEF WaitsKnown
    <3>1. PICK j \in DOMAIN held : held'[i] = held[j]
      BY <2>3
    <3>2. held[j].key \in Operations
      BY EventsAre DEF OrderedDelivery
    <3> QED
      BY <3>1, <3>2 DEF OrderedDelivery, OrderInv, QueueInv, WaitsKnown
  <2>7. QueueInv'
    BY <1>1, <2>4, <2>5, <2>6 DEF QueueInv
  <2>8. ASSUME NEW k \in Operations, opStatus'[k] = "deferred" PROVE Witnessed(held', k)
    <3>1. opStatus[k] = "deferred" /\ k # job.key /\ (k[1] = job.item.event => job.item.stored)
      BY <2>8
    <3>2. PICK i \in DOMAIN held : held[i].event = k[1] /\ (held[i].stored => held[i].key = k)
      BY <1>1, <3>1 DEF OrderedDelivery, OrderInv, TableInv, DeferredWaits, Witnessed
    <3>3. i # 1
      <4>1. ASSUME i = 1 PROVE FALSE
        <5>1. held[i] = job.item
          BY <1>1, <1>3, <4>1
        <5>2. job.item.stored /\ job.key = job.item.key
          BY <1>1, <3>1, <3>2, <5>1 DEF Known
        <5> QED
          BY <3>1, <3>2, <5>1, <5>2
      <4> QED
        BY <4>1
    <3>4. PICK j \in 1..n : i = j + 1
      <4>1. i - 1 \in 1..n /\ i = (i - 1) + 1
        BY <2>2, <3>2, <3>3
      <4> QED
        BY <4>1
    <3>5. j \in DOMAIN held' /\ held'[j] = held[i]
      BY <2>2, <3>4
    <3> QED
      BY <3>2, <3>5 DEF Witnessed
  <2> QED
    BY <2>7, <2>8 DEF DeferredWaits, Witnessed
<1> QED
  BY <1>2, <1>3

\* What follows an operation that is confirmed.
LEMMA NextQueue ==
  ASSUME OrderedDelivery, job # NoJob, NextStep(job.key), UNCHANGED <<worker, claimed, arrived>>,
         opStatus'[job.key] = "confirmed", \A k \in Operations : k # job.key => opStatus'[k] = opStatus[k]
  PROVE  QueueInv' /\ DeferredWaits' /\ (rootSent => rootSent')
<1>1. Known(job) /\ worker # "off" /\ (rootSent => rootSent') /\ job.key \in Operations
  BY InHandIs, EventsAre DEF NextStep, OrderedDelivery
<1>2. \A k \in Operations : opStatus'[k] = "deferred" => opStatus[k] = "deferred" /\ k # job.key
  BY <1>1
<1>3. \A k \in Operations : opStatus[k] # "none" => opStatus'[k] # "none"
  BY <1>1
<1>4. CASE job.key = Post(job.item.event) /\ ~job.item.stored /\ job.key # Post(1) /\ rootSent
  <2>1. job' = Working(job.item, RootEdit(job.item.event)) /\ held' = held
    BY <1>4 DEF NextStep
  <2>2. job.item \in Items /\ job.item.event \in Messages /\ job.item.event # 1
    BY <1>4, HeldItems DEF OrderedDelivery, DeliveryInv
  <2>3. job'.item = job.item /\ job'.key = RootEdit(job.item.event)
    <3>1. RootEdit(job.item.event) \in Operations
      BY <2>2, OperationIs
    <3> QED
      BY <2>1, <2>2, <3>1, JobsAre
  <2>4. Known(job)'
    BY <1>1, <1>4, <2>2, <2>3, ReachedStays DEF Known
  <2>5. WaitsKnown'
    <3>1. \A i \in DOMAIN held : held[i].key \in Operations
      BY EventsAre DEF OrderedDelivery
    <3> QED
      BY <1>3, <2>1, <3>1 DEF OrderedDelivery, OrderInv, QueueInv, WaitsKnown
  <2>6. QueueInv'
    BY <2>1, <2>4, <2>5, ReachedStays DEF OrderedDelivery, OrderInv, QueueInv, WaitsInOrder, WaitsAhead
  <2>7. DeferredWaits'
    BY <1>1, <1>2, <2>1 DEF OrderedDelivery, OrderInv, TableInv, DeferredWaits, Witnessed
  <2> QED
    BY <1>1, <2>6, <2>7
<1>5. CASE ~(job.key = Post(job.item.event) /\ ~job.item.stored /\ job.key # Post(1) /\ rootSent)
  <2>1. ItemDone
    BY <1>5 DEF NextStep
  <2>2. ASSUME NEW k \in Operations, opStatus'[k] = "deferred", k[1] = job.item.event, ~job.item.stored PROVE FALSE
    <3>1. job.key = Post(job.item.event) /\ job.item.event # 1 /\ rootSent
      BY <1>2, <2>2, OneOpen
    <3>2. Post(job.item.event) # Post(1)
      BY <3>1 DEF Post
    <3> QED
      BY <1>5, <2>2, <3>1, <3>2
  <2>3. \A k \in Operations : opStatus'[k] = "deferred" =>
             opStatus[k] = "deferred" /\ k # job.key /\ (k[1] = job.item.event => job.item.stored)
    BY <1>2, <2>2
  <2> QED
    BY <1>1, <1>3, <2>1, <2>3, DoneQueue
<1> QED
  BY <1>4, <1>5

LEMMA BeginOrder ==
  ASSUME OrderedDelivery, BeginOperation
  PROVE  OrderInv'
<1>1. PICK k : k = job.key
  OBVIOUS
<1>2. /\ job.at = "operation" /\ job # NoJob /\ k \in Operations /\ job \in Jobs
      /\ UNCHANGED <<emitted, worker, mail, claimed, arrived>>
  BY <1>1, JobsAre, HeldItems DEF BeginOperation, OrderedDelivery, DeliveryInv, DeliveryTypes, chat
<1>3. Known(job) /\ k[1] = job.item.event /\ worker # "off"
  BY <1>1, <1>2, InHandIs
<1>4. ArrivedInv'
  BY <1>2, ReachedStays DEF OrderedDelivery, OrderInv, ArrivedInv, TradeInOrder
<1>5. CASE Sendable(k)
  <2>1. PICK s \in {"pending", "attempting"} :
            /\ opStatus' = [opStatus EXCEPT ![k] = s]
            /\ job' = job \/ job' = [job EXCEPT !.at = "request"]
            /\ opRows' = (IF opStatus[k] = "none" THEN Append(opRows, k) ELSE opRows) /\ held' = held /\ rootSent' = rootSent
    BY <1>1, <1>5 DEF BeginOperation
  <2>2. job'.item = job.item /\ job'.key = k
    BY <1>1, <1>2, <2>1 DEF Jobs
  <2>3. /\ opStatus'[k] = s /\ \A o \in Operations : o # k => opStatus'[o] = opStatus[o]
    <3>1. opStatus \in [Operations -> OpStates]
      BY DEF OrderedDelivery, DeliveryInv, DeliveryTypes
    <3>2. opStatus' = [opStatus EXCEPT ![k] = s]
      BY <2>1
    <3> QED
      BY <1>2, <3>1, <3>2
  <2>4. opStatus[k] # "confirmed"
    BY <1>5 DEF Sendable
  <2>5. QueueInv'
    <3>1. Known(job)'
      <4>1. ~job.item.stored => job.key = Post(job.item.event) \/ Post(job.item.event) # k
        BY <1>1, <1>3, OperationsAre DEF Known
      <4>2. Post(job.item.event) \in Operations
        BY OperationIs, EventsAre DEF OrderedDelivery
      <4> QED
        BY <1>1, <1>2, <1>3, <2>1, <2>2, <2>3, <4>1, <4>2, ReachedStays DEF Known
    <3>2. WaitsKnown'
      <4>1. \A i \in DOMAIN held : held[i].key \in Operations
        BY EventsAre DEF OrderedDelivery
      <4> QED
        BY <1>2, <2>1, <2>3, <4>1 DEF OrderedDelivery, OrderInv, QueueInv, WaitsKnown
    <3> QED
      BY <1>2, <2>1, <3>1, <3>2, ReachedStays DEF OrderedDelivery, OrderInv, QueueInv, WaitsInOrder, WaitsAhead
  <2>6. RowsInOrder' /\ HasRow'
    <3>1. CASE opStatus[k] # "none"
      <4>1. k \in Range(opRows)
        BY <1>2, <3>1 DEF OrderedDelivery, OrderInv, TableInv, HasRow
      <4> QED
        BY <2>1, <2>3, <3>1, <4>1 DEF OrderedDelivery, OrderInv, TableInv, RowsInOrder, HasRow
    <3>2. CASE opStatus[k] = "none"
      <4>1. k[1] = claimed
        BY <1>1, <1>3, <3>2 DEF Known
      <4>2. opRows \in Seq(Operations) /\ opRows' = Append(opRows, k)
        BY <2>1, <3>2 DEF OrderedDelivery, DeliveryInv, DeliveryTypes
      <4>3. /\ DOMAIN opRows' = 1..Len(opRows) + 1 /\ DOMAIN opRows = 1..Len(opRows) /\ Len(opRows) \in Nat
            /\ opRows'[Len(opRows) + 1] = k /\ \A i \in DOMAIN opRows : opRows'[i] = opRows[i]
        BY <1>2, <4>2
      <4>4. ASSUME NEW i \in DOMAIN opRows', NEW j \in DOMAIN opRows', i < j PROVE opRows'[i][1] <= opRows'[j][1]
        <5>1. i \in DOMAIN opRows /\ opRows'[i] = opRows[i]
          BY <4>3, <4>4
        <5>2. CASE j \in DOMAIN opRows
          BY <4>3, <4>4, <5>1, <5>2 DEF OrderedDelivery, OrderInv, TableInv, RowsInOrder
        <5>3. CASE j = Len(opRows) + 1
          <6>1. opRows[i][1] <= claimed
            BY <5>1, EventsAre DEF OrderedDelivery
          <6> QED
            BY <4>1, <4>3, <5>1, <5>3, <6>1
        <5> QED
          BY <4>3, <5>2, <5>3
      <4>5. k \in Range(opRows')
        BY <4>3 DEF Range
      <4>6. Range(opRows) \subseteq Range(opRows')
        BY <4>3 DEF Range
      <4>7. HasRow'
        BY <2>3, <4>5, <4>6 DEF OrderedDelivery, OrderInv, TableInv, HasRow
      <4> QED
        BY <4>4, <4>7 DEF RowsInOrder
    <3> QED
      BY <3>1, <3>2
  <2>7. DeferredAhead' /\ DeferredWaits'
    BY <1>2, <2>1, <2>3, ReachedStays DEF OrderedDelivery, OrderInv, TableInv, DeferredAhead, DeferredWaits, Witnessed
  <2>8. RootAfterPost'
    <3> SUFFICES ASSUME NEW e \in Messages, e # 1, opStatus'[RootEdit(e)] # "none"
                 PROVE  opStatus'[Post(e)] = "confirmed" /\ rootSent
      BY <2>1 DEF RootAfterPost
    <3>1. RootEdit(e) \in Operations /\ Post(e) \in Operations /\ Post(e) # RootEdit(e)
      BY OperationIs, OperationsAre
    <3>2. opStatus[Post(e)] = "confirmed" /\ rootSent
      <4>1. CASE opStatus[RootEdit(e)] # "none"
        BY <4>1 DEF OrderedDelivery, OrderInv, TableInv, RootAfterPost
      <4>2. CASE opStatus[RootEdit(e)] = "none"
        <5>1. k = RootEdit(e)
          BY <2>3, <3>1, <4>2
        <5>2. ~job.item.stored /\ k[1] = e
          BY <1>1, <1>3, <4>2, <5>1, OperationIs DEF Known
        <5> QED
          BY <1>1, <1>3, <3>1, <5>1, <5>2 DEF Known
      <4> QED
        BY <4>1, <4>2
    <3> QED
      BY <2>3, <2>4, <3>1, <3>2
  <2> QED
    BY <1>4, <2>5, <2>6, <2>7, <2>8 DEF OrderInv, TableInv
<1>6. CASE ~Sendable(k)
  <2>1. /\ \/ opStatus[k] = "confirmed" /\ NextStep(k)
           \/ opStatus[k] # "confirmed" /\ ItemDone /\ rootSent' = rootSent
        /\ UNCHANGED <<opStatus, opRows>>
    BY <1>1, <1>6 DEF BeginOperation
  <2>2. QueueInv' /\ DeferredWaits' /\ (rootSent => rootSent')
    <3>1. CASE opStatus[k] = "confirmed" /\ NextStep(k)
      BY <1>1, <1>2, <2>1, <3>1, NextQueue
    <3>2. CASE opStatus[k] # "confirmed" /\ ItemDone /\ rootSent' = rootSent
      <4>1. \A o \in Operations : opStatus'[o] = "deferred" =>
               opStatus[o] = "deferred" /\ o # job.key /\ (o[1] = job.item.event => job.item.stored)
        BY <1>1, <1>2, <1>6, <2>1, <3>2, OneOpen DEF Sendable
      <4> QED
        BY <1>2, <2>1, <3>2, <4>1, DoneQueue
    <3> QED
      BY <2>1, <3>1, <3>2
  <2>3. TableInv'
    BY <1>2, <2>1, <2>2, ReachedStays DEF OrderedDelivery, OrderInv, TableInv, RowsInOrder, HasRow, DeferredAhead, RootAfterPost
  <2> QED
    BY <1>4, <2>2, <2>3 DEF OrderInv
<1> QED
  BY <1>5, <1>6

\* An operation that was under way is settled.
LEMMA SettledTable ==
  ASSUME OrderedDelivery, job # NoJob, opStatus[job.key] = "attempting", NEW s \in OpStates, s # "none",
         opStatus' = [opStatus EXCEPT ![job.key] = s], UNCHANGED <<opRows, arrived>>, rootSent => rootSent', DeferredWaits'
  PROVE  TableInv'
<1>1. Known(job) /\ job.key[1] = job.item.event /\ job.key \in Operations
  BY InHandIs, EventsAre DEF OrderedDelivery
<1>2. opStatus'[job.key] = s /\ \A k \in Operations : k # job.key => opStatus'[k] = opStatus[k]
  BY <1>1 DEF OrderedDelivery, DeliveryInv, DeliveryTypes
<1>3. RowsInOrder'
  BY DEF OrderedDelivery, OrderInv, TableInv, RowsInOrder
<1>4. HasRow'
  BY <1>2 DEF OrderedDelivery, OrderInv, TableInv, HasRow
<1>5. DeferredAhead'
  BY <1>1, <1>2, ReachedStays DEF OrderedDelivery, OrderInv, TableInv, DeferredAhead, Known
<1>6. RootAfterPost'
  <2> SUFFICES ASSUME NEW e \in Messages, e # 1, opStatus'[RootEdit(e)] # "none"
               PROVE  opStatus'[Post(e)] = "confirmed" /\ rootSent'
    BY DEF RootAfterPost
  <2>1. RootEdit(e) \in Operations /\ Post(e) \in Operations
    BY OperationIs
  <2>2. opStatus[RootEdit(e)] # "none"
    BY <1>2, <2>1
  <2>3. opStatus[Post(e)] = "confirmed" /\ rootSent
    BY <2>2 DEF OrderedDelivery, OrderInv, TableInv, RootAfterPost
  <2>4. Post(e) # job.key
    BY <2>3
  <2> QED
    BY <1>2, <2>1, <2>3, <2>4
<1> QED
  BY <1>3, <1>4, <1>5, <1>6 DEF TableInv

\* The item in hand goes to the head of the gate, to be tried again.
LEMMA DeferredQueue ==
  ASSUME OrderedDelivery, job # NoJob, opStatus[job.key] = "attempting", job' = NoJob,
         opStatus' = [opStatus EXCEPT ![job.key] = "deferred"], UNCHANGED <<arrived, claimed, worker>>,
         held' = <<Deferred>> \o (IF FromHeld THEN Tail(held) ELSE <<>>)
  PROVE  QueueInv' /\ DeferredWaits'
<1>1. /\ Known(job) /\ job.key[1] = job.item.event /\ job.key \in Operations
      /\ held # <<>> => held[1] = job.item /\ 1 \in DOMAIN held
      /\ FromHeld <=> held # <<>>
  BY InHandIs, EventsAre DEF OrderedDelivery
<1>2. PICK item \in Items : item = job.item
  BY HeldItems DEF OrderedDelivery, DeliveryInv
<1>3. PICK d : d = Deferred
  OBVIOUS
<1>4. d \in Items /\ d.event = item.event /\ d.key = item.key /\ d.stored = item.stored /\ d.started
  BY <1>2, <1>3 DEF Deferred, Items
<1>5. opStatus'[job.key] = "deferred" /\ \A k \in Operations : k # job.key => opStatus'[k] = opStatus[k]
  BY <1>1 DEF OrderedDelivery, DeliveryInv, DeliveryTypes
<1>6. PICK q : q = IF FromHeld THEN Tail(held) ELSE <<>>
  OBVIOUS
<1>7. /\ q \in Seq(Items) /\ Len(q) \in Nat /\ DOMAIN q = 1..Len(q)
      /\ \A i \in DOMAIN q : i + 1 \in DOMAIN held /\ q[i] = held[i + 1]
      /\ held # <<>> => DOMAIN held = 1..Len(q) + 1
  <2>1. CASE held = <<>>
    BY <1>1, <1>6, <2>1
  <2>2. CASE held # <<>>
    <3>1. q = Tail(held) /\ held \in Seq(Items)
      BY <1>1, <1>6, <2>2 DEF OrderedDelivery, DeliveryInv, DeliveryTypes
    <3> QED
      BY <2>2, <3>1
  <2> QED
    BY <2>1, <2>2
<1>8. PICK r : r = <<d>> \o q
  OBVIOUS
<1>9. /\ r \in Seq(Items) /\ Len(r) = Len(q) + 1 /\ r[1] = d
      /\ \A i \in 1..Len(q) + 1 : i # 1 => i - 1 \in DOMAIN q /\ r[i] = q[i - 1]
  BY <1>4, <1>7, <1>8, PutBefore
<1>10. held' = r /\ DOMAIN r = 1..Len(q) + 1 /\ 1 \in DOMAIN held'
  <2>1. held' = r /\ DOMAIN r = 1..Len(r)
    BY <1>3, <1>6, <1>8, <1>9
  <2> QED
    BY <1>7, <1>9, <2>1
<1>11. \A i \in DOMAIN held' : i # 1 => i \in DOMAIN held /\ held'[i] = held[i]
  <2> TAKE i \in DOMAIN held'
  <2> HAVE i # 1
  <2>1. PICK j \in DOMAIN q : j = i - 1 /\ held'[i] = q[j]
    BY <1>9, <1>10
  <2>2. j + 1 = i
    BY <1>7, <1>10, <2>1
  <2> QED
    BY <1>7, <2>1, <2>2
<1>12. /\ held'[1] = d
       /\ \A i \in DOMAIN held : /\ i \in DOMAIN held' /\ held'[i].event = held[i].event
                                 /\ held'[i].stored = held[i].stored /\ held'[i].key = held[i].key
  <2>1. held'[1] = d
    BY <1>9, <1>10
  <2>2. ASSUME NEW i \in DOMAIN held
        PROVE  /\ i \in DOMAIN held' /\ held'[i].event = held[i].event
               /\ held'[i].stored = held[i].stored /\ held'[i].key = held[i].key
    <3>1. held # <<>>
      BY <2>2
    <3>2. i \in DOMAIN held'
      BY <1>7, <1>10, <2>2, <3>1
    <3>3. CASE i = 1
      BY <1>1, <1>2, <1>4, <2>1, <3>1, <3>2, <3>3
    <3>4. CASE i # 1
      BY <1>11, <3>2, <3>4
    <3> QED
      BY <3>3, <3>4
  <2> QED
    BY <2>1, <2>2
<1>13. WaitsInOrder'
  <2> SUFFICES ASSUME NEW i \in DOMAIN held', NEW j \in DOMAIN held', i < j PROVE held'[i].event <= held'[j].event
    BY DEF WaitsInOrder
  <2>1. j # 1 /\ held # <<>>
    <3>1. i >= 1 /\ i \in Nat /\ j \in Nat
      BY <1>7, <1>10
    <3>2. j # 1
      BY <3>1
    <3> QED
      BY <1>11, <3>2
  <2>2. j \in DOMAIN held /\ i \in DOMAIN held
    BY <1>1, <1>11, <2>1
  <2> QED
    BY <1>12, <2>2 DEF OrderedDelivery, OrderInv, QueueInv, WaitsInOrder
<1>14. WaitsAhead'
  <2>1. ASSUME NEW i \in DOMAIN held' PROVE Reached(held'[i].event)
    <3>1. CASE i = 1
      BY <1>1, <1>2, <1>4, <1>12, <3>1 DEF Known
    <3>2. CASE i # 1
      BY <1>11, <3>2 DEF OrderedDelivery, OrderInv, QueueInv, WaitsAhead
    <3> QED
      BY <3>1, <3>2
  <2> QED
    BY <2>1 DEF WaitsAhead, Reached
<1>15. WaitsKnown'
  <2> SUFFICES ASSUME NEW i \in DOMAIN held'
               PROVE  /\ held'[i].stored => held'[i].started /\ opStatus'[held'[i].key] # "none"
                      /\ ~held'[i].stored => held'[i].key = Post(held'[i].event)
                      /\ held'[i].started /\ ~held'[i].stored => held'[i].event = claimed
    BY DEF WaitsKnown
  <2>1. CASE i = 1
    <3>1. d.stored => opStatus'[d.key] # "none"
      BY <1>1, <1>2, <1>4, <1>5 DEF Known
    <3>2. ~d.stored => d.key = Post(d.event) /\ d.event = claimed
      BY <1>1, <1>2, <1>4 DEF Known
    <3> QED
      BY <1>4, <1>12, <2>1, <3>1, <3>2
  <2>2. CASE i # 1
    <3>1. i \in DOMAIN held /\ held'[i] = held[i] /\ held[i].key \in Operations
      BY <1>11, <2>2, EventsAre DEF OrderedDelivery
    <3> QED
      BY <1>5, <3>1 DEF OrderedDelivery, OrderInv, QueueInv, WaitsKnown
  <2> QED
    BY <2>1, <2>2
<1>16. DeferredWaits'
  <2> SUFFICES ASSUME worker # "off", NEW k \in Operations, opStatus'[k] = "deferred" PROVE Witnessed(held', k)
    BY DEF DeferredWaits, Witnessed
  <2>1. CASE k = job.key
    <3>1. d.event = k[1]
      BY <1>1, <1>2, <1>4, <2>1
    <3>2. d.stored => d.key = k
      BY <1>1, <1>2, <1>4, <2>1 DEF Known
    <3> QED
      BY <1>10, <1>12, <3>1, <3>2 DEF Witnessed
  <2>2. CASE k # job.key
    <3>1. opStatus[k] = "deferred" /\ worker # "off"
      BY <1>5, <2>2
    <3>2. PICK i \in DOMAIN held : held[i].event = k[1] /\ (held[i].stored => held[i].key = k)
      BY <3>1 DEF OrderedDelivery, OrderInv, TableInv, DeferredWaits, Witnessed
    <3>3. PICK later : later = held'
      OBVIOUS
    <3>4. i \in DOMAIN later /\ later[i].event = k[1] /\ (later[i].stored => later[i].key = k)
      <4>1. /\ i \in DOMAIN held' /\ held'[i].event = held[i].event
            /\ held'[i].stored = held[i].stored /\ held'[i].key = held[i].key
        BY <1>12
      <4> QED
        BY <3>2, <3>3, <4>1
    <3>5. Witnessed(later, k)
      BY <3>4 DEF Witnessed
    <3> QED
      BY <3>3, <3>5
  <2> QED
    BY <2>1, <2>2
<1>17. QueueInv'
  BY <1>13, <1>14, <1>15 DEF QueueInv
<1> QED
  BY <1>16, <1>17

LEMMA AnswerOrder ==
  ASSUME OrderedDelivery, TakeAnswer
  PROVE  OrderInv'
<1>1. PICK k : k = job.key
  OBVIOUS
<1>2. /\ job.at \in SendOutcomes /\ job # NoJob /\ k \in Operations /\ job \in Jobs
      /\ UNCHANGED <<emitted, worker, mail, opRows, claimed, arrived>>
  BY <1>1, JobsAre, HeldItems DEF TakeAnswer, OrderedDelivery, DeliveryInv, DeliveryTypes, SendOutcomes
<1>3. opStatus[k] = "attempting" /\ opStatus \in [Operations -> OpStates]
  BY <1>1, <1>2 DEF OrderedDelivery, DeliveryInv, DeliveryTypes, SentInv, SendOutcomes
<1>4. ArrivedInv'
  BY <1>2, ReachedStays DEF OrderedDelivery, OrderInv, ArrivedInv, TradeInOrder
<1>5. CASE job' = [job EXCEPT !.at = "request", !.tries = @ + 1] /\ UNCHANGED <<held, opStatus, rootSent>>
  <2>1. job'.item = job.item /\ job'.key = k
    BY <1>1, <1>2, <1>5 DEF Jobs
  <2>2. Known(job)
    BY <1>2, InHandIs
  <2>3. Known(job)'
    BY <1>1, <1>2, <1>5, <2>1, <2>2, ReachedStays DEF Known
  <2>4. QueueInv'
    BY <1>2, <1>5, <2>3, ReachedStays DEF OrderedDelivery, OrderInv, QueueInv, WaitsInOrder, WaitsAhead, WaitsKnown
  <2>5. TableInv'
    BY <1>2, <1>5, ReachedStays
    DEF OrderedDelivery, OrderInv, TableInv, RowsInOrder, HasRow, DeferredAhead, DeferredWaits, Witnessed, RootAfterPost
  <2> QED
    BY <1>4, <2>4, <2>5 DEF OrderInv
<1>6. CASE SettleOperation(k, "confirmed") /\ NextStep(k)
  <2>1. opStatus' = [opStatus EXCEPT ![k] = "confirmed"]
    BY <1>6 DEF SettleOperation
  <2>2. opStatus'[k] = "confirmed" /\ \A o \in Operations : o # k => opStatus'[o] = opStatus[o]
    BY <1>2, <1>3, <2>1
  <2>3. QueueInv' /\ DeferredWaits' /\ (rootSent => rootSent')
    BY <1>1, <1>2, <1>6, <2>2, NextQueue
  <2>4. TableInv'
    BY <1>1, <1>2, <1>3, <2>1, <2>3, SettledTable DEF OpStates
  <2> QED
    BY <1>4, <2>3, <2>4 DEF OrderInv
<1>7. CASE /\ opStatus' = [opStatus EXCEPT ![k] = "deferred"] /\ job' = NoJob /\ rootSent' = rootSent
           /\ held' = <<Deferred>> \o (IF FromHeld THEN Tail(held) ELSE <<>>)
  <2>1. QueueInv' /\ DeferredWaits'
    BY <1>1, <1>2, <1>3, <1>7, DeferredQueue
  <2>2. TableInv'
    BY <1>1, <1>2, <1>3, <1>7, <2>1, SettledTable DEF OpStates
  <2> QED
    BY <1>4, <2>1, <2>2 DEF OrderInv
<1>8. ASSUME NEW s \in {"failed", "uncertain"}, SettleOperation(k, s), ItemDone, rootSent' = rootSent
      PROVE  OrderInv'
  <2>1. opStatus' = [opStatus EXCEPT ![k] = s]
    BY <1>8 DEF SettleOperation
  <2>2. opStatus'[k] = s /\ \A o \in Operations : o # k => opStatus'[o] = opStatus[o]
    BY <1>2, <1>3, <2>1
  <2>3. \A o \in Operations : opStatus[o] # "none" => opStatus'[o] # "none"
    BY <2>2
  <2>4. \A o \in Operations : opStatus'[o] = "deferred" =>
           opStatus[o] = "deferred" /\ o # job.key /\ (o[1] = job.item.event => job.item.stored)
    <3> SUFFICES ASSUME NEW o \in Operations, opStatus'[o] = "deferred"
                 PROVE  opStatus[o] = "deferred" /\ o # job.key /\ (o[1] = job.item.event => job.item.stored)
      OBVIOUS
    <3>1. opStatus[o] = "deferred" /\ o # job.key
      BY <1>1, <2>2
    <3>2. ASSUME o[1] = job.item.event, ~job.item.stored PROVE FALSE
      <4>1. opStatus[k] = "confirmed"
        BY <1>1, <1>2, <3>1, <3>2, OneOpen
      <4> QED
        BY <1>3, <4>1
    <3> QED
      BY <3>1, <3>2
  <2>5. QueueInv' /\ DeferredWaits'
    BY <1>2, <1>8, <2>3, <2>4, DoneQueue
  <2>6. TableInv'
    BY <1>1, <1>2, <1>3, <1>8, <2>1, <2>5, SettledTable DEF OpStates
  <2> QED
    BY <1>4, <2>5, <2>6 DEF OrderInv
<1>9. CASE SettleOperation(k, "failed") /\ ItemDone /\ rootSent' = rootSent
  BY <1>8, <1>9
<1>10. CASE SettleOperation(k, IF job.at = "refused" THEN "failed" ELSE "uncertain") /\ ItemDone /\ rootSent' = rootSent
  BY <1>8, <1>10
<1>11. \/ job' = [job EXCEPT !.at = "request", !.tries = @ + 1] /\ UNCHANGED <<held, opStatus, rootSent>>
       \/ SettleOperation(k, "confirmed") /\ NextStep(k)
       \/ (/\ opStatus' = [opStatus EXCEPT ![k] = "deferred"] /\ job' = NoJob /\ rootSent' = rootSent
           /\ held' = <<Deferred>> \o (IF FromHeld THEN Tail(held) ELSE <<>>))
       \/ SettleOperation(k, "failed") /\ ItemDone /\ rootSent' = rootSent
       \/ SettleOperation(k, IF job.at = "refused" THEN "failed" ELSE "uncertain") /\ ItemDone /\ rootSent' = rootSent
  BY <1>1 DEF TakeAnswer
<1> QED
  BY <1>5, <1>6, <1>7, <1>9, <1>10, <1>11

LEMMA ParkOrder ==
  ASSUME OrderedDelivery, ParkHeld
  PROVE  OrderInv'
<1>1. PICK n \in Nat : \E posts : Parks(posts, n)
  BY ParkedPosts DEF OrderedDelivery
<1>2. PICK posts : Parks(posts, n)
  BY <1>1
<1>3. /\ worker' = "off" /\ held' = <<>> /\ job' = NoJob /\ opRows' = opRows \o posts /\ UNCHANGED <<rootSent, arrived>>
      /\ claimed \in Nat /\ claimed' \in Nat /\ claimed <= claimed' /\ posts \in Seq(Operations) /\ opRows \in Seq(Operations)
  BY <1>2 DEF Parks, OrderedDelivery, DeliveryInv, DeliveryTypes
<1>4. /\ \A k \in Operations : k \notin Range(posts) => opStatus'[k] = opStatus[k]
      /\ \A k \in Range(posts) : k \in Operations /\ opStatus'[k] = "deferred" /\ opStatus[k] = "none"
  BY <1>2 DEF Parks
<1>5. \A i \in 1..n : /\ posts[i] = Post(posts[i][1]) /\ posts[i][1] \in Nat /\ posts[i][1] > claimed
                      /\ \E h \in DOMAIN held : held[h].event = posts[i][1]
  BY <1>2 DEF Parks
<1>6. DOMAIN posts = 1..n /\ \A i, j \in 1..n : i < j => posts[i][1] < posts[j][1]
  BY <1>2 DEF Parks
<1>7. ArrivedInv'
  <2>1. Reached(claimed')
    BY <1>3, ReachedFarther DEF OrderedDelivery, OrderInv, ArrivedInv
  <2> QED
    BY <1>3, <2>1 DEF OrderedDelivery, OrderInv, ArrivedInv, TradeInOrder, Reached
<1>8. QueueInv'
  BY <1>3 DEF QueueInv, WaitsInOrder, WaitsAhead, WaitsKnown
<1>9. PICK m \in Nat : m = Len(opRows) /\ DOMAIN opRows = 1..m
  BY <1>3
<1>10. /\ DOMAIN opRows' = 1..m + n
       /\ \A i \in 1..m : opRows'[i] = opRows[i]
       /\ \A i \in 1..n : opRows'[m + i] = posts[i]
       /\ \A i \in 1..m + n : i \in 1..m \/ \E h \in 1..n : i = m + h
  <2>1. PICK r : r = opRows \o posts
    OBVIOUS
  <2>2. Len(posts) = n
    BY <1>3, <1>6
  <2>3. /\ Len(r) = m + n /\ DOMAIN r = 1..Len(r)
        /\ \A i \in 1..m + n : r[i] = IF i <= m THEN opRows[i] ELSE posts[i - m]
    <3>1. /\ Len(r) = Len(opRows) + Len(posts) /\ DOMAIN r = 1..Len(r)
          /\ \A i \in 1..Len(r) : r[i] = IF i <= Len(opRows) THEN opRows[i] ELSE posts[i - Len(opRows)]
      BY <1>3, <2>1
    <3> QED
      BY <1>9, <2>2, <3>1
  <2>4. \A i \in 1..n : m + i \in 1..m + n /\ ~(m + i <= m) /\ (m + i) - m = i
    OBVIOUS
  <2>5. \A i \in 1..m : i \in 1..m + n /\ i <= m
    OBVIOUS
  <2>6. ASSUME NEW i \in 1..m + n, i \notin 1..m PROVE \E h \in 1..n : i = m + h
    <3>1. i - m \in 1..n /\ i = m + (i - m)
      BY <2>6
    <3> QED
      BY <3>1
  <2> QED
    BY <1>3, <2>1, <2>3, <2>4, <2>5, <2>6
<1>11. RowsInOrder'
  <2> SUFFICES ASSUME NEW i \in 1..m + n, NEW j \in 1..m + n, i < j PROVE opRows'[i][1] <= opRows'[j][1]
    BY <1>10 DEF RowsInOrder
  <2>1. CASE j \in 1..m
    <3>1. i \in 1..m
      BY <2>1
    <3> QED
      BY <1>9, <1>10, <2>1, <3>1 DEF OrderedDelivery, OrderInv, TableInv, RowsInOrder
  <2>2. CASE \E h \in 1..n : j = m + h
    <3>1. PICK h \in 1..n : j = m + h
      BY <2>2
    <3>2. opRows'[j] = posts[h] /\ posts[h][1] \in Nat /\ posts[h][1] > claimed
      BY <1>5, <1>10, <3>1
    <3>3. CASE i \in 1..m
      <4>1. opRows[i][1] \in Nat /\ opRows[i][1] <= claimed
        BY <1>9, <3>3, EventsAre DEF OrderedDelivery
      <4> QED
        BY <1>3, <1>10, <3>2, <3>3, <4>1
    <3>4. CASE \E g \in 1..n : i = m + g
      <4>1. PICK g \in 1..n : i = m + g
        BY <3>4
      <4>2. g < h
        BY <3>1, <4>1
      <4>3. opRows'[i] = posts[g] /\ posts[g][1] \in Nat
        BY <1>5, <1>10, <4>1
      <4> QED
        BY <1>6, <3>2, <4>2, <4>3
    <3> QED
      BY <1>10, <3>3, <3>4
  <2> QED
    BY <1>10, <2>1, <2>2
<1>12. HasRow'
  <2> SUFFICES ASSUME NEW k \in Operations, opStatus'[k] # "none" PROVE k \in Range(opRows')
    BY DEF HasRow
  <2>1. CASE k \in Range(posts)
    <3>1. PICK i \in 1..n : k = posts[i]
      BY <1>6, <2>1 DEF Range
    <3>2. m + i \in 1..m + n
      OBVIOUS
    <3> QED
      BY <1>10, <3>1, <3>2 DEF Range
  <2>2. CASE k \notin Range(posts)
    <3>1. k \in Range(opRows)
      BY <1>4, <2>2 DEF OrderedDelivery, OrderInv, TableInv, HasRow
    <3>2. PICK i \in 1..m : k = opRows[i]
      BY <1>9, <3>1 DEF Range
    <3>3. i \in 1..m + n
      OBVIOUS
    <3> QED
      BY <1>10, <3>2, <3>3 DEF Range
  <2> QED
    BY <2>1, <2>2
<1>13. DeferredAhead'
  <2> SUFFICES ASSUME NEW k \in Operations, opStatus'[k] = "deferred" PROVE Reached(k[1])
    BY <1>3 DEF DeferredAhead, Reached
  <2>1. CASE k \in Range(posts)
    <3>1. PICK i \in 1..n : k = posts[i]
      BY <1>6, <2>1 DEF Range
    <3>2. PICK h \in DOMAIN held : held[h].event = k[1]
      BY <1>5, <3>1
    <3> QED
      BY <3>2 DEF OrderedDelivery, OrderInv, QueueInv, WaitsAhead
  <2>2. CASE k \notin Range(posts)
    BY <1>4, <2>2 DEF OrderedDelivery, OrderInv, TableInv, DeferredAhead
  <2> QED
    BY <2>1, <2>2
<1>14. RootAfterPost'
  <2> SUFFICES ASSUME NEW e \in Messages, e # 1, opStatus'[RootEdit(e)] # "none"
               PROVE  opStatus'[Post(e)] = "confirmed" /\ rootSent
    BY <1>3 DEF RootAfterPost
  <2>1. RootEdit(e) \in Operations /\ Post(e) \in Operations
    BY OperationIs
  <2>2. RootEdit(e) \notin Range(posts)
    BY <1>5, <1>6, OperationsAre DEF Range
  <2>3. opStatus[Post(e)] = "confirmed" /\ rootSent
    BY <1>4, <2>1, <2>2 DEF OrderedDelivery, OrderInv, TableInv, RootAfterPost
  <2> QED
    BY <1>4, <2>1, <2>3
<1>15. DeferredWaits'
  BY <1>3 DEF DeferredWaits
<1> QED
  BY <1>7, <1>8, <1>11, <1>12, <1>13, <1>14, <1>15 DEF OrderInv, TableInv

\* A new run takes up what is deferred in the order of the rows.
LEMMA StartOrder ==
  ASSUME OrderedDelivery, WorkerStart
  PROVE  OrderInv'
<1>1. PICK S : S = {i \in DOMAIN opRows : Migrated(opStatus)[opRows[i]] = "deferred"}
  OBVIOUS
<1>2. PICK m : m = Cardinality(S)
  OBVIOUS
<1>3. PICK w : w = Waiting /\ w = Picked(opRows, S)
  BY <1>1 DEF Waiting
<1>4. opRows \in Seq(Operations) /\ S \subseteq DOMAIN opRows /\ DeliveryTypes
  BY <1>1 DEF OrderedDelivery, DeliveryInv, DeliveryTypes
<1>5. m \in Nat /\ w \in Seq(Operations) /\ Len(w) = m
  BY <1>2, <1>3, <1>4, PickedIs
<1>6. PICK f \in [1..m -> S] : /\ \A i \in 1..m : w[i] = opRows[f[i]]
                               /\ \A i, j \in 1..m : i < j => f[i] < f[j]
                               /\ \A x \in S : \E i \in 1..m : f[i] = x
  <2>1. PICK f \in [1..Cardinality(S) -> S] :
            /\ \A i \in 1..Cardinality(S) : Picked(opRows, S)[i] = opRows[f[i]]
            /\ \A i, j \in 1..Cardinality(S) : i < j => f[i] < f[j]
            /\ \A x \in S : \E i \in 1..Cardinality(S) : f[i] = x
    BY <1>4, PickedIs
  <2>2. f \in [1..m -> S]
    BY <1>2, <2>1
  <2>3. \A i \in 1..m : w[i] = opRows[f[i]]
    BY <1>2, <1>3, <2>1
  <2>4. (\A i, j \in 1..m : i < j => f[i] < f[j]) /\ \A x \in S : \E i \in 1..m : f[i] = x
    BY <1>2, <2>1
  <2> QED
    BY <2>2, <2>3, <2>4
<1>7. PICK over \in 0..m :
         /\ opStatus' = [k \in Operations |-> IF k \in {w[i] : i \in 1..over} THEN "failed" ELSE Migrated(opStatus)[k]]
         /\ held' = [i \in 1..m - over |-> StoredItem(w[i + over])]
  <2>1. \E over \in 0..Len(w) :
           /\ opStatus' = [k \in Operations |-> IF k \in {w[i] : i \in 1..over} THEN "failed" ELSE Migrated(opStatus)[k]]
           /\ held' = [i \in 1..Len(w) - over |-> StoredItem(w[i + over])]
    BY <1>3 DEF WorkerStart
  <2> QED
    BY <1>5, <2>1
<1>8. job = NoJob /\ UNCHANGED <<job, opRows, claimed, rootSent, arrived>>
  BY DEF WorkerStart, OrderedDelivery, DeliveryInv, GateInv, chat
<1>9. PICK n \in Nat : n = m - over
  BY <1>5, <1>7
<1>10. \A i \in 1..m : /\ f[i] \in DOMAIN opRows /\ w[i] = opRows[f[i]] /\ w[i] \in Operations /\ w[i][1] \in Nat
                       /\ opStatus[w[i]] = "deferred"
  <2> TAKE i \in 1..m
  <2>1. f[i] \in S /\ f[i] \in DOMAIN opRows /\ w[i] = opRows[f[i]] /\ w[i] \in Operations
    BY <1>4, <1>6
  <2>2. Migrated(opStatus)[w[i]] = "deferred"
    BY <1>1, <2>1
  <2>3. opStatus[w[i]] = "deferred"
    BY <1>4, <2>1, <2>2, MigratedIs
  <2> QED
    BY <2>1, <2>3, EventsAre DEF OrderedDelivery
<1>11. \A i \in 1..n : i + over \in 1..m
  BY <1>5, <1>7, <1>9
<1>12. /\ DOMAIN held' = 1..n
       /\ \A i \in 1..n : /\ held'[i].event = w[i + over][1] /\ held'[i].key = w[i + over]
                          /\ held'[i].stored /\ held'[i].started
  <2>1. DOMAIN held' = 1..n /\ \A i \in 1..n : held'[i] = StoredItem(w[i + over])
    BY <1>7, <1>9
  <2> QED
    BY <2>1 DEF StoredItem
<1>13. \A k \in Operations : \/ opStatus[k] = "deferred" /\ opStatus'[k] = "failed"
                             \/ opStatus'[k] = IF opStatus[k] = "attempting" THEN "uncertain" ELSE opStatus[k]
  <2> TAKE k \in Operations
  <2>1. CASE k \in {w[i] : i \in 1..over}
    <3>1. PICK i \in 1..over : k = w[i]
      BY <2>1
    <3>2. i \in 1..m
      BY <1>5, <1>7
    <3> QED
      BY <1>7, <1>10, <2>1, <3>1, <3>2
  <2>2. CASE k \notin {w[i] : i \in 1..over}
    BY <1>4, <1>7, <2>2, MigratedIs
  <2> QED
    BY <2>1, <2>2
<1>14. \A k \in Operations : (opStatus[k] = "none" <=> opStatus'[k] = "none")
  BY <1>13
<1>15. ArrivedInv'
  BY <1>8 DEF OrderedDelivery, OrderInv, ArrivedInv, TradeInOrder, Reached
<1>16. WaitsInOrder'
  <2> SUFFICES ASSUME NEW i \in 1..n, NEW j \in 1..n, i < j PROVE held'[i].event <= held'[j].event
    BY <1>12 DEF WaitsInOrder
  <2>1. i + over \in 1..m /\ j + over \in 1..m /\ i + over < j + over
    <3>1. i \in Int /\ j \in Int /\ over \in Int
      OBVIOUS
    <3>2. i + over < j + over
      BY <3>1
    <3> QED
      BY <1>11, <3>2
  <2>2. f[i + over] < f[j + over]
    BY <1>6, <2>1
  <2>3. w[i + over][1] <= w[j + over][1]
    BY <1>10, <2>1, <2>2 DEF OrderedDelivery, OrderInv, TableInv, RowsInOrder
  <2> QED
    BY <1>12, <2>3
<1>17. WaitsAhead'
  <2>1. ASSUME NEW i \in 1..n PROVE Reached(held'[i].event)
    <3>1. w[i + over] \in Operations /\ opStatus[w[i + over]] = "deferred"
      BY <1>10, <1>11
    <3> QED
      BY <1>12, <3>1 DEF OrderedDelivery, OrderInv, TableInv, DeferredAhead
  <2> QED
    BY <1>8, <1>12, <2>1 DEF WaitsAhead, Reached
<1>18. WaitsKnown'
  <2>1. ASSUME NEW i \in 1..n PROVE opStatus'[held'[i].key] # "none"
    <3>1. w[i + over] \in Operations /\ opStatus[w[i + over]] = "deferred"
      BY <1>10, <1>11
    <3> QED
      BY <1>12, <1>14, <3>1
  <2> QED
    BY <1>12, <2>1 DEF WaitsKnown
<1>19. QueueInv'
  BY <1>8, <1>16, <1>17, <1>18 DEF QueueInv
<1>20. RowsInOrder' /\ HasRow'
  BY <1>8, <1>14 DEF OrderedDelivery, OrderInv, TableInv, RowsInOrder, HasRow
<1>21. DeferredAhead'
  BY <1>8, <1>13 DEF OrderedDelivery, OrderInv, TableInv, DeferredAhead, Reached
<1>22. DeferredWaits'
  <2> SUFFICES ASSUME NEW k \in Operations, opStatus'[k] = "deferred" PROVE Witnessed(held', k)
    BY DEF DeferredWaits, Witnessed
  <2>1. opStatus[k] = "deferred"
    BY <1>13
  <2>2. k \in Range(opRows)
    BY <2>1 DEF OrderedDelivery, OrderInv, TableInv, HasRow
  <2>3. PICK x \in DOMAIN opRows : k = opRows[x]
    BY <2>2 DEF Range
  <2>4. x \in S
    BY <1>1, <1>4, <2>1, <2>3, MigratedIs
  <2>5. PICK i \in 1..m : w[i] = k
    BY <1>6, <2>3, <2>4
  <2>6. i \notin 1..over
    BY <1>7, <2>5
  <2>7. PICK j \in 1..n : i = j + over
    <3>1. i - over \in 1..n /\ i = (i - over) + over
      BY <1>5, <1>7, <1>9, <2>6
    <3> QED
      BY <3>1
  <2> QED
    BY <1>12, <2>5, <2>7 DEF Witnessed
<1>23. RootAfterPost'
  <2> SUFFICES ASSUME NEW e \in Messages, e # 1, opStatus'[RootEdit(e)] # "none"
               PROVE  opStatus'[Post(e)] = "confirmed" /\ rootSent
    BY <1>8 DEF RootAfterPost
  <2>1. RootEdit(e) \in Operations /\ Post(e) \in Operations
    BY OperationIs
  <2>2. opStatus[Post(e)] = "confirmed" /\ rootSent
    BY <1>14, <2>1 DEF OrderedDelivery, OrderInv, TableInv, RootAfterPost
  <2> QED
    BY <1>13, <2>1, <2>2
<1> QED
  BY <1>15, <1>19, <1>20, <1>21, <1>22, <1>23 DEF OrderInv, TableInv

LEMMA ByHandOrder ==
  ASSUME OrderedDelivery, RetryByHand
  PROVE  OrderInv'
<1>1. PICK k \in Range(opRows), outcome \in SendOutcomes :
        /\ worker = "off" /\ worker' = "off" /\ Migrated(opStatus)[k] # "confirmed"
        /\ opStatus' = [Migrated(opStatus) EXCEPT ![k] = CASE outcome = "ok" -> "confirmed"
                                                          [] outcome \in {"lost", "heard"} -> "uncertain"
                                                          [] OTHER -> "failed"]
        /\ rootSent => rootSent'
        /\ UNCHANGED <<held, job, opRows, claimed, arrived>>
  BY DEF RetryByHand
<1>2. k \in Operations /\ opStatus[k] # "none" /\ DeliveryTypes
  <2>1. PICK i \in DOMAIN opRows : k = opRows[i]
    BY DEF Range
  <2> QED
    BY <2>1 DEF OrderedDelivery, DeliveryInv, DeliveryTypes, RowsInv
<1>3. DOMAIN Migrated(opStatus) = Operations
  BY DEF Migrated, Interrupted
<1>4. \A o \in Operations : \/ o = k /\ opStatus'[o] \in {"confirmed", "uncertain", "failed"}
                            \/ opStatus'[o] = IF opStatus[o] = "attempting" THEN "uncertain" ELSE opStatus[o]
  <2>1. PICK s \in {"confirmed", "uncertain", "failed"} : opStatus' = [Migrated(opStatus) EXCEPT ![k] = s]
    BY <1>1 DEF SendOutcomes
  <2> QED
    BY <1>2, <1>3, <2>1, MigratedIs
<1>5. opStatus[k] # "confirmed"
  BY <1>1, <1>2, MigratedIs
<1>6. job = NoJob /\ held = <<>>
  BY <1>1 DEF OrderedDelivery, DeliveryInv, GateInv
<1>7. ArrivedInv'
  BY <1>1 DEF OrderedDelivery, OrderInv, ArrivedInv, TradeInOrder, Reached
<1>8. QueueInv'
  BY <1>1, <1>6 DEF QueueInv, WaitsInOrder, WaitsAhead, WaitsKnown
<1>9. RowsInOrder' /\ HasRow'
  BY <1>1, <1>2, <1>4 DEF OrderedDelivery, OrderInv, TableInv, RowsInOrder, HasRow
<1>10. DeferredAhead' /\ DeferredWaits'
  BY <1>1, <1>4 DEF OrderedDelivery, OrderInv, TableInv, DeferredAhead, DeferredWaits, Reached
<1>11. RootAfterPost'
  <2> SUFFICES ASSUME NEW e \in Messages, e # 1, opStatus'[RootEdit(e)] # "none"
               PROVE  opStatus'[Post(e)] = "confirmed" /\ rootSent'
    BY DEF RootAfterPost
  <2>1. RootEdit(e) \in Operations /\ Post(e) \in Operations
    BY OperationIs
  <2>2. opStatus[RootEdit(e)] # "none"
    BY <1>2, <1>4, <2>1
  <2>3. opStatus[Post(e)] = "confirmed" /\ rootSent
    BY <2>2 DEF OrderedDelivery, OrderInv, TableInv, RootAfterPost
  <2> QED
    BY <1>1, <1>4, <1>5, <2>1, <2>3
<1> QED
  BY <1>7, <1>8, <1>9, <1>10, <1>11 DEF OrderInv, TableInv

LEMMA OrderSteps == OrderedDelivery /\ [DeliveryNext]_deliveryVars => OrderInv'
<1> SUFFICES ASSUME OrderedDelivery, [DeliveryNext]_deliveryVars PROVE OrderInv'
  OBVIOUS
<1>1. CASE EmitEvent \/ CloseChannel \/ UNCHANGED deliveryVars
  <2>1. UNCHANGED <<held, job, opStatus, opRows, claimed, rootSent, arrived>> /\ (worker' = worker \/ worker # "off")
    BY <1>1 DEF EmitEvent, CloseChannel, deliveryVars, delivery, chat
  <2> QED
    BY <2>1, OrderStays DEF OrderedDelivery
<1>2. CASE WorkerDies
  <2>1. /\ worker' = "off" /\ held' = <<>> /\ job' = NoJob
        /\ UNCHANGED <<opStatus, opRows, claimed, rootSent, arrived>>
    BY <1>2 DEF WorkerDies, delivery, chat
  <2> QED
    BY <2>1, OrderOff DEF OrderedDelivery
<1> QED
  BY <1>1, <1>2, StartOrder, DispatchOrder, RetryOrder, BeginOrder, SendOrder, AnswerOrder, ParkOrder, ByHandOrder
  DEF DeliveryNext

-----------------------------------------------------------------------------
(* What is done once stays done once, in every run of the services.            *)

OnceInv == PatternInv /\ LiveInv /\ DeliveryInv

LEMMA OnceStarts == Init => OnceInv
BY PatternStarts, LiveStarts, DeliveryStarts DEF Init, OnceInv

LEMMA OnceSteps == OnceInv /\ [Next]_vars => OnceInv'
<1> SUFFICES ASSUME OnceInv, [Next]_vars PROVE OnceInv'
  OBVIOUS
<1>1. [PatternNext]_patternVars
  BY DEF Next, vars
<1>2. [LiveNext]_liveVars
  BY DEF Next, vars
<1>3. [DeliveryNext]_deliveryVars
  BY DEF Next, vars
<1> QED
  BY <1>1, <1>2, <1>3, PatternSteps, LiveSteps, DeliverySteps DEF OnceInv

-----------------------------------------------------------------------------
(* The window of requests.                                                     *)
Requests == [at : Nat, lane : LaneOrder]
BudgetTypes ==
    /\ budgetTick \in 1 .. MaxTicks
    /\ laneDemand \in [LaneOrder -> 0 .. budgetTick]
    /\ pausedTo \in 0 .. MaxTicks + 2 /\ limitReplies \in 0 .. MaxPauses
    /\ recentlySent \in Seq(Requests) /\ Len(recentlySent) <= RequestLimit
    /\ everSent \in Seq(1 .. budgetTick)

(* _sent is the end of everything ever sent, and what it does not hold any more *)
(* is older than the window.                                                   *)
EndOf(s, all, old) ==
    /\ Len(s) <= Len(all)
    /\ \A i \in 1 .. Len(s) : s[i].at = all[Len(all) - Len(s) + i]
    /\ \A i \in 1 .. Len(all) - Len(s) : all[i] <= old
WindowInv == EndOf(recentlySent, everSent, budgetTick - QuotaWindow)

Within(from) == {i \in DOMAIN everSent : from <= everSent[i] /\ everSent[i] < from + QuotaWindow}
CountInv == \A from \in Nat : Cardinality(Within(from)) <= RequestLimit
BudgetInv == BudgetTypes /\ WindowInv /\ CountInv

LEMMA SeqIs ==
  ASSUME NEW S, NEW s \in Seq(S)
  PROVE  Len(s) \in Nat /\ DOMAIN s = 1 .. Len(s) /\ \A i \in 1 .. Len(s) : s[i] \in S
OBVIOUS

LEMMA BudgetStarts == BudgetInit => BudgetInv
<1> SUFFICES ASSUME BudgetInit PROVE BudgetInv
  OBVIOUS
<1>1. RequestLimit \in Nat /\ MaxTicks \in Nat /\ MaxTicks > 0 /\ MaxPauses \in Nat /\ QuotaWindow \in Nat
  BY BudgetAssumption
<1>2. recentlySent = <<>> /\ everSent = <<>> /\ Len(recentlySent) = 0 /\ Len(everSent) = 0 /\ DOMAIN everSent = {}
  BY DEF BudgetInit
<1>3. BudgetTypes
  <2>1. budgetTick = 1 /\ pausedTo = 0 /\ limitReplies = 0 /\ laneDemand = [l \in LaneOrder |-> 0]
    BY DEF BudgetInit
  <2>2. laneDemand \in [LaneOrder -> 0 .. budgetTick]
    BY <2>1
  <2> QED
    BY <1>1, <1>2, <2>1, <2>2 DEF BudgetTypes
<1>4. WindowInv
  BY <1>2 DEF WindowInv, EndOf
<1>5. \A from \in Nat : Within(from) = {}
  BY <1>2 DEF Within
<1>6. CountInv
  BY <1>1, <1>5, FS_EmptySet DEF CountInv
<1> QED
  BY <1>3, <1>4, <1>6 DEF BudgetInv

(* What is left of a list that is the end of another one.                      *)
LEMMA EndIs ==
  ASSUME NEW r \in Seq(Requests), NEW all \in Seq(Nat), NEW old \in Int, EndOf(r, all, old),
         NEW s, s = RecentWindow(r, old + QuotaWindow)
  PROVE  s \in Seq(Requests) /\ Len(s) <= Len(r) /\ EndOf(s, all, old)
<1>1. PICK n, m : n = Len(r) /\ m = Len(all)
  OBVIOUS
<1>2. n \in Nat /\ DOMAIN r = 1 .. n /\ \A i \in 1 .. n : r[i] \in Requests
  BY <1>1, SeqIs
<1>3. m \in Nat /\ \A i \in 1 .. m : all[i] \in Nat
  BY <1>1, SeqIs
<1>4. n <= m
  BY <1>1 DEF EndOf
<1>5. \A i \in 1 .. n : r[i].at = all[m - n + i]
  BY <1>1 DEF EndOf
<1>6. \A i \in 1 .. m - n : all[i] <= old
  BY <1>1 DEF EndOf
<1>7. PICK young : young = {i \in 1 .. n : r[i].at > old}
  OBVIOUS
<1>8. s = FromFirst(r, young)
  <2>1. QuotaWindow \in Nat
    BY BudgetAssumption
  <2>2. (old + QuotaWindow) - QuotaWindow = old
    BY <2>1
  <2>3. young = {i \in DOMAIN r : r[i].at > (old + QuotaWindow) - QuotaWindow}
    BY <1>2, <1>7, <2>2
  <2> QED
    BY <2>3 DEF RecentWindow
<1>9. ASSUME NEW i \in 1 .. m, i > m - n PROVE i - (m - n) \in 1 .. n /\ r[i - (m - n)].at = all[i]
  <2>1. i - (m - n) \in 1 .. n /\ m - n + (i - (m - n)) = i
    BY <1>2, <1>3, <1>4, <1>9
  <2> QED
    BY <1>5, <2>1
<1>10. CASE young = {}
  <2>1. s = <<>>
    BY <1>8, <1>10 DEF FromFirst
  <2>5. s \in Seq(Requests)
    BY <2>1, EmptySeq
  <2>6. Len(s) = 0
    BY <2>1
  <2>2. Len(s) = 0 /\ s \in Seq(Requests)
    BY <2>5, <2>6
  <2>3. ASSUME NEW i \in 1 .. m PROVE all[i] <= old
    <3>1. CASE i > m - n
      <4>1. i - (m - n) \in 1 .. n /\ r[i - (m - n)].at = all[i]
        BY <1>9, <3>1
      <4>2. ~(r[i - (m - n)].at > old)
        BY <1>7, <1>10, <4>1
      <4> QED
        BY <1>3, <4>1, <4>2
    <3>2. CASE ~(i > m - n)
      <4>1. i \in 1 .. m - n
        BY <1>2, <1>3, <1>4, <3>2
      <4> QED
        BY <1>6, <4>1
    <3> QED
      BY <3>1, <3>2
  <2>4. EndOf(s, all, old)
    <3>1. m - Len(s) = m /\ 1 .. Len(s) = {} /\ Len(s) <= m
      BY <1>3, <2>2
    <3> QED
      BY <1>1, <2>3, <3>1 DEF EndOf
  <2> QED
    BY <1>1, <1>2, <2>2, <2>4
<1>11. CASE young # {}
  <2>1. PICK f : f = Min(young)
    OBVIOUS
  <2>2. f \in young /\ \A i \in young : f <= i
    <3>1. young \subseteq Nat
      BY <1>7
    <3> QED
      BY <1>11, <2>1, <3>1, MinIs
  <2>3. f \in 1 .. n
    BY <1>7, <2>2
  <2>4. s = SubSeq(r, f, n)
    BY <1>1, <1>8, <1>11, <2>1 DEF FromFirst
  <2>5. f \in Int /\ n \in Int /\ \A i \in f .. n : r[i] \in Requests
    BY <1>2, <2>3
  <2>6. /\ s \in Seq(Requests) /\ Len(s) = IF f <= n THEN n - f + 1 ELSE 0
        /\ \A i \in 1 .. n - f + 1 : s[i] = r[f + i - 1]
    <3>1. f \in 1 .. n + 1 /\ n \in f - 1 .. n
      BY <1>2, <2>3
    <3>2. f \in 1 .. Len(r) + 1 /\ n \in f - 1 .. Len(r)
      BY <1>1, <3>1
    <3>3. /\ SubSeq(r, f, n) \in Seq(Requests)
          /\ Len(SubSeq(r, f, n)) = IF f <= n THEN n - f + 1 ELSE 0
          /\ \A i \in 1 .. n - f + 1 : SubSeq(r, f, n)[i] = r[f + i - 1]
      BY <3>2, <2>5, SubSeqProperties
    <3> QED
      BY <2>4, <3>3
  <2>7. PICK k : k = Len(s)
    OBVIOUS
  <2>8. k = n - f + 1 /\ k \in Nat /\ k <= n /\ m - k = m - n + f - 1
    BY <1>2, <1>3, <2>3, <2>6, <2>7
  <2>9. ASSUME NEW i \in 1 .. m - k PROVE all[i] <= old
    <3>1. CASE i > m - n
      <4>1. i \in 1 .. m /\ i - (m - n) < f
        BY <1>2, <1>3, <2>3, <2>8
      <4>2. i - (m - n) \in 1 .. n /\ r[i - (m - n)].at = all[i]
        BY <1>9, <3>1, <4>1
      <4>3. i - (m - n) \notin young
        BY <2>2, <2>3, <4>1, <4>2
      <4>4. ~(r[i - (m - n)].at > old)
        BY <1>7, <4>2, <4>3
      <4> QED
        BY <1>3, <4>1, <4>2, <4>4
    <3>2. CASE ~(i > m - n)
      <4>1. i \in 1 .. m - n
        BY <1>2, <1>3, <2>3, <2>8, <3>2
      <4> QED
        BY <1>6, <4>1
    <3> QED
      BY <3>1, <3>2
  <2>10. ASSUME NEW i \in 1 .. k PROVE s[i].at = all[m - k + i]
    <3>1. f + i - 1 \in 1 .. n /\ m - n + (f + i - 1) = m - k + i /\ i \in 1 .. n - f + 1
      BY <1>2, <1>3, <2>3, <2>8
    <3>2. r[f + i - 1].at = all[m - k + i]
      BY <1>5, <3>1
    <3> QED
      BY <2>6, <3>1, <3>2
  <2>11. EndOf(s, all, old)
    <3>1. k <= m
      BY <1>2, <1>3, <1>4, <2>8
    <3> QED
      BY <1>1, <2>7, <2>9, <2>10, <3>1 DEF EndOf
  <2> QED
    BY <1>1, <2>6, <2>7, <2>8, <2>11
<1> QED
  BY <1>10, <1>11

LEMMA CallStep == BudgetInv /\ CallBroker => BudgetInv'
<1> SUFFICES ASSUME BudgetInv, CallBroker PROVE BudgetInv'
  OBVIOUS
<1>1. PICK lane \in LaneOrder, key \in BudgetRanges :
        /\ \/ /\ GateOpen(RecentSent(recentlySent, budgetTick), lane)
              /\ recentlySent' = Append(RecentSent(recentlySent, budgetTick), [at |-> budgetTick, lane |-> lane])
              /\ laneDemand' = [laneDemand EXCEPT ![lane] = 0]
              /\ everSent' = Append(everSent, budgetTick)
           \/ /\ recentlySent' = RecentSent(recentlySent, budgetTick) /\ UNCHANGED everSent
              /\ laneDemand' = [laneDemand EXCEPT ![lane] = budgetTick]
        /\ UNCHANGED <<budgetTick, pausedTo, limitReplies>>
  BY DEF CallBroker
<1>2. PICK s, n, t : s = RecentSent(recentlySent, budgetTick) /\ n = Len(everSent) /\ t = budgetTick
  OBVIOUS
<1>3. /\ t \in 1 .. MaxTicks /\ t \in Nat /\ t >= 1
      /\ RequestLimit \in Nat /\ QuotaWindow \in Nat /\ QuotaWindow > 0
  BY <1>2, BudgetAssumption DEF BudgetInv, BudgetTypes
<1>4. /\ everSent \in Seq(1 .. t) /\ n \in Nat /\ DOMAIN everSent = 1 .. n /\ \A i \in 1 .. n : everSent[i] \in 1 .. t
  BY <1>2, SeqIs DEF BudgetInv, BudgetTypes
<1>5. /\ recentlySent \in Seq(Requests) /\ Len(recentlySent) \in Nat /\ Len(recentlySent) <= n
      /\ Len(recentlySent) <= RequestLimit
  BY <1>2, SeqIs DEF BudgetInv, BudgetTypes, WindowInv, EndOf
<1>6. laneDemand \in [LaneOrder -> 0 .. t] /\ pausedTo \in 0 .. MaxTicks + 2 /\ limitReplies \in 0 .. MaxPauses
  BY <1>2 DEF BudgetInv, BudgetTypes
<1>7. budgetTick' = t /\ laneDemand' \in [LaneOrder -> 0 .. t] /\ UNCHANGED <<pausedTo, limitReplies>>
  BY <1>1, <1>2, <1>3, <1>6
<1>8. s \in Seq(Requests) /\ Len(s) <= Len(recentlySent) /\ EndOf(s, everSent, t - QuotaWindow)
  <2>1. s = RecentWindow(recentlySent, t - QuotaWindow + QuotaWindow)
    <3>1. (t - QuotaWindow) + QuotaWindow = t
      BY <1>3
    <3> QED
      BY <1>2, <3>1 DEF RecentSent
  <2>2. EndOf(recentlySent, everSent, t - QuotaWindow)
    BY <1>2 DEF BudgetInv, WindowInv
  <2>3. everSent \in Seq(Nat) /\ t - QuotaWindow \in Int
    <3>1. 1 .. t \subseteq Nat
      OBVIOUS
    <3> QED
      BY <1>3, <1>4, <3>1
  <2> QED
    BY <1>5, <2>1, <2>2, <2>3, EndIs
<1>11. Len(s) \in Nat /\ Len(s) <= n /\ Len(s) <= RequestLimit
  BY <1>4, <1>5, <1>8, <1>3, SeqIs
<1>12. \A i \in 1 .. Len(s) : s[i].at = everSent[n - Len(s) + i]
  BY <1>2, <1>8 DEF EndOf
<1>13. \A i \in 1 .. n - Len(s) : everSent[i] <= t - QuotaWindow
  BY <1>2, <1>8 DEF EndOf
<1>9. CASE recentlySent' = s /\ UNCHANGED everSent
  <2>1. BudgetTypes'
    BY <1>3, <1>4, <1>6, <1>7, <1>8, <1>9, <1>11 DEF BudgetTypes
  <2>2. WindowInv'
    BY <1>2, <1>7, <1>8, <1>9 DEF WindowInv
  <2>3. CountInv'
    BY <1>9 DEF BudgetInv, CountInv, Within
  <2> QED
    BY <2>1, <2>2, <2>3 DEF BudgetInv
<1>10. CASE /\ GateOpen(s, lane) /\ recentlySent' = Append(s, [at |-> t, lane |-> lane])
            /\ everSent' = Append(everSent, t)
  <2>1. Len(s) < RequestLimit
    BY <1>10 DEF GateOpen, QuotaLeft
  <2>2. PICK all : all = everSent'
    OBVIOUS
  <2>3. /\ all \in Seq(1 .. t) /\ Len(all) = n + 1 /\ DOMAIN all = 1 .. n + 1
        /\ all[n + 1] = t /\ \A i \in 1 .. n : all[i] = everSent[i]
    <3>1. t \in 1 .. t
      BY <1>3
    <3> QED
      BY <1>2, <1>4, <1>10, <2>2, <3>1, AppendProperties
  <2>4. PICK sent : sent = recentlySent'
    OBVIOUS
  <2>5. /\ sent \in Seq(Requests) /\ Len(sent) = Len(s) + 1
        /\ sent[Len(s) + 1] = [at |-> t, lane |-> lane] /\ \A i \in 1 .. Len(s) : sent[i] = s[i]
    <3>1. [at |-> t, lane |-> lane] \in Requests
      BY <1>3 DEF Requests
    <3> QED
      BY <1>8, <1>10, <2>4, <3>1, AppendProperties
  <2>6. BudgetTypes'
    BY <1>3, <1>6, <1>7, <1>11, <2>1, <2>2, <2>3, <2>4, <2>5 DEF BudgetTypes
  <2>7. Len(sent) <= Len(all) /\ Len(all) - Len(sent) = n - Len(s)
    BY <1>4, <1>11, <2>3, <2>5
  <2>8. ASSUME NEW i \in 1 .. Len(sent) PROVE sent[i].at = all[n - Len(s) + i]
    <3>1. CASE i = Len(s) + 1
      <4>1. n - Len(s) + i = n + 1
        BY <1>4, <1>11, <3>1
      <4> QED
        BY <2>3, <2>5, <3>1, <4>1
    <3>2. CASE i # Len(s) + 1
      <4>1. i \in 1 .. Len(s) /\ n - Len(s) + i \in 1 .. n
        BY <1>4, <1>11, <2>5, <3>2
      <4> QED
        BY <1>12, <2>3, <2>5, <4>1
    <3> QED
      BY <3>1, <3>2
  <2>9. ASSUME NEW i \in 1 .. n - Len(s) PROVE all[i] <= t - QuotaWindow
    <3>1. i \in 1 .. n
      BY <1>4, <1>11
    <3> QED
      BY <1>13, <2>3, <3>1
  <2>10. WindowInv'
    BY <1>7, <2>2, <2>4, <2>7, <2>8, <2>9 DEF WindowInv, EndOf
  <2>11. ASSUME NEW from \in Nat PROVE Cardinality(Within(from)') <= RequestLimit
    <3>1. Within(from)' = {i \in 1 .. n + 1 : from <= all[i] /\ all[i] < from + QuotaWindow}
      BY <2>2, <2>3 DEF Within
    <3>2. CASE from <= t /\ t < from + QuotaWindow
      <4>1. ASSUME NEW i \in Within(from)' PROVE i \in n - Len(s) + 1 .. n + 1
        <5>1. i \in 1 .. n + 1 /\ from <= all[i]
          BY <3>1, <4>1
        <5>2. i \notin 1 .. n - Len(s)
          <6> SUFFICES ASSUME i \in 1 .. n - Len(s) PROVE FALSE
            OBVIOUS
          <6>1. i \in 1 .. n
            BY <1>4, <1>11
          <6>2. all[i] <= t - QuotaWindow /\ all[i] \in Nat
            BY <1>4, <2>3, <2>9, <6>1
          <6> QED
            BY <1>3, <3>2, <5>1, <6>2
        <5> QED
          BY <1>4, <1>11, <5>1, <5>2
      <4>2. Within(from)' \subseteq n - Len(s) + 1 .. n + 1
        BY <4>1
      <4>3. n - Len(s) + 1 \in Int /\ n + 1 \in Int /\ (n + 1) - (n - Len(s) + 1) + 1 = Len(s) + 1
        BY <1>4, <1>11
      <4>4. PICK c : c = n - Len(s) + 1
        OBVIOUS
      <4>5. IsFiniteSet(c .. n + 1) /\ Cardinality(c .. n + 1) = IF c > n + 1 THEN 0 ELSE (n + 1) - c + 1
        BY <4>3, <4>4, FS_Interval
      <4>6. Cardinality(c .. n + 1) = Len(s) + 1
        BY <1>4, <1>11, <4>3, <4>4, <4>5
      <4>7. IsFiniteSet(Within(from)') /\ Cardinality(Within(from)') <= Cardinality(c .. n + 1)
        BY <4>2, <4>4, <4>5, FS_Subset
      <4>8. Cardinality(Within(from)') \in Nat
        BY <4>7, FS_CardinalityType
      <4> QED
        BY <1>3, <1>11, <2>1, <4>6, <4>7, <4>8
    <3>3. CASE ~(from <= t /\ t < from + QuotaWindow)
      <4>1. Within(from) = {i \in 1 .. n : from <= everSent[i] /\ everSent[i] < from + QuotaWindow}
        BY <1>4 DEF Within
      <4>2. ASSUME NEW i \in 1 .. n + 1 PROVE i \in Within(from)' <=> i \in Within(from)
        <5>1. CASE i = n + 1
          <6>1. n + 1 \notin 1 .. n
            BY <1>4
          <6> QED
            BY <2>3, <3>1, <3>3, <4>1, <5>1, <6>1
        <5>2. CASE i # n + 1
          <6>1. i \in 1 .. n
            BY <1>4, <5>2
          <6> QED
            BY <2>3, <3>1, <4>1, <6>1
        <5> QED
          BY <5>1, <5>2
      <4>3. Within(from)' \subseteq 1 .. n + 1 /\ Within(from) \subseteq 1 .. n + 1
        BY <1>4, <3>1, <4>1
      <4>4. Within(from)' = Within(from)
        BY <4>2, <4>3
      <4> QED
        BY <4>4 DEF BudgetInv, CountInv
    <3> QED
      BY <3>2, <3>3
  <2>12. CountInv'
    BY <2>11 DEF CountInv
  <2> QED
    BY <2>6, <2>10, <2>12 DEF BudgetInv
<1> QED
  BY <1>1, <1>2, <1>9, <1>10

LEMMA BudgetSteps == BudgetInv /\ [BudgetNext]_budgetVars => BudgetInv'
<1> SUFFICES ASSUME BudgetInv, [BudgetNext]_budgetVars PROVE BudgetInv'
  OBVIOUS
<1>1. CASE CallBroker
  BY <1>1, CallStep
<1>2. CASE BrokerReply
  <2>1. /\ UNCHANGED <<budgetTick, recentlySent, laneDemand, everSent>>
        /\ pausedTo' \in 0 .. MaxTicks + 2 /\ limitReplies' \in 0 .. MaxPauses
    BY <1>2, BudgetAssumption DEF BrokerReply, BudgetInv, BudgetTypes
  <2> QED
    BY <2>1 DEF BudgetInv, BudgetTypes, WindowInv, CountInv, Within
<1>3. CASE TickPasses
  <2>1. /\ UNCHANGED <<recentlySent, laneDemand, everSent, pausedTo, limitReplies>>
        /\ budgetTick' = budgetTick + 1 /\ budgetTick' \in 1 .. MaxTicks /\ budgetTick \in Nat
    BY <1>3, BudgetAssumption DEF TickPasses, BudgetInv, BudgetTypes
  <2>2. everSent' \in Seq(1 .. budgetTick')
    <3>1. everSent \in Seq(1 .. budgetTick) /\ 1 .. budgetTick \subseteq 1 .. budgetTick'
      BY <2>1 DEF BudgetInv, BudgetTypes
    <3> QED
      BY <2>1, <3>1
  <2>3. BudgetTypes'
    BY <2>1, <2>2 DEF BudgetInv, BudgetTypes
  <2>4. WindowInv'
    <3>1. PICK k : k = Len(everSent) - Len(recentlySent)
      OBVIOUS
    <3>2. \A i \in 1 .. k : everSent[i] <= budgetTick - QuotaWindow
      BY <3>1 DEF BudgetInv, WindowInv, EndOf
    <3>3. everSent \in Seq(1 .. budgetTick) /\ recentlySent \in Seq(Requests)
      BY DEF BudgetInv, BudgetTypes
    <3>4. Len(everSent) \in Nat /\ Len(recentlySent) \in Nat /\ \A i \in 1 .. Len(everSent) : everSent[i] \in 1 .. budgetTick
      BY <3>3, SeqIs
    <3>5. QuotaWindow \in Nat
      BY BudgetAssumption
    <3>6. ASSUME NEW i \in 1 .. k PROVE everSent[i] <= budgetTick' - QuotaWindow
      <4>1. i \in 1 .. Len(everSent)
        BY <3>1, <3>4
      <4>2. everSent[i] \in Nat
        BY <3>4, <4>1
      <4> QED
        BY <2>1, <3>2, <3>5, <4>2
    <3> QED
      BY <2>1, <3>1, <3>6 DEF BudgetInv, WindowInv, EndOf
  <2>5. CountInv'
    BY <2>1 DEF BudgetInv, CountInv, Within
  <2> QED
    BY <2>3, <2>4, <2>5 DEF BudgetInv
<1>4. CASE UNCHANGED budgetVars
  BY <1>4 DEF budgetVars, BudgetInv, BudgetTypes, WindowInv, CountInv, Within
<1> QED
  BY <1>1, <1>2, <1>3, <1>4 DEF BudgetNext

LEMMA BudgetPromises == BudgetInv => BudgetTypeOK /\ CeilingKept
<1> SUFFICES ASSUME BudgetInv PROVE BudgetTypeOK /\ CeilingKept
  OBVIOUS
<1>1. BudgetTypeOK
  BY DEF BudgetInv, BudgetTypes, BudgetTypeOK
<1>2. \A from \in 1 .. budgetTick : from \in Nat
  OBVIOUS
<1>3. CeilingKept
  BY <1>2 DEF BudgetInv, CountInv, Within, CeilingKept
<1> QED
  BY <1>1, <1>3

-----------------------------------------------------------------------------
(* Sessions of an intraday trade: a carry is approved of an open position whose *)
(* first profit is taken and whose stop is at break-even; additions have ended  *)
(* by then, so nothing takes the break-even back.                               *)
SessionFlags ==
    /\ robotOn \in BOOLEAN /\ cycled \in BOOLEAN /\ fixation \in BOOLEAN /\ even \in BOOLEAN
    /\ moving \in BOOLEAN /\ leaving \in BOOLEAN /\ adding \in BOOLEAN
SessionNumbers == minute \in 0 .. LastMinute /\ approvedAt \in -1 .. LastMinute
SessionLinks ==
    /\ intraday \in {"none", "ENTRY_PENDING", "OPEN"}
    /\ approvedAt # -1 => fixation /\ even
    /\ fixation => ~adding /\ intraday = "OPEN"
SessionInv == SessionFlags /\ SessionNumbers /\ SessionLinks

LEMMA SessionStarts == SessionInit => SessionInv
<1> SUFFICES ASSUME SessionInit PROVE SessionInv
  OBVIOUS
<1>1. SessionFlags
  BY Zenon DEF SessionInit, SessionFlags
<1>2. SessionNumbers
  BY SessionAssumption DEF SessionInit, SessionNumbers
<1>3. SessionLinks
  BY DEF SessionInit, SessionLinks
<1> QED
  BY <1>1, <1>2, <1>3 DEF SessionInv

LEMMA GuardStep == SessionInv /\ GuardCycle => SessionInv'
<1> SUFFICES ASSUME SessionInv, GuardCycle PROVE SessionInv'
  OBVIOUS
<1>1. PICK above \in BOOLEAN :
        LET cancels == /\ intraday = "ENTRY_PENDING" /\ ~leaving
                       /\ EntryCode \in {"intraday-session-closed", "intraday-close-near"}
            decides == intraday = "OPEN" /\ Obligated /\ ~CarryValid /\ ~leaving
            carry == CarryChosen(above)
        IN  /\ leaving' = (leaving \/ cancels \/ (decides /\ carry = "close"))
            /\ moving' = (moving \/ (decides /\ carry = "move"))
            /\ approvedAt' = IF decides /\ carry = "keep" THEN minute ELSE approvedAt
  BY DEF GuardCycle
<1>2. leaving' \in BOOLEAN
  BY <1>1, Zenon
<1>3. moving' \in BOOLEAN
  BY <1>1, Zenon
<1>4. cycled' = TRUE /\ UNCHANGED <<minute, robotOn, intraday, fixation, even, adding>>
  BY DEF GuardCycle
<1>5. CarryChosen(above) = "keep" => fixation /\ even
  BY DEF CarryChosen, CarryAction
<1>6. approvedAt' = approvedAt \/ (approvedAt' = minute /\ fixation /\ even)
  BY <1>1, <1>5
<1>7. SessionFlags'
  BY <1>2, <1>3, <1>4, Zenon DEF SessionInv, SessionFlags
<1>8. SessionNumbers'
  BY <1>4, <1>6 DEF SessionInv, SessionNumbers
<1>9. SessionLinks'
  BY <1>4, <1>6 DEF SessionInv, SessionLinks
<1> QED
  BY <1>7, <1>8, <1>9 DEF SessionInv

LEMMA SessionFlagSteps == SessionInv /\ [SessionNext]_sessionVars => SessionFlags'
<1> SUFFICES ASSUME SessionInv, [SessionNext]_sessionVars PROVE SessionFlags'
  OBVIOUS
<1>1. CASE GuardCycle
  BY <1>1, GuardStep DEF SessionInv
<1>2. CASE EnterTrade
  BY <1>2, Zenon DEF EnterTrade, SessionInv, SessionFlags
<1>3. CASE AddToTrade
  BY <1>3, Zenon DEF AddToTrade, SessionInv, SessionFlags
<1>4. CASE EntryFills
  BY <1>4, Zenon DEF EntryFills, SessionInv, SessionFlags
<1>5. CASE IntradayEnds
  BY <1>5, Zenon DEF IntradayEnds, TradeGone, SessionInv, SessionFlags
<1>6. CASE LeavingRefused
  BY <1>6, Zenon DEF LeavingRefused, SessionInv, SessionFlags
<1>7. CASE TargetFills
  BY <1>7, Zenon DEF TargetFills, SessionInv, SessionFlags
<1>8. CASE AdditionFills
  BY <1>8, Zenon DEF AdditionFills, SessionInv, SessionFlags
<1>9. CASE StopAnswered
  <2>1. PICK confirmed \in BOOLEAN : even' = (even \/ confirmed)
    BY <1>9, Zenon DEF StopAnswered
  <2>2. even' \in BOOLEAN
    BY <2>1, Zenon
  <2>3. moving' = FALSE /\ UNCHANGED <<robotOn, cycled, fixation, leaving, adding>>
    BY <1>9 DEF StopAnswered
  <2> QED
    BY <2>2, <2>3, Zenon DEF SessionInv, SessionFlags
<1>10. CASE ProfileMovesStop
  BY <1>10, Zenon DEF ProfileMovesStop, SessionInv, SessionFlags
<1>11. CASE MinutePasses
  BY <1>11, Zenon DEF MinutePasses, SessionInv, SessionFlags
<1>12. CASE RobotToggles
  BY <1>12, Zenon DEF RobotToggles, SessionInv, SessionFlags
<1>13. CASE UNCHANGED sessionVars
  BY <1>13 DEF sessionVars, SessionInv, SessionFlags
<1> QED
  BY <1>1, <1>2, <1>3, <1>4, <1>5, <1>6, <1>7, <1>8, <1>9, <1>10, <1>11, <1>12, <1>13 DEF SessionNext

LEMMA SessionNumberSteps == SessionInv /\ [SessionNext]_sessionVars => SessionNumbers'
<1> SUFFICES ASSUME SessionInv, [SessionNext]_sessionVars PROVE SessionNumbers'
  OBVIOUS
<1>1. minute \in 0 .. LastMinute /\ approvedAt \in -1 .. LastMinute /\ LastMinute \in Nat
  BY SessionAssumption DEF SessionInv, SessionNumbers
<1>2. CASE GuardCycle
  BY <1>2, GuardStep DEF SessionInv
<1>3. CASE IntradayEnds
  <2>1. minute' = minute /\ approvedAt' = -1
    BY <1>3 DEF IntradayEnds, TradeGone
  <2> QED
    BY <1>1, <2>1 DEF SessionNumbers
<1>4. CASE MinutePasses
  <2>1. minute < LastMinute /\ minute' = minute + 1 /\ approvedAt' = approvedAt
    BY <1>4 DEF MinutePasses
  <2> QED
    BY <1>1, <2>1 DEF SessionNumbers
<1>5. CASE UNCHANGED <<minute, approvedAt>>
  BY <1>1, <1>5 DEF SessionNumbers
<1> QED
  BY <1>2, <1>3, <1>4, <1>5
     DEF SessionNext, EnterTrade, AddToTrade, EntryFills, LeavingRefused, TargetFills, AdditionFills,
         StopAnswered, ProfileMovesStop, RobotToggles, sessionVars

LEMMA SessionLinkSteps == SessionInv /\ [SessionNext]_sessionVars => SessionLinks'
<1> SUFFICES ASSUME SessionInv, [SessionNext]_sessionVars PROVE SessionLinks'
  OBVIOUS
<1>1. SessionLinks
  BY DEF SessionInv
<1>2. CASE GuardCycle
  BY <1>2, GuardStep DEF SessionInv
<1>3. CASE EnterTrade
  BY <1>1, <1>3 DEF EnterTrade, SessionLinks
<1>4. CASE AddToTrade
  BY <1>1, <1>4 DEF AddToTrade, SessionLinks
<1>5. CASE EntryFills
  BY <1>1, <1>5 DEF EntryFills, SessionLinks
<1>6. CASE IntradayEnds
  BY <1>1, <1>6 DEF IntradayEnds, TradeGone, SessionLinks
<1>7. CASE TargetFills
  BY <1>1, <1>7 DEF TargetFills, SessionLinks
<1>8. CASE AdditionFills
  <2>1. adding /\ adding' = FALSE /\ UNCHANGED <<intraday, fixation, approvedAt>>
    BY <1>8 DEF AdditionFills
  <2> QED
    BY <1>1, <2>1 DEF SessionLinks
<1>9. CASE StopAnswered
  <2>1. (even => even') /\ UNCHANGED <<intraday, fixation, adding, approvedAt>>
    BY <1>9 DEF StopAnswered
  <2> QED
    BY <1>1, <2>1 DEF SessionLinks
<1>10. CASE ProfileMovesStop
  BY <1>1, <1>10 DEF ProfileMovesStop, SessionLinks
<1>11. CASE UNCHANGED <<intraday, fixation, even, adding, approvedAt>>
  BY <1>1, <1>11 DEF SessionLinks
<1> QED
  BY <1>2, <1>3, <1>4, <1>5, <1>6, <1>7, <1>8, <1>9, <1>10, <1>11
     DEF SessionNext, LeavingRefused, MinutePasses, RobotToggles, sessionVars

LEMMA SessionSteps == SessionInv /\ [SessionNext]_sessionVars => SessionInv'
BY SessionFlagSteps, SessionNumberSteps, SessionLinkSteps DEF SessionInv

LEMMA SessionPromises == SessionInv => SessionTypeOK /\ CarriedIsEven
<1> SUFFICES ASSUME SessionInv PROVE SessionTypeOK /\ CarriedIsEven
  OBVIOUS
<1>1. {robotOn, cycled, fixation, even, moving, leaving, adding} \subseteq BOOLEAN
  BY Zenon DEF SessionInv, SessionFlags
<1>2. SessionTypeOK
  BY <1>1 DEF SessionInv, SessionNumbers, SessionLinks, SessionTypeOK
<1>3. CarriedIsEven
  BY DEF SessionInv, SessionLinks, CarriedIsEven, CarryValid
<1> QED
  BY <1>2, <1>3

-----------------------------------------------------------------------------
(* Admission of entries: only an unfinished trade has an increase on its way,   *)
(* so a fill never brings a trade back that another side was let in after.      *)
DealIs(t) ==
    /\ DOMAIN t = {"phase", "side", "qty", "paid", "stop", "dist"}
    /\ t.qty \in Nat /\ (t.phase = "OPEN" => t.qty > 0)
RiseOf(t, r) == DOMAIN r = {"left", "of", "price", "risk"} /\ (r.left # 0 => Unfinished(t))
AdmissionInv ==
    /\ DOMAIN deal = Desks /\ DOMAIN rising = Desks
    /\ \A d \in Desks : DealIs(deal[d]) /\ RiseOf(deal[d], rising[d])
    /\ OneSide

LEMMA NoDealIs == DealIs(NoDeal) /\ ~Unfinished(NoDeal) /\ RiseOf(NoDeal, NoRise)
BY DEF NoDeal, DealIs, Unfinished, RiseOf, NoRise

LEMMA NoRiseIs == ASSUME NEW t PROVE RiseOf(t, NoRise)
BY DEF RiseOf, NoRise

LEMMA AdmissionStarts == AdmissionInit => AdmissionInv
<1> SUFFICES ASSUME AdmissionInit PROVE AdmissionInv
  OBVIOUS
<1>1. DOMAIN deal = Desks /\ DOMAIN rising = Desks /\ \A d \in Desks : deal[d] = NoDeal /\ rising[d] = NoRise
  BY DEF AdmissionInit
<1>2. OneSide
  BY <1>1, NoDealIs DEF OneSide
<1> QED
  BY <1>1, <1>2, NoDealIs DEF AdmissionInv

(* A step of one desk, which keeps its side or takes one nobody is against.     *)
LEMMA OneDesk ==
  ASSUME AdmissionInv, NEW d \in Desks, NEW t, NEW r, DealIs(t), RiseOf(t, r),
         deal' = [deal EXCEPT ![d] = t] \/ (t = deal[d] /\ deal' = deal),
         rising' = [rising EXCEPT ![d] = r] \/ (r = rising[d] /\ rising' = rising),
         \/ ~Unfinished(t)
         \/ Unfinished(deal[d]) /\ t.side = deal[d].side
         \/ \A o \in Desks : Family[o] = Family[d] /\ Unfinished(deal[o]) => deal[o].side = t.side
  PROVE  AdmissionInv'
<1>1. /\ DOMAIN deal' = Desks /\ deal'[d] = t /\ \A o \in Desks : o # d => deal'[o] = deal[o]
  BY DEF AdmissionInv
<1>2. DOMAIN rising' = Desks /\ rising'[d] = r /\ \A o \in Desks : o # d => rising'[o] = rising[o]
  BY DEF AdmissionInv
<1>3. ASSUME NEW o \in Desks PROVE DealIs(deal'[o]) /\ RiseOf(deal'[o], rising'[o])
  <2>1. CASE o = d
    BY <1>1, <1>2, <2>1
  <2>2. CASE o # d
    BY <1>1, <1>2, <2>2 DEF AdmissionInv
  <2> QED
    BY <2>1, <2>2
<1>4. ASSUME NEW o \in Desks, Family[o] = Family[d], Unfinished(t), Unfinished(deal[o])
      PROVE  deal[o].side = t.side
  BY <1>4 DEF AdmissionInv, OneSide
<1>5. ASSUME NEW e \in Desks, NEW o \in Desks, Family[e] = Family[o], Unfinished(deal'[e]), Unfinished(deal'[o])
      PROVE  deal'[e].side = deal'[o].side
  <2>1. CASE e = d /\ o = d
    BY <2>1
  <2>2. CASE e = d /\ o # d
    BY <1>1, <1>4, <1>5, <2>2
  <2>3. CASE e # d /\ o = d
    BY <1>1, <1>4, <1>5, <2>3
  <2>4. CASE e # d /\ o # d
    BY <1>1, <1>5, <2>4 DEF AdmissionInv, OneSide
  <2> QED
    BY <2>1, <2>2, <2>3, <2>4
<1>6. ASSUME NEW e \in Desks, NEW o \in Desks, Family[e] = Family[o], Unfinished(deal[e])', Unfinished(deal[o])'
      PROVE  (deal[e].side = deal[o].side)'
  BY <1>5, <1>6 DEF Unfinished
<1>7. OneSide'
  BY <1>6 DEF OneSide
<1>8. ASSUME NEW o \in Desks PROVE (DealIs(deal[o]) /\ RiseOf(deal[o], rising[o]))'
  BY <1>3 DEF DealIs, RiseOf, Unfinished
<1> QED
  BY <1>1, <1>2, <1>7, <1>8 DEF AdmissionInv

LEMMA EntryStep == ASSUME AdmissionInv, NEW d \in Desks, AdmitEntry(d) PROVE AdmissionInv'
<1>1. PICK s \in 1 .. MaxSignals, side \in Sides, entry \in Quotes, dist \in Distances, wanted \in 1 .. MaxQty :
      LET stop == entry - Sign(side) * dist
          q == OpenQuantity(side, entry, stop, wanted)
      IN  /\ ~Unfinished(deal[d])
          /\ ~Opposed(d, side)
          /\ quote # 0 /\ side \in AllowedSides
          /\ ~Deviates(side, entry, stop)
          /\ s \notin processed[d]
          /\ equityKnown
          /\ q > 0 /\ ~PoorEconomics(dist, q)
          /\ deal' = [deal EXCEPT ![d] = [NoDeal EXCEPT !.phase = "ENTRY_PENDING", !.side = side,
                                                        !.stop = stop, !.dist = dist]]
          /\ rising' = [rising EXCEPT ![d] = [left |-> q, of |-> q, price |-> entry, risk |-> 2 * (dist + RoundTrip) * q]]
          /\ processed' = [processed EXCEPT ![d] = @ \union {s}]
          /\ justAdmitted' = TRUE
          /\ UNCHANGED <<balance, equity, equityKnown, quote>>
  BY Zenon DEF AdmitEntry
<1>2. PICK stop : stop = entry - Sign(side) * dist
  OBVIOUS
<1>3. PICK q : q = OpenQuantity(side, entry, stop, wanted)
  OBVIOUS
<1>4. PICK risk : risk = 2 * (dist + RoundTrip) * q
  OBVIOUS
<1>5. PICK t : t = [NoDeal EXCEPT !.phase = "ENTRY_PENDING", !.side = side, !.stop = stop, !.dist = dist]
  OBVIOUS
<1>6. PICK r : r = [left |-> q, of |-> q, price |-> entry, risk |-> risk]
  OBVIOUS
<1>7. deal' = [deal EXCEPT ![d] = t] /\ rising' = [rising EXCEPT ![d] = r] /\ ~Opposed(d, side)
  BY <1>1, <1>2, <1>3, <1>4, <1>5, <1>6
<1>8. DOMAIN t = {"phase", "side", "qty", "paid", "stop", "dist"} /\ t.qty = 0 /\ t.phase = "ENTRY_PENDING" /\ t.side = side
  BY <1>5 DEF NoDeal
<1>9. DealIs(t) /\ Unfinished(t)
  BY <1>8 DEF DealIs, Unfinished
<1>10. RiseOf(t, r)
  BY <1>6, <1>9 DEF RiseOf
<1>11. \A o \in Desks : Family[o] = Family[d] /\ Unfinished(deal[o]) => deal[o].side = t.side
  BY <1>7, <1>8 DEF Opposed
<1> QED
  BY <1>7, <1>9, <1>10, <1>11, OneDesk

LEMMA AddStep == ASSUME AdmissionInv, NEW d \in Desks, AdmitAdd(d) PROVE AdmissionInv'
<1>1. PICK limit \in Quotes, wanted \in 1 .. MaxQty :
        LET t == deal[d]
            fitting == {q \in 0 .. MaxQty : /\ WithinRisk(UsedRisk2) /\ WithinRisk(UsedRisk2 + AddedRisk(t, limit, q))
                                             /\ WithinMargin(UsedMargin + Margin * q)}
            q == LargestAllowed(fitting, Least(wanted, Most(0, MaxQty - t.qty)))
        IN  rising' = [rising EXCEPT ![d] = [left |-> q, of |-> q, price |-> limit, risk |-> AddedRisk(t, limit, q)]]
  BY DEF AdmitAdd
<1>2. PICK q : q = LargestAllowed({p \in 0 .. MaxQty : /\ WithinRisk(UsedRisk2) /\ WithinRisk(UsedRisk2 + AddedRisk(deal[d], limit, p))
                                                       /\ WithinMargin(UsedMargin + Margin * p)},
                                  Least(wanted, Most(0, MaxQty - deal[d].qty)))
  OBVIOUS
<1>3. PICK r : r = [left |-> q, of |-> q, price |-> limit, risk |-> AddedRisk(deal[d], limit, q)]
  OBVIOUS
<1>4. rising' = [rising EXCEPT ![d] = r]
  BY <1>1, <1>2, <1>3
<1>5. DOMAIN r = {"left", "of", "price", "risk"}
  BY <1>3
<1>6. deal[d].phase = "OPEN" /\ deal' = deal
  BY DEF AdmitAdd
<1>7. DealIs(deal[d])
  BY DEF AdmissionInv
<1>8. Unfinished(deal[d]) /\ RiseOf(deal[d], r)
  BY <1>5, <1>6, <1>7 DEF Unfinished, RiseOf, DealIs
<1> QED
  BY <1>4, <1>6, <1>7, <1>8, OneDesk

LEMMA FillStep == ASSUME AdmissionInv, NEW d \in Desks, IncreaseFills(d) PROVE AdmissionInv'
<1>1. PICK f \in 1 .. rising[d].left, better \in 0 .. 1 :
        LET t == deal[d]
            price == rising[d].price - Sign(t.side) * better
            filled == [t EXCEPT !.phase = "OPEN", !.qty = @ + f, !.paid = @ + price * f]
        IN  /\ deal' = [deal EXCEPT ![d] = [filled EXCEPT !.stop = Rebased(filled)]]
            /\ rising' = [rising EXCEPT ![d] = IF f = rising[d].left THEN NoRise
                                               ELSE [rising[d] EXCEPT !.left = @ - f]]
  BY DEF IncreaseFills
<1>2. PICK price : price = rising[d].price - Sign(deal[d].side) * better
  OBVIOUS
<1>3. PICK filled : filled = [deal[d] EXCEPT !.phase = "OPEN", !.qty = @ + f, !.paid = @ + price * f]
  OBVIOUS
<1>4. PICK stop : stop = Rebased(filled)
  OBVIOUS
<1>5. PICK t : t = [filled EXCEPT !.stop = stop]
  OBVIOUS
<1>6. PICK r : r = IF f = rising[d].left THEN NoRise ELSE [rising[d] EXCEPT !.left = rising[d].left - f]
  OBVIOUS
<1>7. deal' = [deal EXCEPT ![d] = t]
  BY <1>1, <1>2, <1>3, <1>4, <1>5
<1>8. rising' = [rising EXCEPT ![d] = r]
  BY <1>1, <1>6
<1>9. f \in Nat /\ f >= 1 /\ rising[d].left # 0
  OBVIOUS
<1>10. DealIs(deal[d]) /\ RiseOf(deal[d], rising[d])
  BY DEF AdmissionInv
<1>11. DOMAIN filled = DOMAIN deal[d] /\ filled.phase = "OPEN" /\ filled.qty = deal[d].qty + f /\ filled.side = deal[d].side
  BY <1>3, <1>10 DEF DealIs
<1>12. DOMAIN t = DOMAIN deal[d] /\ t.phase = "OPEN" /\ t.qty = deal[d].qty + f /\ t.side = deal[d].side
  BY <1>5, <1>10, <1>11 DEF DealIs
<1>13. DealIs(t) /\ Unfinished(t) /\ Unfinished(deal[d])
  BY <1>9, <1>10, <1>12 DEF DealIs, RiseOf, Unfinished
<1>14. RiseOf(t, r)
  BY <1>6, <1>10, <1>13 DEF RiseOf, NoRise
<1> QED
  BY <1>7, <1>8, <1>12, <1>13, <1>14, OneDesk

LEMMA CancelStep == ASSUME AdmissionInv, NEW d \in Desks, IncreaseCancelled(d) PROVE AdmissionInv'
<1>1. PICK phase : phase = IF deal[d].qty = 0 THEN "CANCELLED" ELSE deal[d].phase
  OBVIOUS
<1>2. PICK t : t = [deal[d] EXCEPT !.phase = phase]
  OBVIOUS
<1>3. DealIs(deal[d])
  BY DEF AdmissionInv
<1>4. DOMAIN t = DOMAIN deal[d] /\ t.phase = phase /\ t.qty = deal[d].qty /\ t.side = deal[d].side
  BY <1>2, <1>3 DEF DealIs
<1>5. DealIs(t) /\ (Unfinished(t) => Unfinished(deal[d]))
  BY <1>1, <1>3, <1>4 DEF DealIs, Unfinished
<1>6. deal' = [deal EXCEPT ![d] = t] /\ rising' = [rising EXCEPT ![d] = NoRise]
  BY <1>1, <1>2, <1>3 DEF IncreaseCancelled, AdmissionInv
<1> QED
  BY <1>4, <1>5, <1>6, NoRiseIs, OneDesk

LEMMA StopStep == ASSUME AdmissionInv, NEW d \in Desks, StopMoves(d) PROVE AdmissionInv'
<1>1. PICK stop : stop = deal[d].stop + Sign(deal[d].side)
  OBVIOUS
<1>2. PICK t : t = [deal[d] EXCEPT !.stop = stop]
  OBVIOUS
<1>3. DealIs(deal[d]) /\ RiseOf(deal[d], rising[d]) /\ deal[d].qty > 0
  BY DEF AdmissionInv, StopMoves
<1>4. DOMAIN t = DOMAIN deal[d] /\ t.phase = deal[d].phase /\ t.qty = deal[d].qty /\ t.side = deal[d].side
  BY <1>2, <1>3 DEF DealIs
<1>5. DealIs(t) /\ Unfinished(t) /\ Unfinished(deal[d]) /\ RiseOf(t, rising[d])
  BY <1>3, <1>4 DEF DealIs, Unfinished, RiseOf
<1>6. deal' = [deal EXCEPT ![d] = t] /\ rising' = rising
  BY <1>1, <1>2, <1>3 DEF StopMoves, AdmissionInv
<1> QED
  BY <1>4, <1>5, <1>6, OneDesk

LEMMA CloseStep == ASSUME AdmissionInv, NEW d \in Desks, PositionCloses(d) PROVE AdmissionInv'
<1>1. PICK t : t = [NoDeal EXCEPT !.phase = "CLOSED"]
  OBVIOUS
<1>2. DealIs(t) /\ ~Unfinished(t)
  BY <1>1 DEF NoDeal, DealIs, Unfinished
<1>3. deal' = [deal EXCEPT ![d] = t] /\ rising' = [rising EXCEPT ![d] = NoRise]
  BY <1>1 DEF PositionCloses
<1> QED
  BY <1>2, <1>3, NoRiseIs, OneDesk

LEMMA AdmissionSteps == AdmissionInv /\ [AdmissionNext]_admissionVars => AdmissionInv'
<1> SUFFICES ASSUME AdmissionInv, [AdmissionNext]_admissionVars PROVE AdmissionInv'
  OBVIOUS
<1>1. CASE \E d \in Desks : AdmitEntry(d) \/ AdmitAdd(d) \/ IncreaseFills(d) \/ IncreaseCancelled(d)
                            \/ StopMoves(d) \/ PositionCloses(d)
  BY <1>1, EntryStep, AddStep, FillStep, CancelStep, StopStep, CloseStep
<1>2. CASE UNCHANGED <<deal, rising>>
  BY <1>2 DEF AdmissionInv, OneSide, DealIs, RiseOf, Unfinished
<1> QED
  BY <1>1, <1>2 DEF AdmissionNext, MarkToMarket, QuoteMoves, admissionVars

-----------------------------------------------------------------------------
(* The loop of a historical run. Every candle between two executed ones has     *)
(* been executed, and the tails that were noted as processed are no later; so  *)
(* once the tails are proven, nothing after the first executed minute is        *)
(* missing. Until a tick gets through, every minute has cost a failure.         *)
AllProven == \A p \in Papers : proven[p] >= LastBar(p)
Unread ==
    /\ \A p \in Papers : played[p] = {}
    /\ loopAt # "execute" /\ now <= misses + (IF loopAt \in {"idle", "ended"} THEN 0 ELSE 1)
NothingAhead == \A p \in Papers : \A m \in bars[p] : m <= now
WithoutHoles(all, done) == \A m \in all, a, b \in done : a <= m /\ m <= b => m \in done
SessionParts == {"stop", "broken", "exhausted", "limited", "terminal", "source", "complete"}
HoleParts == {"open", "last", "empty", "found", "at"}
LoopTypes ==
    /\ bars \in [Papers -> SUBSET (0 .. RangeEnd - 1)] /\ \A p \in Papers : 0 \in bars[p]
    /\ now \in 0 .. RangeEnd /\ loaded \in [Papers -> 0 .. RangeEnd] /\ failed \subseteq Papers
    /\ event \in 0 .. RangeEnd - 1 /\ misses \in 0 .. MaxMisses
    /\ loopAt \in {"idle", "close", "search", "route", "execute", "ended"}
    /\ DOMAIN hole = HoleParts /\ hole.at \in Int /\ hole.empty \in Nat
    /\ hole.empty <= misses + (IF loopAt = "search" THEN 2 ELSE 1)
    /\ DOMAIN session = SessionParts
TailIs(done, tail) == tail \in Int /\ (tail # None => \E b \in done : tail <= b)
PlayedInv == \A p \in Papers :
    played[p] \subseteq bars[p] /\ WithoutHoles(bars[p], played[p]) /\ TailIs(played[p], proven[p])
EndsInv ==
    /\ session.complete => AllProven \/ Unread
    /\ hole.found = "end" => NothingAhead
    /\ session.exhausted /\ ~session.limited => NothingAhead
LoopInv == LoopTypes /\ PlayedInv /\ EndsInv

LEMMA LatestOf ==
  ASSUME NEW n \in Nat, NEW S, S \subseteq 0 .. n, S # {}
  PROVE  Max(S) \in S /\ \A y \in S : y <= Max(S)
<1>1. \E x \in S : \A y \in S : x >= y
  <2>1. CASE S \cap 1 .. n = {}
    <3>2. ASSUME NEW y \in S PROVE y = 0
      <4>1. y \in 0 .. n /\ y \notin 1 .. n
        BY <2>1
      <4> QED
        BY <4>1
    <3>1. S = {0}
      BY <3>2
    <3> QED
      BY <3>1
  <2>2. CASE S \cap 1 .. n # {}
    <3>1. PICK x \in S \cap 1 .. n : \A y \in S \cap 1 .. n : x >= y
      BY <2>2, LargestExists
    <3>2. \A y \in S : y \in S \cap 1 .. n \/ y = 0
      OBVIOUS
    <3>3. x \in S /\ x >= 0
      BY <3>1
    <3> QED
      BY <3>1, <3>2, <3>3
  <2> QED
    BY <2>1, <2>2
<1> QED
  BY <1>1 DEF Max

LEMMA BarsAre ==
  ASSUME LoopTypes, NEW p \in Papers
  PROVE  /\ bars[p] \subseteq 0 .. RangeEnd - 1 /\ bars[p] \subseteq Nat /\ RangeEnd \in Nat \ {0} /\ MaxMisses \in Nat
         /\ LastBar(p) \in bars[p] /\ LastBar(p) \in Nat /\ \A m \in bars[p] : m <= LastBar(p)
<1>1. bars[p] \subseteq 0 .. RangeEnd - 1 /\ bars[p] # {} /\ RangeEnd \in Nat \ {0} /\ RangeEnd - 1 \in Nat /\ MaxMisses \in Nat
  BY LoopAssumption DEF LoopTypes
<1>2. Max(bars[p]) \in bars[p] /\ \A y \in bars[p] : y <= Max(bars[p])
  <2>1. PICK n \in Nat : n = RangeEnd - 1
    BY <1>1
  <2> QED
    BY <1>1, <2>1, LatestOf
<1> QED
  BY <1>1, <1>2 DEF LastBar

LEMMA LoopStarts == LoopInit => LoopInv
<1> SUFFICES ASSUME LoopInit PROVE LoopInv
  OBVIOUS
<1>1. bars \in [Papers -> {b \in SUBSET (0 .. RangeEnd - 1) : 0 \in b}]
  BY DEF LoopInit
<1>2. RangeEnd \in Nat /\ RangeEnd > 0 /\ MaxMisses \in Nat
  BY LoopAssumption
<1>3. /\ loopAt = "idle" /\ now = 0 /\ misses = 0 /\ failed = {} /\ hole = NoHole /\ event \in 0 .. RangeEnd - 1
      /\ loaded = [p \in Papers |-> 0] /\ played = [p \in Papers |-> {}] /\ proven = [p \in Papers |-> None]
      /\ session = [stop |-> FALSE, broken |-> FALSE, exhausted |-> FALSE, limited |-> FALSE,
                    terminal |-> FALSE, source |-> FALSE, complete |-> TRUE]
  BY DEF LoopInit
<1>4. DOMAIN hole = HoleParts /\ hole.at = -1 /\ hole.empty = 0 /\ hole.found = "nothing"
  BY <1>3 DEF NoHole, None, HoleParts
<1>5. DOMAIN session = SessionParts /\ session.exhausted = FALSE
  BY <1>3 DEF SessionParts
<1>6. loaded \in [Papers -> 0 .. RangeEnd]
  BY <1>2, <1>3
<1>7. LoopTypes
  BY <1>1, <1>2, <1>3, <1>4, <1>5, <1>6 DEF LoopTypes
<1>8. PlayedInv
  BY <1>3 DEF PlayedInv, WithoutHoles, TailIs, None
<1>9. Unread
  BY <1>3 DEF Unread
<1> QED
  BY <1>4, <1>5, <1>7, <1>8, <1>9 DEF LoopInv, EndsInv

LEMMA PlayedStays == PlayedInv /\ UNCHANGED <<bars, played, proven>> => PlayedInv'
BY DEF PlayedInv

LEMMA EndsStay ==
  ASSUME LoopInv, UNCHANGED <<bars, played, proven>>, now' \in Nat, now' >= now, loopAt' # "execute",
         session'.complete = session.complete, session'.exhausted = session.exhausted,
         session'.limited = session.limited, hole'.found = hole.found \/ hole'.found # "end",
         now' <= misses' + (IF loopAt' \in {"idle", "ended"} THEN 0 ELSE 1)
             \/ ~(now <= misses + (IF loopAt \in {"idle", "ended"} THEN 0 ELSE 1))
  PROVE  EndsInv'
<1>1. NothingAhead => NothingAhead'
  <2> SUFFICES ASSUME NothingAhead, NEW p \in Papers, NEW m \in bars'[p] PROVE m <= now'
    BY DEF NothingAhead
  <2>1. m \in bars[p] /\ m <= now /\ m \in Nat /\ now \in Nat
    BY BarsAre DEF NothingAhead, LoopInv, LoopTypes
  <2> QED
    BY <2>1
<1>2. AllProven => AllProven'
  BY DEF AllProven, LastBar
<1>3. Unread => Unread'
  BY DEF Unread
<1> QED
  BY <1>1, <1>2, <1>3 DEF EndsInv, LoopInv

LEMMA RequestStopStep == LoopInv /\ RequestStop => LoopInv'
<1> SUFFICES ASSUME LoopInv, RequestStop PROVE LoopInv'
  OBVIOUS
<1>1. LoopTypes
  BY DEF LoopInv
<1>2. /\ misses < MaxMisses /\ misses' = misses + 1 /\ session' = [session EXCEPT !.stop = TRUE] /\ loopAt # "ended"
      /\ UNCHANGED <<bars, event, loopAt, now, loaded, failed, hole, played, proven>>
  BY DEF RequestStop, market
<1>3. DOMAIN session' = SessionParts /\ session'.complete = session.complete
      /\ session'.exhausted = session.exhausted /\ session'.limited = session.limited
  BY <1>1, <1>2 DEF LoopTypes, SessionParts
<1>4. LoopTypes'
  BY <1>1, <1>2, <1>3, LoopAssumption DEF LoopTypes
<1>5. PlayedInv'
  BY <1>2, PlayedStays DEF LoopInv
<1>6. EndsInv'
  <2>1. NothingAhead' = NothingAhead /\ AllProven' = AllProven
    BY <1>2 DEF NothingAhead, AllProven, LastBar
  <2>2. now \in Nat /\ misses \in Nat /\ now' = now /\ misses' = misses + 1
    BY <1>1, <1>2, LoopAssumption DEF LoopTypes
  <2>3. Unread => Unread'
    BY <1>2, <2>2 DEF Unread
  <2> QED
    BY <1>2, <1>3, <2>1, <2>3 DEF LoopInv, EndsInv
<1> QED
  BY <1>4, <1>5, <1>6 DEF LoopInv

LEMMA AdvanceStep == LoopInv /\ Advance => LoopInv'
<1> SUFFICES ASSUME LoopInv, Advance PROVE LoopInv'
  OBVIOUS
<1>1. LoopTypes
  BY DEF LoopInv
<1>2. PICK got :
        /\ got \in {Papers} \cup (IF misses < MaxMisses THEN SUBSET Papers ELSE {})
        /\ now' = Step
        /\ loaded' = Reach(got, Step)
        /\ \/ failed' = failed \ got
           \/ \E worst \in Papers \ got : failed' = (failed \ got) \cup {worst}
        /\ misses' = IF got = Papers THEN misses ELSE misses + 1
        /\ loopAt' \in (IF got = Papers THEN {"close"} ELSE {"idle", "route"})
  BY DEF Advance
<1>3. loopAt = "idle" /\ ~Stopped /\ UNCHANGED <<bars, event, hole, played, proven, session>>
  BY DEF Advance, market
<1>4. got \subseteq Papers /\ (got # Papers => misses < MaxMisses)
  BY <1>2
<1>5. now \in Nat /\ now + 1 \in 0 .. RangeEnd /\ now' = now + 1 /\ Step = now + 1 /\ misses \in Nat /\ MaxMisses \in Nat
  BY <1>1, <1>2, <1>3, LoopAssumption DEF LoopTypes, Stopped, Finished, Step
<1>6. loaded' \in [Papers -> 0 .. RangeEnd]
  BY <1>1, <1>2, <1>5 DEF LoopTypes, Reach
<1>7. failed' \subseteq Papers
  BY <1>1, <1>2 DEF LoopTypes
<1>8. misses' \in 0 .. MaxMisses /\ misses' >= misses /\ misses' \in Nat
  BY <1>1, <1>2, <1>4, <1>5 DEF LoopTypes
<1>9. loopAt' \in {"close", "idle", "route"} /\ (loopAt' = "idle" => misses' = misses + 1)
  BY <1>2
<1>10. LoopTypes'
  <2>1. hole'.empty <= misses' + 1 /\ hole' = hole
    BY <1>1, <1>3, <1>5, <1>8 DEF LoopTypes
  <2> QED
    BY <1>1, <1>3, <1>5, <1>6, <1>7, <1>8, <1>9, <2>1 DEF LoopTypes
<1>11. PlayedInv'
  BY <1>3, PlayedStays DEF LoopInv
<1>12. now <= misses => now' <= misses' + (IF loopAt' \in {"idle", "ended"} THEN 0 ELSE 1)
  <2>1. CASE loopAt' = "idle"
    BY <1>5, <1>9, <2>1
  <2>2. CASE loopAt' \in {"close", "route"}
    <3>1. (IF loopAt' \in {"idle", "ended"} THEN 0 ELSE 1) = 1
      BY <2>2
    <3>3. PICK more : more = misses'
      OBVIOUS
    <3>4. more \in Nat /\ misses <= more
      BY <1>8, <3>3
    <3>5. now <= misses => now + 1 <= more + 1
      BY <1>5, <3>4
    <3>2. now <= misses => now' <= misses' + 1
      BY <1>5, <3>3, <3>5
    <3> QED
      BY <3>1, <3>2
  <2> QED
    BY <1>9, <2>1, <2>2
<1>13. EndsInv'
  <2>1. now' \in Nat /\ now' >= now /\ loopAt' # "execute"
    BY <1>5, <1>9
  <2>2. \/ now' <= misses' + (IF loopAt' \in {"idle", "ended"} THEN 0 ELSE 1)
        \/ ~(now <= misses + (IF loopAt \in {"idle", "ended"} THEN 0 ELSE 1))
    BY <1>3, <1>5, <1>12
  <2> QED
    BY <1>3, <2>1, <2>2, EndsStay
<1> QED
  BY <1>10, <1>11, <1>13 DEF LoopInv

LEMMA CloseTickStep == LoopInv /\ CloseTick => LoopInv'
<1> SUFFICES ASSUME LoopInv, CloseTick PROVE LoopInv'
  OBVIOUS
<1>1. LoopTypes
  BY DEF LoopInv
<1>2. loopAt = "close" /\ UNCHANGED <<bars, event, now, loaded, failed, played, proven, session, misses>>
  BY DEF CloseTick, market
<1>3. hole.empty \in Nat /\ hole.empty <= misses + 1 /\ misses \in Nat /\ now \in Nat
  BY <1>1, <1>2, LoopAssumption DEF LoopTypes
<1>4. /\ DOMAIN hole' = HoleParts /\ hole'.at \in Int /\ hole'.empty \in Nat
      /\ loopAt' \in {"route", "search"} /\ hole'.empty <= misses + (IF loopAt' = "search" THEN 2 ELSE 1)
      /\ hole'.found = hole.found \/ hole'.found # "end"
  <2>1. CASE hole' = NoHole /\ loopAt' = "route"
    BY <1>3, <2>1 DEF NoHole, HoleParts, None
  <2>2. CASE /\ hole' = [hole EXCEPT !.open = TRUE, !.empty = @ + 1, !.last = IF hole.open THEN @ ELSE LastClosed]
             /\ loopAt' = IF hole.empty + 1 < ConsecutiveEmptyTicks THEN "route" ELSE "search"
    <3>1. PICK last : last = IF hole.open THEN hole.last ELSE LastClosed
      OBVIOUS
    <3>2. hole' = [hole EXCEPT !.open = TRUE, !.empty = hole.empty + 1, !.last = last]
      BY <2>2, <3>1
    <3>3. DOMAIN hole' = HoleParts /\ hole'.at = hole.at /\ hole'.empty = hole.empty + 1 /\ hole'.found = hole.found
      BY <1>1, <3>2 DEF LoopTypes, HoleParts
    <3>4. hole.at \in Int
      BY <1>1 DEF LoopTypes
    <3>5. loopAt' = (IF hole.empty + 1 < 2 THEN "route" ELSE "search")
      BY <2>2 DEF ConsecutiveEmptyTicks
    <3> QED
      BY <1>3, <3>3, <3>4, <3>5
  <2> QED
    BY <2>1, <2>2 DEF CloseTick
<1>5. LoopTypes'
  BY <1>1, <1>2, <1>4 DEF LoopTypes
<1>6. PlayedInv'
  BY <1>2, PlayedStays DEF LoopInv
<1>7. EndsInv'
  <2>1. now' \in Nat /\ now' >= now /\ loopAt' # "execute"
    BY <1>2, <1>3, <1>4
  <2>2. \/ now' <= misses' + (IF loopAt' \in {"idle", "ended"} THEN 0 ELSE 1)
        \/ ~(now <= misses + (IF loopAt \in {"idle", "ended"} THEN 0 ELSE 1))
    BY <1>2, <1>3, <1>4
  <2> QED
    BY <1>2, <1>4, <2>1, <2>2, EndsStay
<1> QED
  BY <1>5, <1>6, <1>7 DEF LoopInv

LEMMA SearchStep == LoopInv /\ Search => LoopInv'
<1> SUFFICES ASSUME LoopInv, Search PROVE LoopInv'
  OBVIOUS
<1>1. LoopTypes
  BY DEF LoopInv
<1>2. loopAt = "search" /\ loopAt' = "route" /\ UNCHANGED <<bars, event, now, loaded, played, proven, session>>
  BY DEF Search, market
<1>3. PICK got :
        /\ got \in {Papers} \cup (IF misses < MaxMisses THEN SUBSET Papers ELSE {})
        /\ LET silent == IF Ceiling <= now THEN {} ELSE Papers \ got
               bad == IF Ceiling <= now THEN failed ELSE (failed \ got) \cup silent
               resume == IF Later(got) = {} THEN None ELSE Min(Later(got))
           IN /\ failed' = bad
              /\ misses' = IF silent = {} THEN misses ELSE misses + 1
              /\ \/ resume = None /\ silent # {} /\ UNCHANGED hole
                 \/ hole' = [hole EXCEPT !.found = "event", !.at = event, !.empty = 0]
                 \/ resume # None /\ hole' = [NoHole EXCEPT !.found = "gap", !.at = resume]
                 \/ hole' = [NoHole EXCEPT !.found = "terminal"]
                 \/ /\ resume = None /\ silent = {}
                    /\ hole' = [NoHole EXCEPT !.found = IF Ceiling < RangeEnd THEN "limited" ELSE "end"]
  BY DEF Search
<1>4. PICK silent : silent = IF Ceiling <= now THEN {} ELSE Papers \ got
  OBVIOUS
<1>5. PICK resume : resume = IF Later(got) = {} THEN None ELSE Min(Later(got))
  OBVIOUS
<1>6. failed' = (IF Ceiling <= now THEN failed ELSE (failed \ got) \cup silent)
  BY <1>3, <1>4
<1>7. misses' = IF silent = {} THEN misses ELSE misses + 1
  BY <1>3, <1>4
<1>8. \/ silent # {} /\ UNCHANGED hole
      \/ hole' = [hole EXCEPT !.found = "event", !.at = event, !.empty = 0]
      \/ resume # None /\ hole' = [NoHole EXCEPT !.found = "gap", !.at = resume]
      \/ hole' = [NoHole EXCEPT !.found = "terminal"]
      \/ /\ resume = None /\ silent = {}
         /\ hole' = [NoHole EXCEPT !.found = IF Ceiling < RangeEnd THEN "limited" ELSE "end"]
  BY <1>3, <1>4, <1>5
<1>9. got \subseteq Papers /\ (got # Papers => misses < MaxMisses) /\ silent \subseteq Papers
  BY <1>3, <1>4
<1>10. now \in Nat /\ misses \in Nat /\ MaxMisses \in Nat /\ event \in Int /\ hole.empty \in Nat /\ hole.empty <= misses + 2
       /\ RangeEnd \in Nat /\ Lookahead \in Nat
  BY <1>1, <1>2, LoopAssumption DEF LoopTypes
<1>11. failed' \subseteq Papers
  BY <1>1, <1>6, <1>9 DEF LoopTypes
<1>12. silent # {} => misses < MaxMisses
  <2>1. silent # {} => got # Papers
    BY <1>4
  <2> QED
    BY <1>9, <2>1
<1>13. misses' \in 0 .. MaxMisses /\ misses' >= misses /\ misses' \in Nat
  BY <1>1, <1>7, <1>10, <1>12 DEF LoopTypes
<1>14. Later(got) \subseteq Nat
  BY <1>1, <1>9, BarsAre DEF Later
<1>15. resume \in Int /\ (resume = None => Later(got) = {})
  <2>1. Later(got) # {} => Min(Later(got)) \in Nat
    BY <1>14, MinIs
  <2> QED
    BY <1>5, <2>1 DEF None
<1>22. PICK more : more = misses'
  OBVIOUS
<1>23. more \in Nat /\ misses <= more
  BY <1>13, <1>22
<1>24. now \in Nat /\ misses \in Nat /\ (now <= misses + 1 => now <= more + 1) /\ 0 <= more + 1
  BY <1>10, <1>23
<1>25. misses' + 1 = more + 1
  BY <1>22
<1>16. DOMAIN hole' = HoleParts /\ hole'.at \in Int /\ hole'.empty \in Nat /\ hole'.empty <= misses' + 1
  <2>1. CASE silent # {} /\ UNCHANGED hole
    BY <1>1, <1>7, <1>10, <2>1 DEF LoopTypes
  <2>2. CASE hole' = [hole EXCEPT !.found = "event", !.at = event, !.empty = 0]
    <3>1. DOMAIN hole' = HoleParts /\ hole'.at = event /\ hole'.empty = 0
      BY <1>1, <2>2 DEF LoopTypes, HoleParts
    <3> QED
      BY <1>10, <1>24, <1>25, <3>1
  <2>3. CASE hole' = [NoHole EXCEPT !.found = "gap", !.at = resume]
    <3>1. DOMAIN hole' = HoleParts /\ hole'.at = resume /\ hole'.empty = 0
      BY <2>3 DEF NoHole, HoleParts
    <3> QED
      BY <1>10, <1>15, <1>24, <1>25, <3>1
  <2>4. CASE \E f : hole' = [NoHole EXCEPT !.found = f]
    <3>1. DOMAIN hole' = HoleParts /\ hole'.at = None /\ hole'.empty = 0
      BY <2>4 DEF NoHole, HoleParts
    <3> QED
      BY <1>10, <1>24, <1>25, <3>1 DEF None
  <2> QED
    BY <1>8, <2>1, <2>2, <2>3, <2>4
<1>17. LoopTypes'
  BY <1>1, <1>2, <1>11, <1>13, <1>16 DEF LoopTypes
<1>18. PlayedInv'
  BY <1>2, PlayedStays DEF LoopInv
<1>19. hole'.found = "end" => hole'.found = hole.found \/ (resume = None /\ silent = {} /\ ~(Ceiling < RangeEnd))
  <2>1. hole' = [hole EXCEPT !.found = "event", !.at = event, !.empty = 0] => hole'.found = "event"
    BY <1>1 DEF LoopTypes, HoleParts
  <2>2. /\ hole' = [NoHole EXCEPT !.found = "gap", !.at = resume] => hole'.found = "gap"
        /\ hole' = [NoHole EXCEPT !.found = "terminal"] => hole'.found = "terminal"
        /\ \A f : hole' = [NoHole EXCEPT !.found = f] => hole'.found = f
    BY DEF NoHole
  <2> QED
    BY <1>8, <2>1, <2>2
<1>20. ASSUME resume = None, silent = {}, ~(Ceiling < RangeEnd) PROVE NothingAhead
  <2> SUFFICES ASSUME NEW p \in Papers, NEW m \in bars[p] PROVE m <= now
    BY DEF NothingAhead
  <2>1. m \in Nat /\ m < RangeEnd /\ bars[p] \subseteq Nat
    BY <1>1, BarsAre, LoopAssumption
  <2>2. Ceiling = RangeEnd
    BY <1>10, <1>20 DEF Ceiling
  <2>3. CASE Ceiling <= now
    BY <1>10, <2>1, <2>2, <2>3
  <2>4. CASE ~(Ceiling <= now)
    <3>1. p \in got
      BY <1>4, <1>20, <2>4
    <3>2. m \notin Later(got)
      BY <1>15, <1>20
    <3>3. ~(now < m /\ m < Ceiling)
      BY <3>1, <3>2 DEF Later
    <3> QED
      BY <1>10, <2>1, <2>2, <3>3
  <2> QED
    BY <2>3, <2>4
<1>21. EndsInv'
  <2>1. NothingAhead' = NothingAhead /\ AllProven' = AllProven
    BY <1>2 DEF NothingAhead, AllProven, LastBar
  <2>2. Unread => Unread'
    <3>1. now <= misses + 1 => now' <= misses' + 1
      BY <1>2, <1>24, <1>25
    <3>2. (IF loopAt \in {"idle", "ended"} THEN 0 ELSE 1) = 1 /\ (IF loopAt \in {"idle", "ended"} THEN 0 ELSE 1)' = 1
      BY <1>2
    <3> QED
      BY <1>2, <3>1, <3>2 DEF Unread
  <2>3. hole'.found = "end" => NothingAhead
    BY <1>19, <1>20 DEF LoopInv, EndsInv
  <2> QED
    BY <1>2, <2>1, <2>2, <2>3 DEF LoopInv, EndsInv
<1> QED
  BY <1>17, <1>18, <1>21 DEF LoopInv

LEMMA JumpIs ==
  ASSUME LoopTypes, NEW to \in Int
  PROVE  Jump(to) \in 0 .. RangeEnd /\ Jump(to) >= now
<1>1. now \in 0 .. RangeEnd /\ RangeEnd \in Nat
  BY LoopAssumption DEF LoopTypes
<1>2. CASE Finished \/ to <= now
  BY <1>1, <1>2 DEF Jump
<1>3. CASE ~(Finished \/ to <= now)
  <2>1. to \in Nat /\ to > now /\ {to, RangeEnd} \subseteq Nat
    BY <1>1, <1>3
  <2>2. PICK m : m = Min({to, RangeEnd})
    OBVIOUS
  <2>3. m \in {to, RangeEnd} /\ m <= RangeEnd
    BY <2>1, <2>2, MinIs
  <2>4. Jump(to) = m
    BY <1>3, <2>2 DEF Jump
  <2> QED
    BY <1>1, <2>1, <2>3, <2>4
<1> QED
  BY <1>2, <1>3

LEMMA RouteStep == LoopInv /\ Route => LoopInv'
<1> SUFFICES ASSUME LoopInv, Route PROVE LoopInv'
  OBVIOUS
<1>1. LoopTypes
  BY DEF LoopInv
<1>2. PICK status : status = [session EXCEPT !.source = failed # {}, !.complete = DriversProven(failed, proven)]
  OBVIOUS
<1>3. DOMAIN status = SessionParts /\ status.complete = DriversProven(failed, proven)
      /\ status.exhausted = session.exhausted /\ status.limited = session.limited
  BY <1>1, <1>2 DEF LoopTypes, SessionParts
<1>4. \/ loopAt' = "idle" /\ now' = Jump(hole.at) /\ \E broken \in BOOLEAN : session' = [status EXCEPT !.broken = broken]
      \/ loopAt' = "idle" /\ now' = Jump(RangeEnd) /\ session' = [status EXCEPT !.terminal = TRUE]
      \/ /\ hole.found \in {"end", "limited"} /\ loopAt' = "execute" /\ now' = now
         /\ session' = [status EXCEPT !.exhausted = TRUE, !.limited = hole.found = "limited"]
      \/ loopAt' = "idle" /\ now' = Jump(hole.at) /\ session' = status
      \/ loopAt' = "execute" /\ now' = now /\ session' = status
  BY <1>2, Zenon DEF Route
<1>5. /\ loopAt = "route" /\ hole' = [hole EXCEPT !.found = "nothing", !.at = None]
      /\ UNCHANGED <<bars, event, loaded, failed, played, proven, misses>>
  BY DEF Route, market
<1>6. now \in Nat /\ now \in 0 .. RangeEnd /\ RangeEnd \in Nat /\ hole.at \in Int /\ misses \in Nat
  BY <1>1, LoopAssumption DEF LoopTypes
<1>7. now' \in 0 .. RangeEnd /\ now' >= now /\ loopAt' \in {"idle", "execute"}
  BY <1>1, <1>4, <1>6, JumpIs
<1>8. DOMAIN hole' = HoleParts /\ hole'.at \in Int /\ hole'.empty = hole.empty /\ hole'.found = "nothing"
  BY <1>1, <1>5 DEF LoopTypes, HoleParts, None
<1>9. /\ DOMAIN session' = SessionParts /\ session'.complete = DriversProven(failed, proven)
      /\ \/ session'.exhausted = session.exhausted /\ session'.limited = session.limited
         \/ hole.found = "end"
         \/ session'.limited
  <2>1. ASSUME NEW broken, session' = [status EXCEPT !.broken = broken]
        PROVE  DOMAIN session' = SessionParts /\ session'.complete = DriversProven(failed, proven)
               /\ session'.exhausted = session.exhausted /\ session'.limited = session.limited
    BY <1>3, <2>1 DEF SessionParts
  <2>2. CASE session' = [status EXCEPT !.terminal = TRUE]
    BY <1>3, <2>2 DEF SessionParts
  <2>3. CASE /\ hole.found \in {"end", "limited"}
             /\ session' = [status EXCEPT !.exhausted = TRUE, !.limited = hole.found = "limited"]
    <3>1. PICK l : l = (hole.found = "limited")
      OBVIOUS
    <3>2. session' = [status EXCEPT !.exhausted = TRUE, !.limited = l]
      BY <2>3, <3>1
    <3>3. DOMAIN session' = SessionParts /\ session'.complete = DriversProven(failed, proven) /\ session'.limited = l
      BY <1>3, <3>2 DEF SessionParts
    <3> QED
      BY <2>3, <3>1, <3>3
  <2>4. CASE session' = status
    BY <1>3, <2>4
  <2> QED
    BY <1>4, <2>1, <2>2, <2>3, <2>4
<1>10. LoopTypes'
  <2>1. hole'.empty \in Nat /\ hole'.empty <= misses' + 1
    BY <1>1, <1>5, <1>8 DEF LoopTypes
  <2> QED
    BY <1>1, <1>5, <1>7, <1>8, <1>9, <2>1 DEF LoopTypes
<1>11. PlayedInv'
  BY <1>5, PlayedStays DEF LoopInv
<1>12. NothingAhead => NothingAhead'
  <2> SUFFICES ASSUME NothingAhead, NEW p \in Papers, NEW m \in bars'[p] PROVE m <= now'
    BY DEF NothingAhead
  <2>1. m \in bars[p] /\ m <= now /\ m \in Nat /\ now' \in Nat
    BY <1>1, <1>5, <1>7, BarsAre DEF NothingAhead
  <2> QED
    BY <1>6, <1>7, <2>1
<1>13. session'.complete => AllProven'
  <2>1. session'.complete => AllProven
    BY <1>9 DEF DriversProven, DriversComplete, AllProven
  <2> QED
    BY <1>5, <2>1 DEF AllProven, LastBar
<1>14. EndsInv'
  BY <1>8, <1>9, <1>12, <1>13 DEF LoopInv, EndsInv
<1> QED
  BY <1>10, <1>11, <1>14 DEF LoopInv

(* What execution adds to the executed candles of an instrument.               *)
LEMMA ClosedAre ==
  ASSUME LoopTypes, NEW p \in Papers, Closed(p, loaded[p]) # {}
  PROVE  /\ Max(Closed(p, loaded[p])) \in Closed(p, loaded[p]) /\ Max(Closed(p, loaded[p])) \in Nat
         /\ \A m \in Closed(p, loaded[p]) : m <= Max(Closed(p, loaded[p]))
<1>1. PICK n : n = RangeEnd - 1
  OBVIOUS
<1>2. n \in Nat /\ bars[p] \subseteq 0 .. n
  BY <1>1, BarsAre
<1>3. PICK S : S = Closed(p, loaded[p])
  OBVIOUS
<1>4. S \subseteq 0 .. n /\ S # {}
  BY <1>2, <1>3 DEF Closed
<1> QED
  BY <1>2, <1>3, <1>4, LatestOf

Grown(p, upto) == played[p] \cup {m \in Unplayed(p) : m < upto}
LEMMA PlayedGrows ==
  ASSUME LoopInv, NEW p \in Papers, NEW upto \in Int
  PROVE  /\ Grown(p, upto) \subseteq bars[p] /\ WithoutHoles(bars[p], Grown(p, upto)) /\ played[p] \subseteq Grown(p, upto)
         /\ upto = now /\ Closed(p, loaded[p]) # {} => \E b \in Grown(p, upto) : Max(Closed(p, loaded[p])) <= b
<1>1. LoopTypes /\ played[p] \subseteq bars[p] /\ WithoutHoles(bars[p], played[p])
  BY DEF LoopInv, PlayedInv
<1>2. bars[p] \subseteq Nat /\ now \in Nat /\ RangeEnd \in Nat /\ loaded[p] \in Nat
  BY <1>1, BarsAre, LoopAssumption DEF LoopTypes
<1>3. \A m : m \in Closed(p, loaded[p]) <=> m \in bars[p] /\ m < loaded[p] /\ m < now
  BY DEF Closed
<1>4. PICK done : done = Grown(p, upto)
  OBVIOUS
<1>5. played[p] \subseteq done /\ \A m : m \in done <=> m \in played[p] \/ (m \in Unplayed(p) /\ m < upto)
  BY <1>4 DEF Grown
<1>6. PICK c : c = Max(Closed(p, loaded[p]))
  OBVIOUS
<1>7. Closed(p, loaded[p]) # {} => /\ c \in Closed(p, loaded[p]) /\ c \in Nat /\ c < now
                                   /\ \A m \in Closed(p, loaded[p]) : m <= c
  BY <1>1, <1>3, <1>6, ClosedAre
<1>8. CASE played[p] = {}
  <2>1. Unplayed(p) = IF Closed(p, loaded[p]) = {} THEN {} ELSE {c}
    <3>1. Unplayed(p) = {Newest(Closed(p, loaded[p]))} \ {None}
      BY <1>8 DEF Unplayed
    <3>2. CASE Closed(p, loaded[p]) = {}
      BY <3>1, <3>2 DEF Newest
    <3>3. CASE Closed(p, loaded[p]) # {}
      <4>1. Newest(Closed(p, loaded[p])) = c
        BY <1>6, <3>3 DEF Newest
      <4>2. c # None
        BY <1>7, <3>3 DEF None
      <4> QED
        BY <3>1, <3>3, <4>1, <4>2
    <3> QED
      BY <3>2, <3>3
  <2>2. \A m \in done : m = c /\ Closed(p, loaded[p]) # {}
    BY <1>5, <1>8, <2>1
  <2>3. done \subseteq bars[p]
    BY <1>3, <1>7, <2>2
  <2>4. WithoutHoles(bars[p], done)
    <3> SUFFICES ASSUME NEW m \in bars[p], NEW a \in done, NEW b \in done, a <= m, m <= b PROVE m \in done
      BY DEF WithoutHoles
    <3>1. a = c /\ b = c /\ c \in Nat /\ m \in Nat
      BY <1>2, <1>7, <2>2
    <3>2. m = c
      BY <3>1
    <3> QED
      BY <3>1, <3>2
  <2>5. upto = now /\ Closed(p, loaded[p]) # {} => c \in done /\ c <= c
    BY <1>5, <1>7, <2>1
  <2> QED
    BY <1>4, <1>5, <1>6, <2>3, <2>4, <2>5
<1>9. CASE played[p] # {}
  <2>1. PICK h : h = Max(played[p])
    OBVIOUS
  <2>2. h \in played[p] /\ h \in Nat /\ \A m \in played[p] : m <= h
    <3>1. PICK n : n = RangeEnd - 1
      OBVIOUS
    <3>2. n \in Nat /\ bars[p] \subseteq 0 .. n
      BY <1>1, <3>1, BarsAre
    <3>3. played[p] \subseteq 0 .. n
      BY <1>1, <3>2
    <3> QED
      BY <1>1, <1>2, <1>9, <2>1, <3>2, <3>3, LatestOf
  <2>3. \A m : m \in Unplayed(p) <=> m \in Closed(p, loaded[p]) /\ m > h
    BY <1>9, <2>1 DEF Unplayed
  <2>4. done \subseteq bars[p]
    BY <1>1, <1>3, <1>5, <2>3
  <2>5. WithoutHoles(bars[p], done)
    <3> SUFFICES ASSUME NEW m \in bars[p], NEW a \in done, NEW b \in done, a <= m, m <= b PROVE m \in done
      BY DEF WithoutHoles
    <3>1. m \in Nat /\ a \in Nat /\ b \in Nat
      BY <1>2, <2>4
    <3>2. CASE m <= h
      <4>1. ~(a > h)
        BY <2>2, <3>1, <3>2
      <4>2. a \in played[p]
        BY <1>5, <2>3, <4>1
      <4>3. m \in played[p]
        BY <1>1, <2>2, <3>2, <4>2 DEF WithoutHoles
      <4> QED
        BY <1>5, <4>3
    <3>3. CASE ~(m <= h)
      <4>1. b > h /\ m > h
        BY <2>2, <3>1, <3>3
      <4>2. b \notin played[p]
        BY <2>2, <3>1, <4>1
      <4>3. b \in Closed(p, loaded[p]) /\ b < upto
        BY <1>5, <2>3, <4>2
      <4>4. b < loaded[p] /\ b < now
        BY <1>3, <4>3
      <4>5. m < loaded[p] /\ m < now /\ m < upto
        BY <1>2, <3>1, <4>3, <4>4
      <4> QED
        BY <1>3, <1>5, <2>3, <4>1, <4>5
    <3> QED
      BY <3>2, <3>3
  <2>6. ASSUME upto = now, Closed(p, loaded[p]) # {} PROVE \E b \in done : c <= b
    <3>1. c \in Closed(p, loaded[p]) /\ c \in Nat /\ c < upto
      BY <1>7, <2>6
    <3>2. CASE c <= h
      BY <1>5, <2>2, <3>2
    <3>3. CASE ~(c <= h)
      <4>1. c > h /\ c <= c
        BY <2>2, <3>1, <3>3
      <4>2. c \in done
        BY <1>5, <2>3, <3>1, <4>1
      <4> QED
        BY <4>1, <4>2
    <3> QED
      BY <3>2, <3>3
  <2> QED
    BY <1>4, <1>5, <1>6, <2>4, <2>5, <2>6
<1> QED
  BY <1>8, <1>9

LEMMA ExecuteStep == LoopInv /\ Execute => LoopInv'
<1> SUFFICES ASSUME LoopInv, Execute PROVE LoopInv'
  OBVIOUS
<1>1. LoopTypes
  BY DEF LoopInv
<1>0. PICK upto \in (IF misses < MaxMisses THEN 0 .. now ELSE {now}) :
         /\ played' = [p \in Papers |-> played[p] \cup {m \in Unplayed(p) : m < upto}]
         /\ misses' = IF upto = now THEN misses ELSE misses + 1
         /\ IF upto = now
            THEN /\ proven' = [p \in Papers |-> IF Closed(p, loaded[p]) = {} THEN proven[p]
                                                ELSE Max(Closed(p, loaded[p]))]
                 /\ session' = [session EXCEPT !.source = failed # {}, !.complete = DriversProven(failed, proven')]
            ELSE UNCHANGED <<proven, session>>
  BY Zenon DEF Execute
<1>2.   /\ upto \in (IF misses < MaxMisses THEN 0 .. now ELSE {now})
        /\ played' = [p \in Papers |-> Grown(p, upto)]
        /\ misses' = IF upto = now THEN misses ELSE misses + 1
        /\ IF upto = now
           THEN /\ proven' = [p \in Papers |-> IF Closed(p, loaded[p]) = {} THEN proven[p]
                                               ELSE Max(Closed(p, loaded[p]))]
                /\ session' = [session EXCEPT !.source = failed # {}, !.complete = DriversProven(failed, proven')]
           ELSE UNCHANGED <<proven, session>>
  BY <1>0, Zenon DEF Grown
<1>3. loopAt = "execute" /\ loopAt' = "idle" /\ UNCHANGED <<bars, event, now, loaded, failed, hole>>
  BY DEF Execute, market
<1>4. now \in Nat /\ misses \in Nat /\ MaxMisses \in Nat
  BY <1>1, LoopAssumption DEF LoopTypes
<1>5. upto \in Int /\ (upto # now => misses < MaxMisses)
  BY <1>2, <1>4
<1>6. misses' \in 0 .. MaxMisses
  BY <1>1, <1>2, <1>4, <1>5 DEF LoopTypes
<1>7. PICK more : more = misses'
  OBVIOUS
<1>8. more \in Nat /\ misses <= more
  BY <1>2, <1>4, <1>5, <1>7
<1>9. hole'.empty <= misses' + 1
  <2>1. hole.empty \in Nat /\ hole.empty <= misses + 1
    BY <1>1, <1>3 DEF LoopTypes
  <2>2. hole.empty <= more + 1
    BY <1>4, <1>8, <2>1
  <2> QED
    BY <1>3, <1>7, <2>2
<1>10. /\ DOMAIN session' = SessionParts /\ session'.exhausted = session.exhausted /\ session'.limited = session.limited
       /\ session'.complete = IF upto = now THEN DriversProven(failed, proven') ELSE session.complete
  <2>1. CASE upto = now
    <3>1. PICK s, c : s = (failed # {}) /\ c = DriversProven(failed, proven')
      OBVIOUS
    <3>2. session' = [session EXCEPT !.source = s, !.complete = c]
      BY <1>2, <2>1, <3>1
    <3>3. DOMAIN session' = SessionParts /\ session'.exhausted = session.exhausted /\ session'.limited = session.limited
          /\ session'.complete = c
      BY <1>1, <3>2 DEF LoopTypes, SessionParts
    <3> QED
      BY <2>1, <3>1, <3>3
  <2>2. CASE upto # now
    BY <1>1, <1>2, <2>2 DEF LoopTypes
  <2> QED
    BY <2>1, <2>2
<1>11. LoopTypes'
  BY <1>1, <1>3, <1>6, <1>9, <1>10 DEF LoopTypes
<1>12. PlayedInv'
  <2> SUFFICES ASSUME NEW p \in Papers
               PROVE  /\ played'[p] \subseteq bars[p] /\ WithoutHoles(bars[p], played'[p])
                      /\ TailIs(played'[p], proven'[p])
    BY <1>3 DEF PlayedInv, WithoutHoles, TailIs
  <2>1. played'[p] = Grown(p, upto)
    BY <1>2
  <2>2. /\ Grown(p, upto) \subseteq bars[p] /\ WithoutHoles(bars[p], Grown(p, upto)) /\ played[p] \subseteq Grown(p, upto)
        /\ upto = now /\ Closed(p, loaded[p]) # {} => \E b \in Grown(p, upto) : Max(Closed(p, loaded[p])) <= b
    BY <1>5, PlayedGrows
  <2>3. TailIs(played[p], proven[p])
    BY DEF LoopInv, PlayedInv
  <2>4. TailIs(Grown(p, upto), proven[p])
    BY <2>2, <2>3 DEF TailIs
  <2>5. CASE upto = now /\ Closed(p, loaded[p]) # {}
    <3>1. proven'[p] = Max(Closed(p, loaded[p])) /\ Max(Closed(p, loaded[p])) \in Int
      BY <1>1, <1>2, <2>5, ClosedAre
    <3> QED
      BY <2>1, <2>2, <2>5, <3>1 DEF TailIs
  <2>6. CASE ~(upto = now /\ Closed(p, loaded[p]) # {})
    <3>1. proven'[p] = proven[p]
      BY <1>2, <2>6
    <3> QED
      BY <2>1, <2>2, <2>4, <3>1
  <2> QED
    BY <2>5, <2>6
<1>13. EndsInv'
  <2>1. NothingAhead' = NothingAhead
    BY <1>3 DEF NothingAhead
  <2>2. session'.complete => AllProven'
    <3>1. CASE upto = now
      <4>1. session'.complete => \A p \in Papers : proven'[p] >= LastBar(p)
        BY <1>10, <3>1 DEF DriversProven, DriversComplete
      <4> QED
        BY <1>3, <4>1 DEF AllProven, LastBar
    <3>2. CASE upto # now
      <4>1. session'.complete = session.complete /\ proven' = proven
        BY <1>2, <1>10, <3>2
      <4>2. session.complete => AllProven
        BY <1>3 DEF LoopInv, EndsInv, Unread
      <4> QED
        BY <1>3, <4>1, <4>2 DEF AllProven, LastBar
    <3> QED
      BY <3>1, <3>2
  <2> QED
    BY <1>3, <1>10, <2>1, <2>2 DEF LoopInv, EndsInv
<1> QED
  BY <1>11, <1>12, <1>13 DEF LoopInv

LEMMA EndStep == LoopInv /\ End => LoopInv'
<1> SUFFICES ASSUME LoopInv, End PROVE LoopInv'
  OBVIOUS
<1>1. loopAt = "idle" /\ loopAt' = "ended"
      /\ UNCHANGED <<bars, event, now, loaded, failed, hole, played, proven, session, misses>>
  BY DEF End, market
<1>2. LoopTypes'
  BY <1>1 DEF LoopInv, LoopTypes
<1>3. PlayedInv'
  BY <1>1, PlayedStays DEF LoopInv
<1>4. EndsInv'
  BY <1>1 DEF LoopInv, EndsInv, NothingAhead, AllProven, LastBar, Unread
<1> QED
  BY <1>2, <1>3, <1>4 DEF LoopInv

LEMMA LoopSteps == LoopInv /\ [LoopNext]_loopVars => LoopInv'
<1>1. LoopInv /\ UNCHANGED loopVars => LoopInv'
  BY DEF loopVars, LoopInv, LoopTypes, PlayedInv, EndsInv, NothingAhead, AllProven, LastBar, Unread
<1> QED
  BY <1>1, RequestStopStep, AdvanceStep, CloseTickStep, SearchStep, RouteStep, ExecuteStep, EndStep DEF LoopNext

LEMMA LoopPromises == MaxMisses < RangeEnd /\ LoopInv => LoopTypeOK /\ EndIsHonest
<1> SUFFICES ASSUME MaxMisses < RangeEnd, LoopInv PROVE LoopTypeOK /\ EndIsHonest
  OBVIOUS
<1>1. LoopTypes
  BY DEF LoopInv
<1>2. MaxMisses \in Nat /\ RangeEnd \in Nat /\ misses \in Nat /\ misses <= MaxMisses /\ now \in Nat /\ now <= RangeEnd
  BY <1>1, LoopAssumption DEF LoopTypes
<1>3. hole.empty \in 0 .. ConsecutiveEmptyTicks + MaxMisses
  BY <1>1, <1>2 DEF LoopTypes, ConsecutiveEmptyTicks
<1>4. LoopTypeOK
  BY <1>1, <1>3 DEF LoopInv, LoopTypes, PlayedInv, LoopTypeOK, SessionParts
<1>5. ASSUME loopAt = "ended", Covered, ~AllProven PROVE FALSE
  <2>1. session.complete /\ Finished
    BY <1>5 DEF Covered
  <2>2. Unread
    BY <1>5, <2>1 DEF LoopInv, EndsInv
  <2>3. now <= misses /\ now >= RangeEnd
    BY <1>2, <1>5, <2>1, <2>2 DEF Unread, Finished
  <2> QED
    BY <1>2, <2>2, <2>3 DEF Unread
<1>6. ASSUME AllProven, NEW p \in Papers
      PROVE  played[p] # {} /\ \A m \in bars[p] : m > Min(played[p]) => m \in played[p]
  <2>1. LastBar(p) \in Nat /\ bars[p] \subseteq Nat /\ \A m \in bars[p] : m <= LastBar(p)
    BY <1>1, BarsAre
  <2>2. played[p] \subseteq bars[p] /\ WithoutHoles(bars[p], played[p]) /\ TailIs(played[p], proven[p])
    BY DEF LoopInv, PlayedInv
  <2>3. proven[p] \in Int /\ proven[p] >= LastBar(p)
    BY <1>6, <2>2 DEF AllProven, TailIs
  <2>4. proven[p] # None
    BY <2>1, <2>3 DEF None
  <2>5. PICK b \in played[p] : proven[p] <= b
    BY <2>2, <2>4 DEF TailIs
  <2>6. Min(played[p]) \in played[p] /\ played[p] \subseteq Nat
    BY <2>1, <2>2, <2>5, MinIs
  <2>7. ASSUME NEW m \in bars[p], m > Min(played[p]) PROVE m \in played[p]
    <3>1. m <= LastBar(p) /\ m \in Nat /\ b \in Nat /\ Min(played[p]) \in Nat
      BY <2>1, <2>6
    <3>2. Min(played[p]) <= m /\ m <= b
      BY <2>1, <2>3, <2>5, <2>7, <3>1
    <3> QED
      BY <2>2, <2>6, <3>2 DEF WithoutHoles
  <2> QED
    BY <2>5, <2>7
<1>7. EndIsHonest
  BY <1>5, <1>6 DEF EndIsHonest, LoopInv, EndsInv, NothingAhead
<1> QED
  BY <1>4, <1>7

-----------------------------------------------------------------------------
(* What the services keep, in every run of them.                               *)

ServicesInv == OnceInv /\ OrderInv /\ LoopInv /\ BudgetInv /\ SessionInv /\ AdmissionInv

LEMMA ServicesStart == Init => ServicesInv
BY OnceStarts, OrderStarts, LoopStarts, BudgetStarts, SessionStarts, AdmissionStarts
DEF Init, ServicesInv

LEMMA ServicesStep == ServicesInv /\ [Next]_vars => ServicesInv'
<1> SUFFICES ASSUME ServicesInv, [Next]_vars PROVE ServicesInv'
  OBVIOUS
<1>1. [LoopNext]_loopVars /\ [BudgetNext]_budgetVars
  BY DEF Next, vars
<1>2. [SessionNext]_sessionVars /\ [AdmissionNext]_admissionVars
  BY DEF Next, vars
<1>3. [DeliveryNext]_deliveryVars
  BY DEF Next, vars
<1>4. OnceInv'
  BY OnceSteps DEF ServicesInv
<1>5. OrderInv'
  BY <1>3, OrderSteps DEF ServicesInv, OnceInv, OrderedDelivery
<1>6. LoopInv' /\ BudgetInv'
  BY <1>1, LoopSteps, BudgetSteps DEF ServicesInv
<1>7. SessionInv' /\ AdmissionInv'
  BY <1>2, SessionSteps, AdmissionSteps DEF ServicesInv
<1> QED
  BY <1>4, <1>5, <1>6, <1>7 DEF ServicesInv

\* A bar trades once, a message reaches Telegram once but for the repeats of the
\* transport and the explicit word, and an event reaches Redis once but for what
\* went without a mark; a bar is calculated before the cursor passes it, unless it
\* was missing then and proven to have no candle or older than the live floor; a bar
\* the pattern thread has taken is done or still in one of its places; and a run
\* over history in which fewer reads fail than its range has minutes has, if it
\* reports the range as covered, executed it to the last candle: LiveAnalysis,
\* TelegramChannel, PatternEventService and HistoricalRunSession. Without that
\* premise CoveredIsExecuted fails.
THEOREM OnceAndAllAlways == MaxMisses < RangeEnd => (Spec => []OnceAndAll)
<1> SUFFICES ASSUME MaxMisses < RangeEnd PROVE Spec => []OnceAndAll
  OBVIOUS
<1>1. ServicesInv => OnceAndAll
  <2> SUFFICES ASSUME ServicesInv PROVE OnceAndAll
    OBVIOUS
  <2>1. EventOnce /\ TaskIsKept
    BY PatternPromises DEF ServicesInv, OnceInv
  <2>2. SignalOnce
    BY DEF ServicesInv, OnceInv, LiveInv, SignalInv
  <2>3. SentOnce
    BY DEF ServicesInv, OnceInv, DeliveryInv, SentInv
  <2>4. BarsInOrder
    BY DEF ServicesInv, OnceInv, LiveInv, BarsInv
  <2>5. EndIsHonest
    BY LoopPromises DEF ServicesInv
  <2> QED
    BY <2>1, <2>2, <2>3, <2>4, <2>5 DEF OnceAndAll
<1> QED
  BY <1>1, ServicesStart, ServicesStep, PTL DEF Spec

\* No window of requests holds more than the broker allows, no family is held on
\* two sides of the market, and an open position past its mark whose carry counts
\* as approved has its stop at break-even: RequestBudget, RiskManager and
\* SessionGuard. Of a position whose carry is not approved nothing is said.
THEOREM LimitsKeptAlways == Spec => []LimitsKept
<1>1. ServicesInv => LimitsKept
  <2> SUFFICES ASSUME ServicesInv PROVE LimitsKept
    OBVIOUS
  <2>1. CeilingKept
    BY BudgetPromises DEF ServicesInv
  <2>2. OneSide
    BY DEF ServicesInv, AdmissionInv
  <2>3. CarriedIsEven
    BY SessionPromises DEF ServicesInv
  <2> QED
    BY <2>1, <2>2, <2>3 DEF LimitsKept
<1> QED
  BY <1>1, ServicesStart, ServicesStep, PTL DEF Spec
=============================================================================
