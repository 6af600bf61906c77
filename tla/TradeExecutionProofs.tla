------------------------ MODULE TradeExecutionProofs ------------------------
(***************************************************************************)
(* Proofs about TradeExecution for any number of commands, bars and        *)
(* faults, any bars, any sizes and prices.                                 *)
(*                                                                         *)
(* The type invariant is not inductive as it stands: a quantity stays a    *)
(* natural number because every execution between the broker and the       *)
(* journal belongs to an order of the right kind (EventOK), because the    *)
(* broker's schedule holds only what a bar can execute (SimOK), and        *)
(* because a stage of a bar finds only what the stages before it have left *)
(* (StepOK).  An answer in flight belongs to an order that still waits     *)
(* (InflightOK), which is what lets the journal take an acceptance without *)
(* reopening an order.                                                     *)
(***************************************************************************)
EXTENDS TradeExecution, TLAPS

Phases == Manageable \cup Finished \cup {"none", "ENTRY_PENDING"}
Scheduled == Increases \cup Exits \cup {"MOVESTOP"}

TradeType ==
  [phase : Phases, rev : Nat, qty : Nat, entered : Nat, taken : Nat, stop : Nat,
   moving : Commands \cup {0}, increased : Nat, paid : Nat, executed : Nat, observed : Nat]

OrderType ==
  [kind : Kinds \cup {"none"},
   status : {"none", "PENDING", "ACK", "PARTIAL", "FILLED", "CANCEL", "REJECT"},
   outbox : {"none", "PENDING", "CLAIMED", "SENT", "UNDELIVERED"},
   rev : Nat, size : Nat, filled : Nat, level : Nat, since : Nat,
   reserved : BOOLEAN, late : BOOLEAN]

BrokerType ==
  [known : BOOLEAN, rev : Nat, qty : Nat, entered : Nat, taken : Nat, stop : Nat,
   opened : Nat, paid : Nat, sched : SUBSET Commands, since : [Commands -> Nat],
   answer : [Commands -> {"none", "ACK", "FILL", "CANCEL", "REJECT"}]]

EventType ==
  [cmd : Commands \cup {StopHit, TargetHit}, status : {"ACTIVE", "FILL", "CANCEL", "REJECT"},
   qty : Nat, bar : Nat, price : Nat]

\* An execution belongs to an order of a kind that has such executions.
EventOK(e) ==
  /\ e \in EventType
  /\ e.status # "FILL" => e.cmd \in Commands
  /\ e.cmd \in Commands => order[e.cmd].kind \in Kinds
  /\ e.cmd \in Commands /\ e.status = "FILL" => order[e.cmd].kind \in Increases \cup Exits
  /\ e.status = "ACTIVE" => order[e.cmd].kind = "MOVESTOP"

EventsOK(q) == q \in Seq(EventType) /\ \A i \in 1..Len(q) : EventOK(q[i])

\* The broker and its queue, in the middle of a bar or outside one.
BrokerOK(b) ==
  /\ b \in BrokerType
  /\ \A c \in b.sched : order[c].kind \in Scheduled
  /\ \A c \in Commands : b.answer[c] = "FILL" => order[c].kind \in Increases \cup Exits

SimOK(s) == s = [b |-> s.b, q |-> s.q] /\ BrokerOK(s.b) /\ EventsOK(s.q)

\* What the orders of the journal are.
OrdersOK ==
  /\ order \in [Commands -> OrderType]
  /\ \A c \in Commands : /\ order[c].filled <= order[c].size
                         /\ order[c].kind = "none" => order[c].status = "none"
                         /\ order[c].kind # "none" => trade.phase # "none"

\* Outside a bar the broker's queue holds nothing but cancellations.
QueueOK ==
  /\ EventsOK(queue)
  /\ pc \notin Simulating => \A i \in 1..Len(queue) : queue[i].status = "CANCEL"

\* A stage of a bar finds only what the stages before it have left.
StepOK ==
  /\ \A c \in due : order[c].kind \in Scheduled
  /\ pc = "opens" => \A c \in due : order[c].kind # "MOVESTOP"
  /\ pc = "limits" => \A c \in due : order[c].kind \in Increases
  /\ pc \in Simulating => cursor < Len(bars)

BatchOK ==
  /\ EventsOK(batch) /\ done \in 0..Len(batch)
  /\ pc = "confirm" => done > 0 /\ batch[done].status = "ACTIVE"

\* The answer in flight belongs to an order that waits for it.
InflightOK ==
  IF pc \in {"sent", "answer"}
    THEN /\ inflight.cmd \in Commands /\ inflight.qty = 0
         /\ inflight.bar \in Nat /\ inflight.price \in Nat
         /\ inflight = Event(inflight.cmd, inflight.status, inflight.qty, inflight.bar, inflight.price)
         /\ inflight.status \in {"ACK", "FILL", "CANCEL", "REJECT"}
         /\ inflight.status = "FILL" => order[inflight.cmd].kind \in Increases \cup Exits
         /\ order[inflight.cmd].kind \in Kinds
         /\ order[inflight.cmd].status = "PENDING"
    ELSE inflight = NoEvent

TypeInv ==
  /\ bars \in Seq(Bars) /\ pc \in Steps /\ faults \in Nat /\ cursor \in Nat
  /\ cut \subseteq {"batch", "stop", "answer"}
  /\ due \subseteq Commands /\ fresh \subseteq Commands
  /\ trade \in TradeType /\ OrdersOK
  /\ BrokerOK(broker) /\ QueueOK /\ StepOK /\ BatchOK /\ InflightOK

-----------------------------------------------------------------------------
(* Ids and shares.                                                         *)

\* What is no command: the ids of the broker's own closes.
LEMMA OwnIds == StopHit \notin Commands /\ TargetHit \notin Commands
  BY BoundsAssumption DEF Commands, StopHit, TargetHit

LEMMA SharesAre ==
  ASSUME NEW n \in Nat
  PROVE  Share(n) \in Nat
  BY DEF Share

-----------------------------------------------------------------------------
(* One bar in the broker: every operator keeps the broker and its queue    *)
(* well-formed.                                                            *)

LEMMA AppendOK ==
  ASSUME NEW q, EventsOK(q), NEW e, EventOK(e)
  PROVE  EventsOK(Append(q, e))
<1>1. q \in Seq(EventType) /\ e \in EventType
  BY DEF EventsOK, EventOK
<1>2. Append(q, e) \in Seq(EventType) /\ Len(Append(q, e)) = Len(q) + 1
  BY <1>1
<1>3. \A i \in 1..Len(q) + 1 : Append(q, e)[i] = IF i = Len(q) + 1 THEN e ELSE q[i]
  BY <1>1
<1>4. \A i \in 1..Len(q) + 1 : i # Len(q) + 1 => i \in 1..Len(q)
  BY <1>1
<1> QED
  BY <1>2, <1>3, <1>4 DEF EventsOK

\* An answer is recorded and published; the schedule stays.
LEMMA AnsweredOK ==
  ASSUME NEW s, SimOK(s), NEW e, EventOK(e), e.cmd \in Commands
  PROVE  /\ SimOK(Answered(s, e))
         /\ Answered(s, e).b.sched = s.b.sched
         /\ Answered(s, e).q = Append(s.q, e)
<1> DEFINE a == IF e.status = "ACTIVE" THEN "ACK" ELSE e.status
           b == [s.b EXCEPT !.answer[e.cmd] = a]
<1>1. a \in {"ACK", "FILL", "CANCEL", "REJECT"}
      /\ (a = "FILL" => order[e.cmd].kind \in Increases \cup Exits)
  BY DEF EventOK, EventType
<1>2. s.b \in BrokerType
  BY DEF SimOK, BrokerOK
<1>3. Answered(s, e) = [b |-> b, q |-> Append(s.q, e)]
  BY DEF Answered
<1> HIDE DEF a
<1>4. b \in BrokerType /\ b.sched = s.b.sched
      /\ \A c \in Commands : b.answer[c] = IF c = e.cmd THEN a ELSE s.b.answer[c]
  BY <1>1, <1>2 DEF BrokerType
<1> HIDE DEF b
<1>5. BrokerOK(b)
  BY <1>1, <1>4 DEF SimOK, BrokerOK
<1>6. EventsOK(Append(s.q, e))
  BY AppendOK DEF SimOK
<1> QED
  BY <1>3, <1>4, <1>5, <1>6 DEF SimOK

\* The increases that are open are cancelled; the schedule only shrinks.
LEMMA CancelledIs ==
  ASSUME NEW s, SimOK(s), NEW rest \in SUBSET Commands, NEW t \in Nat,
         \A c \in rest : order[c].kind \in Kinds
  PROVE  /\ SimOK(Cancelled(s, rest, t))
         /\ Cancelled(s, rest, t).b.sched \subseteq s.b.sched
         /\ \/ Cancelled(s, rest, t).q = s.q
            \/ \E e \in EventType : e.status = "CANCEL" /\ Cancelled(s, rest, t).q = Append(s.q, e)
<1> DEFINE open == {c \in Of(s.b.sched \cup rest, Increases) : s.b.answer[c] \notin {"FILL", "CANCEL", "REJECT"}}
           x == CHOOSE c \in open : TRUE
           e == Event(x, "CANCEL", 0, t, 0)
           out == IF open = {} THEN s ELSE Answered(s, e)
           kept == out.b.sched \ Of(out.b.sched, Increases)
<1>1. s.b \in BrokerType
  BY DEF SimOK, BrokerOK
<1>2. open \subseteq Commands /\ \A c \in open : order[c].kind \in Increases
  BY <1>1 DEF BrokerType, Of
<1>3. open # {} => x \in open
  OBVIOUS
<1> HIDE DEF open, x
<1>4. open # {} => EventOK(e) /\ e.cmd \in Commands /\ e \in EventType /\ e.status = "CANCEL"
  BY <1>2, <1>3 DEF EventOK, Event, EventType, Kinds, Increases
<1> HIDE DEF e
<1>5. /\ SimOK(out)
      /\ out.b.sched = s.b.sched
      /\ out.q = s.q \/ (e \in EventType /\ e.status = "CANCEL" /\ out.q = Append(s.q, e))
  BY <1>4, AnsweredOK
<1>6. Cancelled(s, rest, t) = [out EXCEPT !.b.sched = kept]
  BY DEF Cancelled, open, x, e
<1> HIDE DEF out
<1>7. out = [b |-> out.b, q |-> out.q] /\ out.b \in BrokerType
  BY <1>5 DEF SimOK, BrokerOK
<1>8. kept \in SUBSET Commands /\ kept \subseteq out.b.sched
  BY <1>7 DEF BrokerType
<1> HIDE DEF kept
<1>9. [out EXCEPT !.b.sched = kept] = [b |-> [out.b EXCEPT !.sched = kept], q |-> out.q]
  BY <1>7
<1>10. BrokerOK([out.b EXCEPT !.sched = kept])
  BY <1>5, <1>7, <1>8 DEF SimOK, BrokerOK, BrokerType
<1> QED
  BY <1>5, <1>6, <1>7, <1>8, <1>9, <1>10 DEF SimOK, BrokerType

LEMMA CancelledOK ==
  ASSUME NEW s, SimOK(s), NEW rest \in SUBSET Commands, NEW t \in Nat,
         \A c \in rest : order[c].kind \in Kinds
  PROVE  /\ SimOK(Cancelled(s, rest, t))
         /\ Cancelled(s, rest, t).b.sched \subseteq s.b.sched
  BY CancelledIs

\* A change of the position that leaves the schedule and the answers alone.
LEMMA PositionOK ==
  ASSUME NEW s, SimOK(s), NEW b \in BrokerType, b.sched = s.b.sched, b.answer = s.b.answer,
         NEW q, EventsOK(q)
  PROVE  SimOK([b |-> b, q |-> q]) /\ [b |-> b, q |-> q].b = b
<1>1. BrokerOK(b)
  BY DEF SimOK, BrokerOK
<1> QED
  BY <1>1 DEF SimOK

LEMMA FieldsAre ==
  ASSUME NEW s, SimOK(s)
  PROVE  /\ s = [b |-> s.b, q |-> s.q] /\ s.b \in BrokerType /\ EventsOK(s.q)
         /\ s.b.qty \in Nat /\ s.b.entered \in Nat /\ s.b.taken \in Nat /\ s.b.stop \in Nat
         /\ s.b.rev \in Nat /\ s.b.rev + 1 \in Nat
  BY DEF SimOK, BrokerOK, BrokerType

LEMMA OwnEventOK ==
  ASSUME NEW own \in {StopHit, TargetHit}, NEW n \in Nat, NEW t \in Nat
  PROVE  EventOK(Event(own, "FILL", n, t, 0))
  BY OwnIds DEF EventOK, Event, EventType

LEMMA StopOutOK ==
  ASSUME NEW s, SimOK(s), NEW rest \in SUBSET Commands, NEW t \in Nat, NEW low,
         \A c \in rest : order[c].kind \in Kinds
  PROVE  /\ SimOK(StopOut(s, rest, t, low))
         /\ StopOut(s, rest, t, low).b.sched \subseteq s.b.sched
<1> DEFINE b == [s.b EXCEPT !.qty = 0, !.stop = 0, !.rev = @ + 1]
           q == Append(s.q, Event(StopHit, "FILL", s.b.qty, t, 0))
<1>2. b \in BrokerType /\ b.sched = s.b.sched /\ b.answer = s.b.answer
  BY FieldsAre DEF BrokerType
<1>3. EventsOK(q)
  BY FieldsAre, OwnEventOK, AppendOK
<1> HIDE DEF b, q
<1>4. SimOK([b |-> b, q |-> q]) /\ [b |-> b, q |-> q].b = b
  BY <1>2, <1>3, PositionOK
<1>5. StopOut(s, rest, t, low) = IF Triggered(s.b, low) THEN Cancelled([b |-> b, q |-> q], rest, t) ELSE s
  BY DEF StopOut, b, q
<1> QED
  BY <1>2, <1>4, <1>5, CancelledOK

LEMMA TakeTargetOK ==
  ASSUME NEW s, SimOK(s), NEW rest \in SUBSET Commands, NEW t \in Nat, NEW high,
         \A c \in rest : order[c].kind \in Kinds
  PROVE  /\ SimOK(TakeTarget(s, rest, t, high))
         /\ TakeTarget(s, rest, t, high).b.sched \subseteq s.b.sched
<1> DEFINE left == Share(s.b.entered) - s.b.taken
           n == IF left < s.b.qty THEN left ELSE s.b.qty
           b == [s.b EXCEPT !.qty = @ - n, !.taken = @ + n, !.rev = @ + 1,
                            !.stop = IF n = s.b.qty THEN 0 ELSE @]
           q == Append(s.q, Event(TargetHit, "FILL", n, t, 0))
<1>2. left \in Int
  BY FieldsAre, SharesAre
<1>3. left > 0 => n \in Nat /\ s.b.qty - n \in Nat
  BY FieldsAre, <1>2
<1> HIDE DEF n
<1>4. n \in Nat /\ s.b.qty - n \in Nat
      => b \in BrokerType /\ b.sched = s.b.sched /\ b.answer = s.b.answer
  <2> SUFFICES ASSUME n \in Nat, s.b.qty - n \in Nat
               PROVE  b \in BrokerType /\ b.sched = s.b.sched /\ b.answer = s.b.answer
    OBVIOUS
  <2>1. s.b.taken + n \in Nat
    BY FieldsAre
  <2> QED
    BY <2>1, FieldsAre DEF BrokerType
<1>5. n \in Nat => EventsOK(q)
  BY FieldsAre, OwnEventOK, AppendOK
<1>6. TakeTarget(s, rest, t, high) =
        IF s.b.qty = 0 \/ high < TargetPrice \/ left <= 0 THEN s ELSE Cancelled([b |-> b, q |-> q], rest, t)
  BY DEF TakeTarget, n
<1> HIDE DEF b, q
<1>7. CASE left <= 0
  BY <1>6, <1>7
<1>8. CASE left > 0
  <2>1. SimOK([b |-> b, q |-> q]) /\ [b |-> b, q |-> q].b = b /\ b.sched = s.b.sched
    BY <1>3, <1>4, <1>5, <1>8, PositionOK
  <2> QED
    BY <1>2, <1>6, <1>8, <2>1, CancelledOK
<1> QED
  BY <1>2, <1>7, <1>8

LEMMA ProtectedOK ==
  ASSUME NEW s, SimOK(s), NEW rest \in SUBSET Commands, NEW t \in Nat, NEW bar,
         \A c \in rest : order[c].kind \in Kinds
  PROVE  /\ SimOK(Protected(s, rest, t, bar))
         /\ Protected(s, rest, t, bar).b.sched \subseteq s.b.sched
<1> DEFINE open == s.b.qty > 0 /\ s.b.opened = t /\ s.b.paid # 0 /\ s.b.paid = bar.open
           b == IF open THEN [s.b EXCEPT !.opened = 0, !.paid = 0] ELSE s.b
           n == [s EXCEPT !.b = b]
           stopped == StopOut(n, rest, t, bar.low)
<1>1. BrokerOK(b) /\ b.sched = s.b.sched
  BY DEF SimOK, BrokerOK, BrokerType
<1>2. Protected(s, rest, t, bar) = IF b.opened = t THEN stopped ELSE TakeTarget(stopped, rest, t, bar.high)
  BY DEF Protected
<1> HIDE DEF b
<1>3. SimOK(n) /\ n.b = b
  BY <1>1 DEF SimOK
<1> HIDE DEF n
<1>4. SimOK(stopped) /\ stopped.b.sched \subseteq s.b.sched
  BY <1>1, <1>3, StopOutOK
<1> HIDE DEF stopped
<1> QED
  BY <1>2, <1>4, TakeTargetOK

LEMMA IncreasedOK ==
  ASSUME NEW s, SimOK(s), NEW c \in Commands, NEW t \in Nat, NEW price \in Nat, NEW opened \in Nat,
         order[c].kind \in Increases, order[c].size \in Nat
  PROVE  /\ SimOK(Increased(s, c, t, price, opened))
         /\ Increased(s, c, t, price, opened).b.sched = s.b.sched
<1> DEFINE basis == IF order[c].kind = "OPEN" THEN EntryStop ELSE AddStop
           stop == Larger(s.b.stop, basis)
           b == [s.b EXCEPT !.qty = @ + order[c].size, !.entered = @ + order[c].size,
                            !.stop = stop, !.rev = @ + 1, !.opened = opened]
           n == [b |-> b, q |-> s.q]
<1>2. stop \in Nat
  BY FieldsAre, PricesAssumption DEF Larger
<1>3. EventOK(Event(c, "REJECT", 0, t, 0)) /\ EventOK(Event(c, "FILL", order[c].size, t, price))
  BY DEF EventOK, Event, EventType, Kinds
<1>4. Increased(s, c, t, price, opened) =
        IF order[c].kind = "ADD" /\ s.b.qty = 0 THEN Answered(s, Event(c, "REJECT", 0, t, 0))
        ELSE Answered(n, Event(c, "FILL", order[c].size, t, price))
  BY DEF Increased
<1> HIDE DEF stop
<1>5. b \in BrokerType /\ b.sched = s.b.sched /\ b.answer = s.b.answer
  <2>1. s.b.qty + order[c].size \in Nat /\ s.b.entered + order[c].size \in Nat
    BY FieldsAre
  <2> QED
    BY <1>2, <2>1, FieldsAre DEF BrokerType
<1> HIDE DEF b
<1>6. SimOK(n) /\ n.b = b
  BY <1>5, FieldsAre, PositionOK
<1> HIDE DEF n
<1>7. \A st, qty, p : Event(c, st, qty, t, p).cmd = c
  BY DEF Event
<1> QED
  BY <1>3, <1>4, <1>5, <1>6, <1>7, AnsweredOK

LEMMA MovedOK ==
  ASSUME NEW s, SimOK(s), NEW c \in Commands, NEW t \in Nat,
         order[c].kind = "MOVESTOP", order[c].level \in Nat
  PROVE  /\ SimOK(Moved(s, c, t))
         /\ Moved(s, c, t).b.sched = s.b.sched
<1> DEFINE b == [s.b EXCEPT !.stop = order[c].level, !.rev = @ + 1]
           n == [b |-> b, q |-> s.q]
<1>1. b \in BrokerType /\ b.sched = s.b.sched /\ b.answer = s.b.answer
  BY FieldsAre DEF BrokerType
<1>2. EventOK(Event(c, "REJECT", 0, t, 0)) /\ EventOK(Event(c, "ACTIVE", 0, t, 0))
  BY DEF EventOK, Event, EventType, Kinds
<1>3. Moved(s, c, t) = IF s.b.qty = 0 THEN Answered(s, Event(c, "REJECT", 0, t, 0))
                       ELSE Answered(n, Event(c, "ACTIVE", 0, t, 0))
  BY DEF Moved
<1> HIDE DEF b
<1>4. SimOK(n) /\ n.b = b
  BY <1>1, FieldsAre, PositionOK
<1> HIDE DEF n
<1>5. \A st : Event(c, st, 0, t, 0).cmd = c
  BY DEF Event
<1> QED
  BY <1>1, <1>2, <1>3, <1>4, <1>5, AnsweredOK

LEMMA ExitedOK ==
  ASSUME NEW s, SimOK(s), NEW c \in Commands, NEW rest \in SUBSET Commands, NEW t \in Nat,
         order[c].kind \in Exits, order[c].size \in Nat,
         \A d \in rest : order[d].kind \in Kinds
  PROVE  /\ SimOK(Exited(s, c, rest, t))
         /\ Exited(s, c, rest, t).b.sched \subseteq s.b.sched
<1> DEFINE n == IF order[c].kind = "CLOSE" THEN s.b.qty ELSE order[c].size
           b == [s.b EXCEPT !.qty = @ - n, !.rev = @ + 1, !.stop = IF n = s.b.qty THEN 0 ELSE @]
           m == [b |-> b, q |-> s.q]
           e == Event(c, "FILL", n, t, 0)
<1>1. s.b.qty \in Nat /\ n \in Nat
  BY FieldsAre
<1>2. Exited(s, c, rest, t) =
        IF s.b.qty = 0 \/ n > s.b.qty THEN Answered(s, Event(c, "REJECT", 0, t, 0))
        ELSE Cancelled(Answered(m, e), rest, t)
  BY DEF Exited
<1> HIDE DEF n
<1>3. ~(n > s.b.qty) => s.b.qty - n \in Nat
  BY <1>1
<1>4. s.b.qty - n \in Nat => b \in BrokerType /\ b.sched = s.b.sched /\ b.answer = s.b.answer
  BY FieldsAre DEF BrokerType
<1>5. /\ EventOK(Event(c, "REJECT", 0, t, 0)) /\ Event(c, "REJECT", 0, t, 0).cmd = c
      /\ EventOK(e) /\ e.cmd = c
  BY <1>1 DEF EventOK, Event, EventType, Kinds
<1> HIDE DEF b, e
<1>6. s.b.qty - n \in Nat => SimOK(m) /\ m.b = b
  BY <1>4, FieldsAre, PositionOK
<1> HIDE DEF m
<1>7. CASE s.b.qty = 0 \/ n > s.b.qty
  BY <1>2, <1>5, <1>7, AnsweredOK
<1>8. CASE ~(s.b.qty = 0 \/ n > s.b.qty)
  <2>1. SimOK(Answered(m, e)) /\ Answered(m, e).b.sched = s.b.sched
    BY <1>3, <1>4, <1>5, <1>6, <1>8, AnsweredOK
  <2> DEFINE x == Answered(m, e)
  <2>2. Exited(s, c, rest, t) = Cancelled(x, rest, t)
    BY <1>2, <1>8
  <2> HIDE DEF x
  <2>3. SimOK(Cancelled(x, rest, t)) /\ Cancelled(x, rest, t).b.sched \subseteq x.b.sched
    BY <2>1, CancelledOK DEF x
  <2> QED
    BY <2>1, <2>2, <2>3 DEF x
<1> QED
  BY <1>7, <1>8

-----------------------------------------------------------------------------
(* The reducer: what one event makes of the trade and of its order.        *)

AnswerType ==
  [cmd : Commands \cup {StopHit, TargetHit}, status : {"ACK", "ACTIVE", "FILL", "CANCEL", "REJECT"},
   qty : Nat, bar : Nat, price : Nat]

FillKinds == Increases \cup Exits \cup {"STOP", "TARGET"}

\* What the reducer may rely on: an event of an order of the right kind, and of
\* a quantity the position holds and the order asks for.
Reducible(e) ==
  /\ e \in AnswerType
  /\ e.status # "FILL" => e.cmd \in Commands
  /\ e.cmd \in Commands => order[e.cmd].kind \in Kinds
  /\ e.cmd \in Commands /\ e.status = "FILL" => order[e.cmd].kind \in Increases \cup Exits
  /\ Held(e) /\ WithinOrder(e)

LEMMA PhaseAfterFillIs ==
  ASSUME NEW e, Kind(e.cmd) \in FillKinds, NEW q \in Nat, trade.phase \in Phases
  PROVE  /\ PhaseAfterFill(e, q) \in Phases
         /\ trade.phase # "none" => PhaseAfterFill(e, q) # "none"
<1>1. CASE Kind(e.cmd) \in Increases
  BY <1>1 DEF PhaseAfterFill, Increases, Exits, Phases, Manageable, Finished
<1>2. CASE Kind(e.cmd) \in {"REDUCE", "TARGET"}
  BY <1>2 DEF PhaseAfterFill, Increases, Exits, Phases, Manageable, Finished
<1>3. CASE Kind(e.cmd) \in {"CLOSE", "STOP"}
  BY <1>3 DEF PhaseAfterFill, Increases, Exits, Phases, Manageable, Finished
<1> QED
  BY <1>1, <1>2, <1>3 DEF FillKinds, Exits

LEMMA KindIs ==
  ASSUME NEW e, Reducible(e), e.status = "FILL"
  PROVE  Kind(e.cmd) \in FillKinds
<1>1. CASE e.cmd \in Commands
  BY <1>1, OwnIds DEF Reducible, Kind, FillKinds
<1>2. CASE e.cmd \in {StopHit, TargetHit}
  BY <1>2 DEF Kind, FillKinds
<1> QED
  BY <1>1, <1>2 DEF Reducible, AnswerType

LEMMA LeftIs ==
  ASSUME NEW e, Reducible(e), e.status = "FILL", trade \in TradeType
  PROVE  Left(e) \in Nat
<1>1. trade.qty \in Nat /\ e.qty \in Nat
  BY DEF Reducible, AnswerType, TradeType
<1>2. Kind(e.cmd) \notin Increases => e.qty <= trade.qty
  BY DEF Reducible, Held, Reduces
<1> QED
  BY <1>1, <1>2 DEF Left

LEMMA TradeAfterFillIs ==
  ASSUME NEW e, Reducible(e), e.status = "FILL", trade \in TradeType
  PROVE  /\ TradeAfterFill(e) \in TradeType
         /\ TradeAfterFill(e).phase = PhaseAfterFill(e, Left(e))
<1> DEFINE kind == Kind(e.cmd)
           q == Left(e)
           phase == PhaseAfterFill(e, q)
           rev == IF kind \in {"CLOSE", "STOP"} /\ q > 0 THEN trade.rev ELSE trade.rev + 1
           entered == IF kind \in Increases THEN trade.entered + e.qty ELSE trade.entered
           taken == IF e.cmd = TargetHit THEN trade.taken + e.qty ELSE trade.taken
           basis == IF kind = "OPEN" THEN EntryStop ELSE AddStop
           stop == IF kind \in Increases THEN Larger(trade.stop, basis) ELSE trade.stop
           increased == IF kind \in Increases THEN e.bar ELSE trade.increased
           paid == IF kind \in Increases THEN e.price ELSE trade.paid
           executed == Larger(trade.executed, e.bar)
<1>1. /\ trade.phase \in Phases /\ trade.rev \in Nat /\ trade.entered \in Nat /\ trade.taken \in Nat
      /\ trade.stop \in Nat /\ trade.increased \in Nat /\ trade.paid \in Nat /\ trade.executed \in Nat
      /\ e.qty \in Nat /\ e.bar \in Nat /\ e.price \in Nat
  BY DEF Reducible, AnswerType, TradeType
<1>2. q \in Nat /\ phase \in Phases
  BY <1>1, LeftIs, KindIs, PhaseAfterFillIs
<1>3. rev \in Nat /\ entered \in Nat /\ taken \in Nat /\ increased \in Nat /\ paid \in Nat
  BY <1>1
<1>4. stop \in Nat /\ executed \in Nat
  BY <1>1, PricesAssumption DEF Larger
<1>5. TradeAfterFill(e) = [trade EXCEPT !.phase = phase, !.rev = rev, !.qty = q, !.entered = entered,
                                        !.taken = taken, !.stop = stop, !.increased = increased,
                                        !.paid = paid, !.executed = executed]
  BY DEF TradeAfterFill
<1> HIDE DEF q, phase, rev, entered, taken, stop, increased, paid, executed
<1> DEFINE after == [phase |-> phase, rev |-> rev, qty |-> q, entered |-> entered, taken |-> taken,
                     stop |-> stop, moving |-> trade.moving, increased |-> increased, paid |-> paid,
                     executed |-> executed, observed |-> trade.observed]
<1>6. TradeAfterFill(e) = after
  BY <1>5 DEF TradeType
<1>7. after \in TradeType /\ after.phase = phase
  BY <1>2, <1>3, <1>4 DEF TradeType
<1> QED
  BY <1>6, <1>7 DEF phase, q

LEMMA TradeAfterRefusalIs ==
  ASSUME NEW e, trade \in TradeType
  PROVE  /\ TradeAfterRefusal(e) \in TradeType
         /\ TradeAfterRefusal(e).phase \in {trade.phase, "REJECTED", "CANCELLED"}
         /\ trade.phase \in Finished => TradeAfterRefusal(e) = trade
<1>1. trade.rev + 1 \in Nat
  BY DEF TradeType
<1> QED
  BY <1>1 DEF TradeAfterRefusal, TradeType, Phases, Finished

LEMMA TradeAfterIs ==
  ASSUME NEW e, Reducible(e), trade \in TradeType
  PROVE  /\ TradeAfter(e) \in TradeType
         /\ trade.phase # "none" => TradeAfter(e).phase # "none"
         /\ e.status \in {"ACK", "ACTIVE"} => TradeAfter(e) = trade
<1>1. trade.phase \in Phases
  BY DEF TradeType
<1>2. CASE e.status = "FILL"
  <2>1. TradeAfter(e) = TradeAfterFill(e)
    BY <1>2 DEF TradeAfter
  <2>2. trade.phase # "none" => PhaseAfterFill(e, Left(e)) # "none"
    BY <1>1, <1>2, LeftIs, KindIs, PhaseAfterFillIs
  <2> QED
    BY <1>2, <2>1, <2>2, TradeAfterFillIs
<1>3. CASE e.status \in {"CANCEL", "REJECT"}
  BY <1>3, TradeAfterRefusalIs DEF TradeAfter
<1>4. CASE e.status \in {"ACK", "ACTIVE"}
  BY <1>4 DEF TradeAfter
<1> QED
  BY <1>2, <1>3, <1>4 DEF Reducible, AnswerType

\* The order of the event changes its state, never what was ordered.
LEMMA OrderAfterIs ==
  ASSUME NEW e, Reducible(e), OrdersOK, NEW c \in Commands
  PROVE  /\ OrderAfter(e, c) \in OrderType
         /\ OrderAfter(e, c).filled <= OrderAfter(e, c).size
         /\ OrderAfter(e, c).kind = order[c].kind
         /\ c # e.cmd => OrderAfter(e, c).status = order[c].status
         /\ c = e.cmd /\ e.status = "FILL" => OrderAfter(e, c).status \in {"PARTIAL", "FILLED"}
         /\ c = e.cmd /\ e.status \in {"CANCEL", "REJECT"} => OrderAfter(e, c).status = e.status
         /\ c = e.cmd /\ e.status \in {"ACK", "ACTIVE"} => OrderAfter(e, c).status = "ACK"
         /\ OrderAfter(e, c).reserved =>
              /\ order[c].reserved /\ ~Ends(e)
              /\ c = e.cmd => OrderAfter(e, c).status \in {"PARTIAL", "ACK"}
<1> DEFINE o == order[c]
           total == o.filled + e.qty
           fill == [o EXCEPT !.filled = total, !.status = IF total = o.size THEN "FILLED" ELSE "PARTIAL",
                             !.reserved = @ /\ total # o.size]
           end == [o EXCEPT !.status = e.status, !.reserved = FALSE]
           ack == [o EXCEPT !.status = "ACK", !.since = e.bar]
           own == CASE c # e.cmd -> o
                    [] c = e.cmd /\ e.status = "FILL" -> fill
                    [] c = e.cmd /\ e.status \in {"CANCEL", "REJECT"} -> end
                    [] c = e.cmd /\ e.status = "ACK" -> ack
                    [] c = e.cmd /\ e.status = "ACTIVE" -> [o EXCEPT !.status = "ACK"]
<1>1. /\ o \in OrderType /\ o.filled \in Nat /\ o.size \in Nat /\ o.filled <= o.size /\ o.reserved \in BOOLEAN
      /\ e.qty \in Nat /\ e.bar \in Nat /\ e.status \in {"ACK", "ACTIVE", "FILL", "CANCEL", "REJECT"}
  BY DEF OrdersOK, OrderType, Reducible, AnswerType
<1>2. c = e.cmd /\ e.status = "FILL" => total \in Nat /\ total <= o.size
  BY <1>1 DEF Reducible, WithinOrder
<1>3. OrderAfter(e, c) = [own EXCEPT !.reserved = @ /\ ~Ends(e)]
  BY DEF OrderAfter
<1> HIDE DEF total
<1>4. CASE c # e.cmd
  <2>1. own = o
    BY <1>4
  <2> HIDE DEF own, o
  <2> QED
    BY <1>1, <1>3, <1>4, <2>1 DEF OrderType, o
<1>5. CASE c = e.cmd /\ e.status = "FILL"
  <2>1. own = fill
    BY <1>5
  <2> DEFINE status == IF total = o.size THEN "FILLED" ELSE "PARTIAL"
             reserved == o.reserved /\ total # o.size
  <2>2. status \in {"PARTIAL", "FILLED"} /\ reserved \in BOOLEAN
    OBVIOUS
  <2>3. reserved => o.reserved /\ status = "PARTIAL"
    OBVIOUS
  <2>4. fill = [o EXCEPT !.filled = total, !.status = status, !.reserved = reserved]
    OBVIOUS
  <2> HIDE DEF status, reserved, fill, own, o
  <2>5. fill \in OrderType /\ fill.filled = total /\ fill.size = o.size /\ fill.kind = o.kind
        /\ fill.status = status /\ fill.reserved = reserved
    BY <1>1, <1>2, <1>5, <2>2, <2>4 DEF OrderType
  <2>6. [fill EXCEPT !.reserved = @ /\ ~Ends(e)].reserved => reserved /\ ~Ends(e)
    BY <2>5 DEF OrderType
  <2> QED
    BY <1>2, <1>3, <1>5, <2>1, <2>2, <2>3, <2>5, <2>6 DEF OrderType, o
<1>6. CASE c = e.cmd /\ e.status \in {"CANCEL", "REJECT"}
  <2>1. own = end
    BY <1>6
  <2>2. end \in OrderType /\ end.filled <= end.size /\ end.kind = o.kind
        /\ end.status = e.status /\ end.reserved = FALSE
    BY <1>1, <1>6 DEF OrderType
  <2> HIDE DEF own, end
  <2> QED
    BY <1>3, <1>6, <2>1, <2>2 DEF OrderType
<1>7. CASE c = e.cmd /\ e.status = "ACK"
  <2>1. own = ack
    BY <1>7
  <2>2. ack \in OrderType /\ ack.filled <= ack.size /\ ack.kind = o.kind
        /\ ack.status = "ACK" /\ ack.reserved = o.reserved
    BY <1>1, <1>7 DEF OrderType
  <2> HIDE DEF own, ack
  <2> QED
    BY <1>3, <1>7, <2>1, <2>2 DEF OrderType
<1>8. CASE c = e.cmd /\ e.status = "ACTIVE"
  <2> DEFINE act == [o EXCEPT !.status = "ACK"]
  <2>1. own = act
    BY <1>8
  <2>2. act \in OrderType /\ act.filled <= act.size /\ act.kind = o.kind
        /\ act.status = "ACK" /\ act.reserved = o.reserved
    BY <1>1, <1>8 DEF OrderType
  <2> HIDE DEF own, act
  <2> QED
    BY <1>3, <1>8, <2>1, <2>2 DEF OrderType
<1> QED
  BY <1>1, <1>4, <1>5, <1>6, <1>7, <1>8

-----------------------------------------------------------------------------
(* Steps.  Once an order has a kind it keeps it, so what the memory knows  *)
(* of the orders stays true whatever the journal does.                     *)

KindsKept == \A c \in Commands : order[c].kind # "none" => order'[c].kind = order[c].kind

\* What is left alone stays well-formed.
LEMMA MemoryKept ==
  ASSUME TypeInv, KindsKept
  PROVE  /\ broker' = broker => BrokerOK(broker)'
         /\ queue' = queue => EventsOK(queue)'
         /\ batch' = batch => EventsOK(batch)'
         /\ due' = due => \A c \in due' : order'[c].kind \in Scheduled
<1>1. broker' = broker => BrokerOK(broker)'
  BY DEF TypeInv, BrokerOK, BrokerType, KindsKept, Scheduled, Increases, Exits
<1>3. queue' = queue => EventsOK(queue)'
  BY DEF TypeInv, QueueOK, EventsOK, EventOK, KindsKept, Kinds, Increases, Exits
<1>4. batch' = batch => EventsOK(batch)'
  BY DEF TypeInv, BatchOK, EventsOK, EventOK, KindsKept, Kinds, Increases, Exits
<1>5. due' = due => \A c \in due' : order'[c].kind \in Scheduled
  BY DEF TypeInv, StepOK, KindsKept, Scheduled, Increases, Exits
<1> QED
  BY <1>1, <1>3, <1>4, <1>5

LEMMA SameOrders ==
  ASSUME order' = order
  PROVE  KindsKept
  BY DEF KindsKept

\* A stage of a bar leaves the broker and its queue well-formed.
LEMMA BecomesOK ==
  ASSUME NEW s, SimOK(s), Becomes(s), KindsKept
  PROVE  BrokerOK(broker)' /\ EventsOK(queue)'
<1>1. broker' = s.b /\ queue' = s.q /\ BrokerOK(s.b) /\ EventsOK(s.q)
  BY DEF SimOK, Becomes
<1>2. BrokerOK(broker)'
  BY <1>1 DEF BrokerOK, BrokerType, KindsKept, Scheduled, Increases, Exits
<1>3. EventsOK(queue)'
  BY <1>1 DEF EventsOK, EventOK, KindsKept, Kinds, Increases, Exits
<1> QED
  BY <1>2, <1>3

\* An event applied.
LEMMA ApplyOK ==
  ASSUME TypeInv, NEW e, Reducible(e), Apply(e)
  PROVE  trade' \in TradeType /\ OrdersOK' /\ KindsKept
<1>1. trade' = TradeAfter(e) /\ order' = [c \in Commands |-> OrderAfter(e, c)]
  BY DEF Apply
<1>2. trade' \in TradeType /\ (trade.phase # "none" => trade'.phase # "none")
  BY <1>1, TradeAfterIs DEF TypeInv
<1>3. \A c \in Commands :
        /\ OrderAfter(e, c) \in OrderType
        /\ OrderAfter(e, c).filled <= OrderAfter(e, c).size
        /\ OrderAfter(e, c).kind = order[c].kind
        /\ c # e.cmd => OrderAfter(e, c).status = order[c].status
  BY OrderAfterIs DEF TypeInv
<1>4. e.cmd \in Commands => order[e.cmd].kind # "none"
  BY DEF Reducible, Kinds, Increases, Exits
<1>5. order' \in [Commands -> OrderType]
  BY <1>1, <1>3
<1>6. OrdersOK'
  BY <1>1, <1>2, <1>3, <1>4, <1>5 DEF OrdersOK, TypeInv
<1> QED
  BY <1>1, <1>2, <1>3, <1>6 DEF KindsKept

\* A step that neither enters, leaves nor continues the simulation of a bar.
LEMMA OutsideOK ==
  ASSUME TypeInv, pc' \in Steps \ Simulating, KindsKept,
         trade' \in TradeType, OrdersOK', bars' \in Seq(Bars), cursor' \in Nat, faults' \in Nat,
         cut' \subseteq {"batch", "stop", "answer"}, fresh' \subseteq Commands, due' = due,
         BrokerOK(broker)', EventsOK(queue)',
         \A i \in 1..Len(queue') : queue'[i].status = "CANCEL",
         BatchOK', InflightOK'
  PROVE  TypeInv'
<1>1. \A c \in due' : order'[c].kind \in Scheduled
  BY MemoryKept
<1>2. StepOK'
  BY <1>1 DEF StepOK, Simulating
<1>3. QueueOK'
  BY DEF QueueOK
<1> QED
  BY <1>2, <1>3 DEF TypeInv

\* A step that leaves the orders, the broker and its queue alone.
LEMMA QuietOK ==
  ASSUME TypeInv, pc \notin Simulating, pc' \in Steps \ Simulating,
         order' = order, broker' = broker, queue' = queue, due' = due,
         trade' \in TradeType, trade'.phase = trade.phase,
         bars' \in Seq(Bars), cursor' \in Nat, faults' \in Nat,
         cut' \subseteq {"batch", "stop", "answer"}, fresh' \subseteq Commands,
         BatchOK', InflightOK'
  PROVE  TypeInv'
<1>1. KindsKept
  BY SameOrders
<1>2. OrdersOK'
  BY DEF TypeInv, OrdersOK
<1>3. BrokerOK(broker)' /\ EventsOK(queue)'
  BY <1>1, MemoryKept
<1>4. \A i \in 1..Len(queue') : queue'[i].status = "CANCEL"
  BY DEF TypeInv, QueueOK
<1> QED
  BY <1>1, <1>2, <1>3, <1>4, OutsideOK

LEMMA BatchKept ==
  ASSUME TypeInv, KindsKept, batch' = batch, pc' # "confirm", done' \in {done, 0}
  PROVE  BatchOK'
<1>1. EventsOK(batch)'
  BY MemoryKept
<1> QED
  BY <1>1 DEF TypeInv, BatchOK

LEMMA NothingInFlight ==
  ASSUME TypeInv, pc' \notin {"sent", "answer"},
         inflight' = NoEvent \/ (inflight' = inflight /\ pc \notin {"sent", "answer"})
  PROVE  InflightOK'
  BY DEF TypeInv, InflightOK

LEMMA BarClosesType ==
  ASSUME TypeInv, NEW b \in Bars, BarCloses(b)
  PROVE  TypeInv'
<1> USE DEF BarCloses, journal, memory
<1>1. bars' \in Seq(Bars)
  BY DEF TypeInv
<1>2. BatchOK' /\ InflightOK'
  BY BatchKept, NothingInFlight, SameOrders DEF Steps
<1> QED
  BY <1>1, <1>2, QuietOK DEF TypeInv, Steps, Simulating

\* Steps that only move the process on.
LEMMA MovesOnType ==
  ASSUME TypeInv, StepBegins \/ WithdrawEnds \/ WithdrawFails \/ Refused \/ StepEnds
  PROVE  TypeInv'
<1> USE DEF StepBegins, WithdrawEnds, WithdrawFails, Refused, StepEnds, Executes, HasNext, Decides,
            Fails, journal, memory
<1>1. pc \in {"idle", "withdraw", "commit", "work"} /\ pc' \in {"idle", "withdraw", "commit", "work"}
  OBVIOUS
<1>2. BatchOK' /\ InflightOK'
  BY <1>1, BatchKept, NothingInFlight, SameOrders
<1>3. faults' \in Nat /\ fresh' \subseteq Commands
  BY DEF TypeInv
<1> QED
  BY <1>1, <1>2, <1>3, QuietOK DEF TypeInv, Steps, Simulating

\* Steps that a failed transaction ends.
LEMMA FailsType ==
  ASSUME TypeInv, CommitFails \/ AnswerFails
  PROVE  TypeInv'
<1> USE DEF CommitFails, AnswerFails, HasNext, Fails, Gap, journal, memory
<1>1. pc \in {"confirm", "commit", "sent", "answer"} /\ pc' \in {"idle", "work"}
  OBVIOUS
<1>2. BatchOK' /\ InflightOK'
  BY <1>1, BatchKept, NothingInFlight, SameOrders
<1>3. faults' \in Nat /\ fresh' \subseteq Commands
  BY DEF TypeInv
<1>4. cut \subseteq {"batch", "stop", "answer"}
  BY DEF TypeInv
<1>5. cut' \subseteq {"batch", "stop", "answer"}
  BY <1>4
<1> QED
  BY <1>1, <1>2, <1>3, <1>5, QuietOK DEF TypeInv, Steps, Simulating

LEMMA ConsumeAgainType ==
  ASSUME TypeInv, ConsumeAgain
  PROVE  TypeInv'
<1> USE DEF ConsumeAgain, HasNext, journal
<1>1. BatchOK'
  BY MemoryKept, SameOrders DEF TypeInv, BatchOK
<1>2. InflightOK'
  BY NothingInFlight
<1> QED
  BY <1>1, <1>2, QuietOK DEF TypeInv, Steps, Simulating

LEMMA CommitEndsType ==
  ASSUME TypeInv, CommitEnds
  PROVE  TypeInv'
<1> USE DEF CommitEnds
<1>1. trade' \in TradeType /\ trade'.phase = trade.phase
  <2> DEFINE observed == IF trade.qty > 0 \/ trade.executed = cursor + 1 THEN cursor + 1 ELSE trade.observed
  <2>1. observed \in Nat
    BY DEF TypeInv, TradeType
  <2>2. trade' = [trade EXCEPT !.observed = observed]
    OBVIOUS
  <2> HIDE DEF observed
  <2> QED
    BY <2>1, <2>2 DEF TypeInv, TradeType
<1>2. BatchOK' /\ InflightOK'
  <2>1. EventsOK(<<>>)'
    BY DEF EventsOK
  <2> QED
    BY <2>1, NothingInFlight DEF BatchOK
<1> QED
  BY <1>1, <1>2, QuietOK DEF TypeInv, Steps, Simulating

LEMMA ConfirmStopType ==
  ASSUME TypeInv, ConfirmStop
  PROVE  TypeInv'
<1> USE DEF ConfirmStop, memory
<1> DEFINE e == batch[done]
           level == order[e.cmd].level
           executed == Larger(trade.executed, e.bar)
<1>1. e \in EventType /\ e.cmd \in Commands
  <2>1. done \in 1..Len(batch)
    BY DEF TypeInv, BatchOK
  <2>2. EventOK(e) /\ e.status = "ACTIVE"
    BY <2>1 DEF TypeInv, BatchOK, EventsOK
  <2> QED
    BY <2>2 DEF EventOK
<1>2. level \in Nat /\ executed \in Nat /\ trade.rev + 1 \in Nat
  <2>1. e.bar \in Nat
    BY <1>1 DEF EventType
  <2>2. level \in Nat
    BY <1>1 DEF TypeInv, OrdersOK, OrderType
  <2>3. trade.rev \in Nat /\ trade.executed \in Nat
    BY DEF TypeInv, TradeType
  <2> QED
    BY <2>1, <2>2, <2>3 DEF Larger
<1>3. trade' = [trade EXCEPT !.stop = level, !.moving = 0, !.rev = @ + 1, !.executed = executed]
  OBVIOUS
<1> HIDE DEF level, executed
<1>4. trade' \in TradeType /\ trade'.phase = trade.phase
  BY <1>2, <1>3 DEF TypeInv, TradeType
<1>5. BatchOK' /\ InflightOK'
  BY BatchKept, NothingInFlight, SameOrders
<1> QED
  BY <1>4, <1>5, QuietOK DEF TypeInv, Steps, Simulating

\* Steps that apply one event.
LEMMA CancelReducible ==
  ASSUME NEW c \in Commands, order[c].kind \in Kinds
  PROVE  Reducible(Event(c, "CANCEL", 0, 0, 0))
  BY DEF Reducible, AnswerType, Event, Held, Reduces, WithinOrder

LEMMA WithdrawCancelType ==
  ASSUME TypeInv, NEW c \in Commands, WithdrawCancel(c)
  PROVE  TypeInv'
<1> USE DEF WithdrawCancel, memory
<1>1. Reducible(Event(c, "CANCEL", 0, 0, 0))
  BY CancelReducible DEF Undelivered, Of, Kinds
<1>2. trade' \in TradeType /\ OrdersOK' /\ KindsKept
  BY <1>1, ApplyOK
<1>3. BrokerOK(broker)' /\ EventsOK(queue)' /\ BatchOK' /\ InflightOK'
  BY <1>2, MemoryKept, BatchKept, NothingInFlight
<1>4. \A i \in 1..Len(queue') : queue'[i].status = "CANCEL"
  BY DEF TypeInv, QueueOK, Simulating
<1> QED
  BY <1>2, <1>3, <1>4, OutsideOK DEF TypeInv, Steps, Simulating

LEMMA UpcomingOK ==
  ASSUME TypeInv, HasNext
  PROVE  EventOK(Upcoming) /\ done + 1 \in 1..Len(batch)
<1>1. done + 1 \in 1..Len(batch)
  BY DEF TypeInv, BatchOK, HasNext
<1> QED
  BY <1>1 DEF TypeInv, BatchOK, EventsOK, Upcoming

LEMMA ConsumeType ==
  ASSUME TypeInv, Consume
  PROVE  TypeInv'
<1> USE DEF Consume, HasNext
<1>1. Reducible(Upcoming)
  BY UpcomingOK DEF Reducible, EventOK, EventType, AnswerType, Applicable
<1>2. trade' \in TradeType /\ OrdersOK' /\ KindsKept
  BY <1>1, ApplyOK
<1>3. BrokerOK(broker)' /\ EventsOK(queue)' /\ EventsOK(batch)'
  BY <1>2, MemoryKept
<1>4. BatchOK'
  <2>1. done' = done + 1 /\ done' \in 1..Len(batch) /\ batch' = batch
    BY UpcomingOK
  <2>2. pc' = "confirm" => batch'[done'].status = "ACTIVE"
    BY <2>1 DEF Upcoming
  <2> QED
    BY <1>3, <2>1, <2>2 DEF BatchOK
<1>5. InflightOK'
  BY NothingInFlight
<1>6. \A i \in 1..Len(queue') : queue'[i].status = "CANCEL"
  BY DEF TypeInv, QueueOK, Simulating
<1> QED
  BY <1>2, <1>3, <1>4, <1>5, <1>6, OutsideOK DEF TypeInv, Steps, Simulating

LEMMA InflightReducible ==
  ASSUME TypeInv, pc \in {"sent", "answer"}
  PROVE  Reducible(inflight)
<1>1. /\ inflight.cmd \in Commands /\ inflight.qty = 0 /\ inflight.bar \in Nat /\ inflight.price \in Nat
      /\ inflight = Event(inflight.cmd, inflight.status, inflight.qty, inflight.bar, inflight.price)
      /\ inflight.status \in {"ACK", "FILL", "CANCEL", "REJECT"}
      /\ inflight.status = "FILL" => order[inflight.cmd].kind \in Increases \cup Exits
      /\ order[inflight.cmd].kind \in Kinds
  BY DEF TypeInv, InflightOK
<1>2. inflight \in AnswerType
  BY <1>1 DEF Event, AnswerType
<1>3. trade.qty \in Nat
  BY DEF TypeInv, TradeType
<1>4. order[inflight.cmd].filled \in Nat /\ order[inflight.cmd].size \in Nat
      /\ order[inflight.cmd].filled <= order[inflight.cmd].size
  BY <1>1 DEF TypeInv, OrdersOK, OrderType
<1>5. Held(inflight) /\ WithinOrder(inflight)
  BY <1>1, <1>3, <1>4, OwnIds DEF Held, WithinOrder
<1> QED
  BY <1>1, <1>2, <1>5 DEF Reducible

LEMMA ConsumeAnswerType ==
  ASSUME TypeInv, ConsumeAnswer
  PROVE  TypeInv'
<1> USE DEF ConsumeAnswer
<1>1. trade' \in TradeType /\ OrdersOK' /\ KindsKept
  BY InflightReducible, ApplyOK
<1>2. BrokerOK(broker)' /\ EventsOK(queue)' /\ BatchOK' /\ InflightOK'
  BY <1>1, MemoryKept, BatchKept, NothingInFlight
<1>3. \A i \in 1..Len(queue') : queue'[i].status = "CANCEL"
  BY DEF TypeInv, QueueOK, Simulating
<1> QED
  BY <1>1, <1>2, <1>3, OutsideOK DEF TypeInv, Steps, Simulating

LEMMA HeadReducible ==
  ASSUME TypeInv, pc \notin Simulating, queue # <<>>
  PROVE  Reducible(Head(queue)) /\ Head(queue).status = "CANCEL"
<1>1. queue \in Seq(EventType) /\ 1 \in 1..Len(queue) /\ Head(queue) = queue[1]
  BY DEF TypeInv, QueueOK, EventsOK
<1>2. EventOK(Head(queue)) /\ Head(queue).status = "CANCEL"
  BY <1>1 DEF TypeInv, QueueOK, EventsOK
<1> QED
  BY <1>2 DEF EventOK, EventType, Reducible, AnswerType, Held, Reduces, WithinOrder

LEMMA DrainQueueType ==
  ASSUME TypeInv, DrainQueue
  PROVE  TypeInv'
<1> USE DEF DrainQueue, Decides
<1>1. trade' \in TradeType /\ OrdersOK' /\ KindsKept
  BY HeadReducible, ApplyOK DEF Simulating
<1>2. BrokerOK(broker)' /\ BatchOK' /\ InflightOK'
  BY <1>1, MemoryKept, BatchKept, NothingInFlight
<1>3. EventsOK(queue) /\ \A i \in 1..Len(queue) : queue[i].status = "CANCEL"
  BY DEF TypeInv, QueueOK, Simulating
<1>4. queue' \in Seq(EventType) /\ Len(queue') = Len(queue) - 1
      /\ \A i \in 1..Len(queue') : i + 1 \in 1..Len(queue) /\ queue'[i] = queue[i + 1]
  BY <1>3 DEF EventsOK
<1>5. \A i \in 1..Len(queue') : EventOK(queue'[i]) /\ queue'[i].status = "CANCEL"
  BY <1>3, <1>4 DEF EventsOK
<1>6. EventsOK(queue)'
  BY <1>1, <1>4, <1>5 DEF EventsOK, EventOK, KindsKept, Kinds, Increases, Exits
<1> QED
  BY <1>1, <1>2, <1>5, <1>6, OutsideOK DEF TypeInv, Steps, Simulating

\* Steps that write an order without an event.
LEMMA OutboxOK ==
  ASSUME TypeInv, NEW c \in Commands, NEW mark \in {"PENDING", "CLAIMED", "SENT", "UNDELIVERED"},
         order' = [order EXCEPT ![c].outbox = mark], trade' = trade
  PROVE  /\ OrdersOK' /\ KindsKept
         /\ \A x \in Commands : /\ order'[x].kind = order[x].kind
                                /\ order'[x].status = order[x].status
                                /\ order'[x].reserved = order[x].reserved
<1> DEFINE o == [order[c] EXCEPT !.outbox = mark]
<1>1. order \in [Commands -> OrderType]
  BY DEF TypeInv, OrdersOK
<1>2. o \in OrderType /\ o.kind = order[c].kind /\ o.status = order[c].status
      /\ o.filled = order[c].filled /\ o.size = order[c].size /\ o.reserved = order[c].reserved
  BY <1>1 DEF OrderType
<1>3. order' = [order EXCEPT ![c] = o]
  OBVIOUS
<1> HIDE DEF o
<1>4. order' \in [Commands -> OrderType]
      /\ \A x \in Commands : /\ order'[x].kind = order[x].kind
                             /\ order'[x].status = order[x].status
                             /\ order'[x].filled = order[x].filled
                             /\ order'[x].size = order[x].size
                             /\ order'[x].reserved = order[x].reserved
  BY <1>1, <1>2, <1>3
<1> QED
  BY <1>4 DEF TypeInv, OrdersOK, KindsKept

LEMMA WithdrawMarkOK ==
  ASSUME TypeInv, WithdrawMark
  PROVE  /\ OrdersOK' /\ KindsKept
         /\ \A x \in Commands : /\ order'[x].kind = order[x].kind
                                /\ order'[x].status = order[x].status
                                /\ order'[x].reserved = order[x].reserved
<1> DEFINE f == [c \in Commands |->
                   IF c \in Undelivered THEN [order[c] EXCEPT !.outbox = "UNDELIVERED"] ELSE order[c]]
<1>1. order \in [Commands -> OrderType]
  BY DEF TypeInv, OrdersOK
<1>2. \A c \in Commands : /\ f[c] \in OrderType /\ f[c].kind = order[c].kind
                          /\ f[c].status = order[c].status /\ f[c].reserved = order[c].reserved
                          /\ f[c].filled = order[c].filled /\ f[c].size = order[c].size
  BY <1>1 DEF OrderType
<1>3. f \in [Commands -> OrderType]
  BY <1>2
<1>4. order' = f /\ trade' = trade
  BY DEF WithdrawMark
<1> HIDE DEF f
<1> QED
  BY <1>2, <1>3, <1>4 DEF TypeInv, OrdersOK, KindsKept

LEMMA WithdrawMarkType ==
  ASSUME TypeInv, WithdrawMark
  PROVE  TypeInv'
<1>1. OrdersOK' /\ KindsKept
  BY WithdrawMarkOK
<1> USE DEF WithdrawMark, memory
<1>2. BrokerOK(broker)' /\ EventsOK(queue)' /\ BatchOK' /\ InflightOK'
  BY <1>1, MemoryKept, BatchKept, NothingInFlight
<1>3. \A i \in 1..Len(queue') : queue'[i].status = "CANCEL"
  BY DEF TypeInv, QueueOK, Simulating
<1> QED
  BY <1>1, <1>2, <1>3, OutsideOK DEF TypeInv, Steps, Simulating

LEMMA MarkSentType ==
  ASSUME TypeInv, MarkSent
  PROVE  TypeInv'
<1> USE DEF MarkSent, memory
<1>1. inflight.cmd \in Commands
  BY DEF TypeInv, InflightOK
<1>2. /\ OrdersOK' /\ KindsKept
      /\ \A x \in Commands : order'[x].kind = order[x].kind /\ order'[x].status = order[x].status
  BY <1>1, OutboxOK
<1>3. BrokerOK(broker)' /\ EventsOK(queue)' /\ BatchOK'
  BY <1>2, MemoryKept, BatchKept
<1>4. InflightOK'
  BY <1>1, <1>2 DEF TypeInv, InflightOK
<1>5. \A i \in 1..Len(queue') : queue'[i].status = "CANCEL"
  BY DEF TypeInv, QueueOK, Simulating
<1> QED
  BY <1>2, <1>3, <1>4, <1>5, OutsideOK DEF TypeInv, Steps, Simulating

\* A new command.
LEMMA InsertOK ==
  ASSUME TypeInv, NEW c \in Commands, NEW kind \in Kinds, NEW size \in Nat, NEW level \in Nat,
         NEW late \in BOOLEAN, Insert(c, kind, size, level, late), trade' \in TradeType,
         trade'.phase # "none", BrokerOK(broker)'
  PROVE  TypeInv'
<1> DEFINE reserved == kind \in Increases
           o == [NoOrder EXCEPT !.kind = kind, !.status = "PENDING", !.outbox = "PENDING",
                                !.rev = trade.rev, !.size = size, !.level = level,
                                !.reserved = reserved, !.late = late]
<1>1. order \in [Commands -> OrderType] /\ trade.rev \in Nat /\ reserved \in BOOLEAN
  BY DEF TypeInv, OrdersOK, TradeType
<1>2. order' = [order EXCEPT ![c] = o] /\ order[c].kind = "none"
  BY DEF Insert, First, Free
<1> HIDE DEF reserved
<1>3. o \in OrderType /\ o.filled = 0 /\ o.size = size /\ o.kind = kind
  BY <1>1 DEF OrderType, NoOrder
<1> HIDE DEF o
<1>4. KindsKept
  BY <1>1, <1>2 DEF KindsKept
<1>5. kind # "none"
  BY DEF Kinds, Increases, Exits
<1>6. order' \in [Commands -> OrderType]
  BY <1>1, <1>2, <1>3
<1>7. OrdersOK'
  BY <1>1, <1>2, <1>3, <1>5, <1>6 DEF TypeInv, OrdersOK
<1> USE DEF Insert, Decides
<1>8. EventsOK(queue)' /\ BatchOK' /\ InflightOK'
  BY <1>4, MemoryKept, BatchKept, NothingInFlight
<1>9. \A i \in 1..Len(queue') : queue'[i].status = "CANCEL"
  BY DEF TypeInv, QueueOK, Simulating
<1>10. fresh' \subseteq Commands
  BY DEF TypeInv
<1> QED
  BY <1>4, <1>7, <1>8, <1>9, <1>10, OutsideOK DEF TypeInv, Steps, Simulating

LEMMA InsertKinds ==
  ASSUME TypeInv, NEW c \in Commands, NEW kind, NEW size, NEW level, NEW late,
         Insert(c, kind, size, level, late)
  PROVE  KindsKept
  BY DEF Insert, First, Free, KindsKept, TypeInv, OrdersOK

LEMMA SubmitPlanType ==
  ASSUME TypeInv, NEW c \in Commands, SubmitPlan(c)
  PROVE  TypeInv'
<1>1. trade' \in TradeType /\ trade'.phase # "none"
  BY DEF SubmitPlan, TypeInv, TradeType, Phases
<1>2. KindsKept
  BY InsertKinds DEF SubmitPlan
<1> DEFINE b == [broker EXCEPT !.known = TRUE]
<1>3. broker' = b /\ broker \in BrokerType
  BY DEF SubmitPlan, TypeInv, BrokerOK
<1>4. b \in BrokerType /\ b.sched = broker.sched /\ b.answer = broker.answer
  BY <1>3 DEF BrokerType
<1> HIDE DEF b
<1>5. BrokerOK(broker)'
  BY <1>2, <1>3, <1>4 DEF TypeInv, BrokerOK, BrokerType, KindsKept, Scheduled, Increases, Exits
<1> QED
  BY <1>1, <1>5, InsertOK, SizesAssumption DEF SubmitPlan, Kinds, Increases

\* The other commands belong to a trade that is there.
LEMMA SubmitsType ==
  ASSUME TypeInv, NEW c \in Commands,
         \/ SubmitAdd(c) \/ SubmitClose(c) \/ SubmitReduce(c)
         \/ \E level \in StopLevels : SubmitMove(c, level)
         \/ \E late \in BOOLEAN : SubmitCancel(c, late)
  PROVE  TypeInv'
<1>1. trade \in TradeType /\ trade.qty \in Nat
  BY DEF TypeInv, TradeType
<1>2. ASSUME NEW kind, NEW size, NEW level, NEW late, Insert(c, kind, size, level, late), broker' = broker
      PROVE  BrokerOK(broker)'
  BY <1>2, InsertKinds, MemoryKept
<1>3. CASE SubmitAdd(c)
  BY <1>1, <1>2, <1>3, InsertOK, SizesAssumption DEF SubmitAdd, Kinds, Increases
<1>4. CASE SubmitClose(c)
  BY <1>1, <1>2, <1>4, InsertOK DEF SubmitClose, Kinds, Exits, Manageable
<1>5. CASE SubmitReduce(c)
  BY <1>1, <1>2, <1>5, InsertOK DEF SubmitReduce, Kinds, Exits, Manageable
<1>6. ASSUME NEW level \in StopLevels, SubmitMove(c, level)
      PROVE  TypeInv'
  <2>1. trade' \in TradeType /\ trade'.phase = trade.phase
    BY <1>1, <1>6 DEF SubmitMove, TradeType
  <2>2. level \in Nat
    BY PricesAssumption
  <2> QED
    BY <1>2, <1>6, <2>1, <2>2, InsertOK DEF SubmitMove, Kinds, Manageable
<1>7. ASSUME NEW late \in BOOLEAN, SubmitCancel(c, late)
      PROVE  TypeInv'
  BY <1>1, <1>2, <1>7, InsertOK DEF SubmitCancel, Kinds
<1> QED
  BY <1>3, <1>4, <1>5, <1>6, <1>7

-----------------------------------------------------------------------------
(* Delivery: what the broker answers, and what it is left with.            *)

LEMMA AnswerIs ==
  ASSUME TypeInv, NEW c \in Commands, NEW d \in Delays, order[c].kind \in Kinds
  PROVE  /\ Answer(c, d).cmd = c /\ Answer(c, d).qty = 0 /\ Answer(c, d).price = 0
         /\ Answer(c, d).bar \in Nat
         /\ Answer(c, d) = Event(c, Answer(c, d).status, 0, Answer(c, d).bar, 0)
         /\ Answer(c, d).status \in {"ACK", "FILL", "CANCEL", "REJECT"}
         /\ Answer(c, d).status = "FILL" => order[c].kind \in Increases \cup Exits
         /\ broker.answer[c] = "none" /\ Answer(c, d).status = "ACK" => order[c].kind \in Scheduled
<1> DEFINE now == Len(bars) + 1 + d
           waiting == Of(broker.sched, Increases)
<1>1. d \in Nat /\ now \in Nat
  BY DelaysAssumption DEF TypeInv
<1>2. broker.answer[c] \in {"none", "ACK", "FILL", "CANCEL", "REJECT"} /\ broker.since[c] \in Nat
  BY DEF TypeInv, BrokerOK, BrokerType
<1>3. broker.answer[c] = "FILL" => order[c].kind \in Increases \cup Exits
  BY DEF TypeInv, BrokerOK
<1>4. order[c].kind # "CANCEL" => order[c].kind \in Scheduled
  BY DEF Kinds, Scheduled
<1> HIDE DEF now, waiting
<1>5. CASE broker.answer[c] # "none"
  <2>1. Answer(c, d) = Event(c, broker.answer[c], 0, broker.since[c], 0)
    BY <1>5 DEF Answer
  <2> QED
    BY <1>2, <1>3, <1>5, <2>1 DEF Event
<1>6. CASE broker.answer[c] = "none" /\ (~broker.known \/ order[c].rev # broker.rev)
  <2>1. Answer(c, d) = Event(c, "REJECT", 0, now, 0)
    BY <1>6 DEF Answer, now
  <2> QED
    BY <1>1, <2>1 DEF Event
<1>7. CASE broker.answer[c] = "none" /\ broker.known /\ order[c].rev = broker.rev
  <2>1. Answer(c, d) = IF order[c].kind # "CANCEL" THEN Event(c, "ACK", 0, now, 0)
                       ELSE IF broker.qty > 0 /\ waiting = {} THEN Event(c, "REJECT", 0, now, 0)
                       ELSE Event(c, "CANCEL", 0, now, 0)
    BY <1>7 DEF Answer, now, waiting
  <2> QED
    BY <1>1, <1>4, <2>1 DEF Event
<1> QED
  BY <1>5, <1>6, <1>7

\* A record of the answer, and possibly a place in the schedule.
LEMMA RecordedOK ==
  ASSUME NEW b, BrokerOK(b), NEW c \in Commands, NEW t \in Nat, NEW rev \in Nat, NEW sched \in SUBSET Commands,
         NEW a \in {"ACK", "FILL", "CANCEL", "REJECT"},
         a = "FILL" => order[c].kind \in Increases \cup Exits,
         \A x \in sched : order[x].kind \in Scheduled
  PROVE  BrokerOK([b EXCEPT !.answer[c] = a, !.since[c] = t, !.sched = sched, !.rev = rev])
<1> DEFINE n == [b EXCEPT !.answer[c] = a, !.since[c] = t, !.sched = sched, !.rev = rev]
<1>1. b \in BrokerType
  BY DEF BrokerOK
<1>2. n \in BrokerType /\ n.sched = sched
      /\ \A x \in Commands : n.answer[x] = IF x = c THEN a ELSE b.answer[x]
  BY <1>1 DEF BrokerType
<1> HIDE DEF n
<1>3. BrokerOK(n)
  BY <1>2 DEF BrokerOK
<1> QED
  BY <1>3 DEF n

LEMMA SubmittedOK ==
  ASSUME TypeInv, pc \notin Simulating, NEW e, e.cmd \in Commands, e.bar \in Nat,
         e.status \in {"ACK", "FILL", "CANCEL", "REJECT"},
         e.status = "FILL" => order[e.cmd].kind \in Increases \cup Exits,
         broker.answer[e.cmd] = "none" /\ e.status = "ACK" => order[e.cmd].kind \in Scheduled,
         e.status = "FILL" => broker.answer[e.cmd] # "none"
  PROVE  /\ SimOK(Submitted(e))
         /\ \A i \in 1..Len(Submitted(e).q) : Submitted(e).q[i].status = "CANCEL"
<1> DEFINE c == e.cmd
           a == e.status
           x == Cancelled(Sim, {}, 0)
           known == [broker EXCEPT !.answer[c] = a, !.since[c] = e.bar]
           waits == [known EXCEPT !.sched = @ \cup {c}]
           rev == IF x.b.qty = 0 THEN x.b.rev + 1 ELSE x.b.rev
           gone == [x.b EXCEPT !.answer[c] = "CANCEL", !.since[c] = e.bar, !.rev = rev]
<1>1. BrokerOK(broker) /\ EventsOK(queue) /\ broker \in BrokerType
      /\ \A i \in 1..Len(queue) : queue[i].status = "CANCEL"
  BY DEF TypeInv, QueueOK, BrokerOK
<1>2. SimOK(Sim)
  BY <1>1 DEF SimOK, Sim
<1>3. CASE broker.answer[c] # "none" \/ a = "REJECT"
  <2>1. Submitted(e) = [b |-> known, q |-> queue]
    BY <1>3 DEF Submitted
  <2>2. known = [broker EXCEPT !.answer[c] = a, !.since[c] = e.bar, !.sched = broker.sched, !.rev = broker.rev]
    BY <1>1 DEF BrokerType
  <2>3. \A y \in broker.sched : order[y].kind \in Scheduled
    BY <1>1 DEF BrokerOK
  <2>4. broker.rev \in Nat /\ broker.sched \in SUBSET Commands
    BY <1>1 DEF BrokerType
  <2> HIDE DEF known
  <2>5. BrokerOK(known)
    BY <1>1, <2>2, <2>3, <2>4, RecordedOK
  <2> QED
    BY <1>1, <2>1, <2>5 DEF SimOK
<1>4. CASE broker.answer[c] = "none" /\ a = "ACK"
  <2>1. Submitted(e) = [b |-> waits, q |-> queue]
    BY <1>4 DEF Submitted
  <2> DEFINE sched == broker.sched \cup {c}
  <2>2. waits = [broker EXCEPT !.answer[c] = a, !.since[c] = e.bar, !.sched = sched, !.rev = broker.rev]
    BY <1>1 DEF BrokerType
  <2>3. broker.rev \in Nat /\ sched \in SUBSET Commands
    BY <1>1 DEF BrokerType
  <2>4. \A y \in sched : order[y].kind \in Scheduled
    BY <1>1, <1>4 DEF BrokerOK
  <2> HIDE DEF waits, known, sched
  <2>5. BrokerOK(waits)
    BY <1>1, <2>2, <2>3, <2>4, RecordedOK
  <2> QED
    BY <1>1, <2>1, <2>5 DEF SimOK
<1>5. CASE broker.answer[c] = "none" /\ a = "CANCEL"
  <2>1. /\ SimOK(x)
        /\ x.q = queue \/ \E y \in EventType : y.status = "CANCEL" /\ x.q = Append(queue, y)
    <3>1. Sim.q = queue /\ {} \in SUBSET Commands /\ 0 \in Nat
      BY DEF Sim
    <3>2. \A y \in {} : order[y].kind \in Kinds
      OBVIOUS
    <3>3. /\ SimOK(x)
          /\ x.q = Sim.q \/ \E y \in EventType : y.status = "CANCEL" /\ x.q = Append(Sim.q, y)
      BY <1>2, <3>1, <3>2, CancelledIs
    <3> QED
      BY <3>1, <3>3
  <2>2. x = [b |-> x.b, q |-> x.q] /\ BrokerOK(x.b) /\ EventsOK(x.q) /\ x.b \in BrokerType
    BY <2>1 DEF SimOK, BrokerOK
  <2>3. Submitted(e) = [x EXCEPT !.b.answer[c] = "CANCEL", !.b.since[c] = e.bar,
                                 !.b.rev = IF x.b.qty = 0 THEN @ + 1 ELSE @]
    BY <1>5 DEF Submitted
  <2>4. \A i \in 1..Len(x.q) : x.q[i].status = "CANCEL"
    <3>1. CASE x.q = queue
      BY <1>1, <3>1
    <3>2. ASSUME NEW y \in EventType, y.status = "CANCEL", x.q = Append(queue, y)
          PROVE  \A i \in 1..Len(x.q) : x.q[i].status = "CANCEL"
      BY <1>1, <3>2 DEF EventsOK
    <3> QED
      BY <2>1, <3>1, <3>2
  <2> HIDE DEF x
  <2>5. Submitted(e) = [b |-> gone, q |-> x.q]
    BY <2>2, <2>3
  <2>6. rev \in Nat /\ x.b.sched \in SUBSET Commands /\ \A y \in x.b.sched : order[y].kind \in Scheduled
    BY <2>2 DEF BrokerOK, BrokerType
  <2> HIDE DEF rev
  <2>7. gone = [x.b EXCEPT !.answer[c] = "CANCEL", !.since[c] = e.bar, !.sched = x.b.sched, !.rev = rev]
    BY <2>2 DEF BrokerType
  <2>8. BrokerOK([x.b EXCEPT !.answer[c] = "CANCEL", !.since[c] = e.bar, !.sched = x.b.sched, !.rev = rev])
    BY <2>2, <2>6, RecordedOK
  <2>9. BrokerOK(gone)
    BY <2>7, <2>8
  <2> HIDE DEF gone
  <2> QED
    BY <2>2, <2>4, <2>5, <2>9 DEF SimOK
<1> QED
  BY <1>3, <1>4, <1>5

LEMMA DeliverType ==
  ASSUME TypeInv, NEW c \in Commands, NEW d \in Delays, Deliver(c, d)
  PROVE  TypeInv'
<1> DEFINE e == Answer(c, d)
<1> USE DEF Deliver, Decides
<1>1. order[c].status = "PENDING" /\ order[c].kind \in Kinds
  BY DEF First, Eligible, TypeInv, OrdersOK, OrderType
<1>2. /\ e.cmd = c /\ e.qty = 0 /\ e.price = 0 /\ e.bar \in Nat
      /\ e = Event(c, e.status, 0, e.bar, 0)
      /\ e.status \in {"ACK", "FILL", "CANCEL", "REJECT"}
      /\ e.status = "FILL" => order[c].kind \in Increases \cup Exits
      /\ broker.answer[c] = "none" /\ e.status = "ACK" => order[c].kind \in Scheduled
  BY <1>1, AnswerIs
<1>3. e.status = "FILL" => broker.answer[c] # "none"
  BY DEF Answer, Event
<1>4. inflight' = e /\ Becomes(Submitted(e)) /\ order' = [order EXCEPT ![c].outbox = "CLAIMED"]
  OBVIOUS
<1> HIDE DEF e
<1>5. /\ SimOK(Submitted(e))
      /\ \A i \in 1..Len(Submitted(e).q) : Submitted(e).q[i].status = "CANCEL"
  BY <1>2, <1>3, SubmittedOK DEF Simulating
<1>6. /\ OrdersOK' /\ KindsKept
      /\ \A x \in Commands : order'[x].kind = order[x].kind /\ order'[x].status = order[x].status
  BY <1>4, OutboxOK
<1>7. BrokerOK(broker)' /\ EventsOK(queue)' /\ BatchOK'
  BY <1>4, <1>5, <1>6, BecomesOK, BatchKept
<1>8. \A i \in 1..Len(queue') : queue'[i].status = "CANCEL"
  BY <1>4, <1>5 DEF Becomes
<1>9. InflightOK'
  BY <1>1, <1>2, <1>4, <1>6 DEF InflightOK
<1> QED
  BY <1>6, <1>7, <1>8, <1>9, OutsideOK DEF TypeInv, Steps, Simulating

-----------------------------------------------------------------------------
(* The stages of a bar.                                                    *)

LEMMA SimulationStarts ==
  ASSUME TypeInv, pc \in Simulating
  PROVE  /\ SimOK(Sim) /\ Sim.b = broker /\ Sim.q = queue
         /\ cursor + 1 \in Nat /\ bars[cursor + 1] \in [open : Nat, low : Nat, high : Nat]
         /\ \A c \in due : order[c].kind \in Scheduled /\ order[c].kind \in Kinds /\ c \in Commands
         /\ order \in [Commands -> OrderType]
<1>1. cursor + 1 \in Nat /\ cursor + 1 \in 1..Len(bars)
  BY DEF TypeInv, StepOK
<1>2. bars[cursor + 1] \in [open : Nat, low : Nat, high : Nat]
  BY <1>1, BarsAssumption DEF TypeInv
<1>3. SimOK(Sim) /\ Sim.b = broker /\ Sim.q = queue
  BY DEF TypeInv, QueueOK, Sim, SimOK
<1>4. \A c \in due : order[c].kind \in Scheduled /\ order[c].kind \in Kinds /\ c \in Commands
  BY DEF TypeInv, StepOK, Scheduled, Kinds
<1> QED
  BY <1>1, <1>2, <1>3, <1>4 DEF TypeInv, OrdersOK

\* A stage that leaves the broker in s and takes commands from those due.
LEMMA StageOK ==
  ASSUME TypeInv, pc \in Simulating, Simulates, BrokerOK(broker)', EventsOK(queue)', due' \subseteq due,
         pc' \in Simulating,
         pc' = "opens" => \A c \in due' : order[c].kind # "MOVESTOP",
         pc' = "limits" => \A c \in due' : order[c].kind \in Increases
  PROVE  TypeInv'
<1> USE DEF Simulates, journal
<1>1. OrdersOK' /\ trade' \in TradeType
  BY DEF TypeInv, OrdersOK
<1>2. EventsOK(batch)'
  BY MemoryKept, SameOrders
<1>3. BatchOK'
  BY <1>2 DEF TypeInv, BatchOK, Simulating
<1>4. InflightOK'
  BY NothingInFlight DEF Simulating
<1>5. StepOK' /\ QueueOK'
  BY DEF TypeInv, StepOK, QueueOK
<1> QED
  BY <1>1, <1>3, <1>4, <1>5 DEF TypeInv, Steps

LEMMA TakeMoveType ==
  ASSUME TypeInv, NEW c \in Commands, TakeMove(c)
  PROVE  TypeInv'
<1> USE DEF TakeMove
<1>1. pc = "moves" /\ pc \in Simulating /\ order' = order /\ c \in due /\ order[c].kind = "MOVESTOP"
  BY DEF Simulates, Simulating, journal, First, Of
<1>2. order[c].level \in Nat /\ cursor + 1 \in Nat
  BY <1>1, SimulationStarts DEF OrderType
<1>3. SimOK(Moved(Sim, c, cursor + 1))
  BY <1>1, <1>2, SimulationStarts, MovedOK
<1>4. BrokerOK(broker)' /\ EventsOK(queue)'
  BY <1>1, <1>3, BecomesOK, SameOrders
<1> QED
  BY <1>1, <1>4, StageOK

LEMMA OpeningType ==
  ASSUME TypeInv, Opening
  PROVE  TypeInv'
<1> USE DEF Opening
<1>1. pc = "moves" /\ pc \in Simulating /\ pc' \in Simulating /\ order' = order /\ due \in SUBSET Commands
  BY DEF Simulates, Simulating, journal, TypeInv
<1>2. SimOK(StopOut(Sim, due, cursor + 1, bars[cursor + 1].open))
  BY <1>1, SimulationStarts, StopOutOK
<1>3. BrokerOK(broker)' /\ EventsOK(queue)'
  BY <1>1, <1>2, BecomesOK, SameOrders
<1>4. \A c \in due : order[c].kind # "MOVESTOP"
  BY DEF Of
<1> QED
  BY <1>1, <1>3, <1>4, StageOK

LEMMA TakeExitType ==
  ASSUME TypeInv, NEW c \in Commands, TakeExit(c)
  PROVE  TypeInv'
<1> USE DEF TakeExit
<1>1. pc = "opens" /\ pc \in Simulating /\ order' = order /\ c \in due /\ order[c].kind \in Exits
  BY DEF Simulates, Simulating, journal, First, Of
<1>2. order[c].size \in Nat /\ due \ {c} \in SUBSET Commands
  BY <1>1, SimulationStarts DEF OrderType, TypeInv
<1>3. SimOK(Exited(Sim, c, due \ {c}, cursor + 1))
  BY <1>1, <1>2, SimulationStarts, ExitedOK
<1>4. BrokerOK(broker)' /\ EventsOK(queue)'
  BY <1>1, <1>3, BecomesOK, SameOrders
<1>5. \A x \in due' : order[x].kind # "MOVESTOP"
  BY <1>1 DEF TypeInv, StepOK
<1> QED
  BY <1>1, <1>4, <1>5, StageOK

\* What is left when the exits are taken.
LEMMA OnlyIncreases ==
  ASSUME TypeInv, pc = "opens", Of(due, Exits) = {}
  PROVE  \A c \in due : order[c].kind \in Increases
<1>1. \A c \in due : order[c].kind \in Scheduled /\ order[c].kind # "MOVESTOP" /\ order[c].kind \notin Exits
  BY DEF TypeInv, StepOK, Of
<1> QED
  BY <1>1 DEF Scheduled

LEMMA FillAtOpenType ==
  ASSUME TypeInv, NEW c \in Commands, FillAtOpen(c)
  PROVE  TypeInv'
<1> USE DEF FillAtOpen
<1>1. pc = "opens" /\ pc \in Simulating /\ order' = order /\ c \in due /\ Of(due, Exits) = {}
  BY DEF Simulates, Simulating, journal
<1>2. \A x \in due : order[x].kind \in Increases /\ order[x].kind # "MOVESTOP"
  BY <1>1, OnlyIncreases DEF Increases
<1>3. order[c].size \in Nat /\ bars[cursor + 1].open \in Nat /\ 0 \in Nat
  BY <1>1, SimulationStarts DEF OrderType
<1>4. SimOK(Increased(Sim, c, cursor + 1, bars[cursor + 1].open, 0))
  BY <1>1, <1>2, <1>3, SimulationStarts, IncreasedOK
<1>5. BrokerOK(broker)' /\ EventsOK(queue)'
  BY <1>1, <1>4, BecomesOK, SameOrders
<1> QED
  BY <1>1, <1>2, <1>5, StageOK

LEMMA ProtectionType ==
  ASSUME TypeInv, Protection
  PROVE  TypeInv'
<1> USE DEF Protection
<1>1. pc = "opens" /\ pc \in Simulating /\ pc' \in Simulating /\ pc' = "limits" /\ order' = order
      /\ due \in SUBSET Commands /\ Of(due, Exits) = {}
  BY DEF Simulates, Simulating, journal, TypeInv
<1>2. SimOK(Protected(Sim, due, cursor + 1, bars[cursor + 1]))
  BY <1>1, SimulationStarts, ProtectedOK
<1>3. BrokerOK(broker)' /\ EventsOK(queue)'
  BY <1>1, <1>2, BecomesOK, SameOrders
<1> QED
  BY <1>1, <1>3, OnlyIncreases, StageOK

\* The stages that take up one waiting increase.
LEMMA LimitsType ==
  ASSUME TypeInv, NEW c \in Commands, LimitExpires(c) \/ LimitWaits(c) \/ FillAtLimit(c)
  PROVE  TypeInv'
<1>1. /\ pc = "limits" /\ pc \in Simulating /\ pc' = pc /\ Simulates /\ order' = order
      /\ c \in due /\ due' = due \ {c} /\ due \ {c} \in SUBSET Commands
  BY DEF LimitExpires, LimitWaits, FillAtLimit, Simulates, Simulating, journal, TypeInv
<1>2. \A x \in due : order[x].kind \in Increases
  BY <1>1 DEF TypeInv, StepOK
<1>3. SUFFICES BrokerOK(broker)' /\ EventsOK(queue)'
  BY <1>1, <1>2, StageOK
<1>4. CASE LimitExpires(c)
  <2>1. EventOK(Event(c, "CANCEL", 0, cursor + 1, 0)) /\ Event(c, "CANCEL", 0, cursor + 1, 0).cmd = c
    BY <1>1, SimulationStarts DEF EventOK, Event, EventType
  <2>2. SimOK(Answered(Sim, Event(c, "CANCEL", 0, cursor + 1, 0)))
    BY <1>1, <2>1, SimulationStarts, AnsweredOK
  <2> QED
    BY <1>1, <1>4, <2>2, BecomesOK, SameOrders DEF LimitExpires
<1>5. CASE LimitWaits(c)
  <2> DEFINE b == [broker EXCEPT !.sched = @ \cup {c}]
  <2>1. broker' = b /\ queue' = queue /\ BrokerOK(broker) /\ broker \in BrokerType
    BY <1>5 DEF LimitWaits, TypeInv, BrokerOK
  <2>2. b \in BrokerType /\ b.sched = broker.sched \cup {c} /\ b.answer = broker.answer
    BY <2>1 DEF BrokerType
  <2> HIDE DEF b
  <2>3. BrokerOK(b)
    BY <1>1, <1>2, <2>1, <2>2 DEF BrokerOK, Scheduled
  <2>4. BrokerOK(broker)'
    BY <1>1, <2>1, <2>3 DEF BrokerOK
  <2> QED
    BY <1>1, <2>1, <2>4, MemoryKept, SameOrders
<1>6. CASE FillAtLimit(c)
  <2> DEFINE t == cursor + 1
             filled == Increased(Sim, c, t, Limit(c), t)
             next == IF filled.b.answer[c] = "REJECT" THEN filled
                     ELSE StopOut(filled, due \ {c}, t, bars[t].low)
  <2>1. order[c].size \in Nat /\ Limit(c) \in Nat /\ t \in Nat
    BY <1>1, SimulationStarts, PricesAssumption DEF OrderType, Limit
  <2> HIDE DEF t
  <2>2. SimOK(filled)
    BY <1>1, <1>2, <2>1, SimulationStarts, IncreasedOK
  <2>3. \A x \in due \ {c} : order[x].kind \in Kinds
    BY <1>2 DEF Kinds
  <2>4. SimOK(StopOut(filled, due \ {c}, t, bars[t].low))
    BY <1>1, <2>1, <2>2, <2>3, StopOutOK
  <2>5. Becomes(next)
    BY <1>6 DEF FillAtLimit, t
  <2> QED
    BY <1>1, <2>2, <2>4, <2>5, BecomesOK, SameOrders
<1> QED
  BY <1>4, <1>5, <1>6

LEMMA TrackBeginsType ==
  ASSUME TypeInv, TrackBegins
  PROVE  TypeInv'
<1> DEFINE taken == {c \in broker.sched : broker.since[c] <= cursor + 1}
           b == [broker EXCEPT !.sched = @ \ taken]
<1>1. broker' = b /\ due' = taken /\ order' = order
  BY DEF TrackBegins, journal
<1>2. BrokerOK(broker) /\ broker \in BrokerType /\ taken \subseteq broker.sched
  BY DEF TypeInv, BrokerOK
<1> HIDE DEF taken
<1>3. b \in BrokerType /\ b.sched \subseteq broker.sched /\ b.answer = broker.answer /\ taken \subseteq Commands
  BY <1>2 DEF BrokerType
<1> HIDE DEF b
<1>4. BrokerOK(broker)'
  BY <1>1, <1>2, <1>3 DEF BrokerOK
<1>5. \A c \in due' : order'[c].kind \in Scheduled
  BY <1>1, <1>2 DEF BrokerOK
<1> USE DEF TrackBegins, journal
<1>6. EventsOK(queue)' /\ EventsOK(batch)'
  BY MemoryKept, SameOrders
<1>7. StepOK' /\ QueueOK' /\ BatchOK'
  BY <1>5, <1>6 DEF StepOK, QueueOK, Simulating, TypeInv, BatchOK
<1>8. InflightOK'
  BY NothingInFlight
<1>9. OrdersOK'
  BY DEF TypeInv, OrdersOK
<1> QED
  BY <1>1, <1>3, <1>4, <1>7, <1>8, <1>9 DEF TypeInv, Steps, Simulating

LEMMA DrainType ==
  ASSUME TypeInv, Drain
  PROVE  TypeInv'
<1> USE DEF Drain, journal
<1>1. order' = order /\ KindsKept
  BY SameOrders
<1>2. BrokerOK(broker)'
  BY <1>1, MemoryKept
<1>3. EventsOK(queue)' /\ queue' = <<>>
  BY DEF EventsOK
<1>4. EventsOK(batch)'
  BY <1>1 DEF TypeInv, QueueOK, EventsOK, EventOK
<1>5. BatchOK' /\ InflightOK'
  BY <1>4, NothingInFlight DEF BatchOK
<1>6. StepOK' /\ QueueOK' /\ OrdersOK'
  BY <1>3 DEF StepOK, QueueOK, Simulating, TypeInv, OrdersOK
<1> QED
  BY <1>2, <1>5, <1>6 DEF TypeInv, Steps, Simulating

-----------------------------------------------------------------------------
(* Death and restart.                                                      *)

LEMMA NoBrokerOK == BrokerOK(NoBroker) /\ NoBroker \in BrokerType
  BY DEF BrokerOK, BrokerType, NoBroker

LEMMA CrashType ==
  ASSUME TypeInv, Crash
  PROVE  TypeInv'
<1> USE DEF Crash, journal, Fails
<1>1. order' = order /\ OrdersOK' /\ faults' \in Nat /\ pc' \in Steps
  BY DEF TypeInv, OrdersOK, Steps
<1>2. cut \subseteq {"batch", "stop", "answer"} /\ Lost \subseteq {"batch", "stop", "answer"}
  BY DEF TypeInv, Lost, Gap
<1>3. cut' \subseteq {"batch", "stop", "answer"}
  BY <1>2
<1>4. BrokerOK(broker)'
  BY <1>1, NoBrokerOK DEF BrokerOK
<1>5. EventsOK(queue)' /\ EventsOK(batch)'
  BY DEF EventsOK
<1>6. QueueOK' /\ BatchOK' /\ StepOK'
  BY <1>5 DEF QueueOK, BatchOK, StepOK, Simulating
<1>7. InflightOK'
  BY NothingInFlight
<1> QED
  BY <1>1, <1>3, <1>4, <1>6, <1>7 DEF TypeInv

\* What recovery makes of the orders.
LEMMA RecoverOrders ==
  ASSUME TypeInv, Recover
  PROVE  /\ OrdersOK'
         /\ \A c \in Commands : /\ order'[c].kind = order[c].kind
                                /\ order'[c].status = order[c].status
                                /\ order'[c].reserved => order[c].reserved
<1> DEFINE f == [c \in Commands |->
                   [order[c] EXCEPT !.outbox = IF @ = "CLAIMED" THEN "PENDING" ELSE @,
                                    !.reserved = @ /\ trade.phase \notin Finished]]
<1>1. order \in [Commands -> OrderType]
  BY DEF TypeInv, OrdersOK
<1>2. ASSUME NEW c \in Commands
      PROVE  /\ f[c] \in OrderType /\ f[c].kind = order[c].kind /\ f[c].status = order[c].status
             /\ f[c].filled = order[c].filled /\ f[c].size = order[c].size
             /\ f[c].reserved => order[c].reserved
  <2> DEFINE outbox == IF order[c].outbox = "CLAIMED" THEN "PENDING" ELSE order[c].outbox
             reserved == order[c].reserved /\ trade.phase \notin Finished
             o == [order[c] EXCEPT !.outbox = outbox, !.reserved = reserved]
  <2>1. outbox \in {"none", "PENDING", "CLAIMED", "SENT", "UNDELIVERED"}
    BY <1>1 DEF OrderType
  <2>2. reserved \in BOOLEAN /\ (reserved => order[c].reserved)
    OBVIOUS
  <2>3. f[c] = o
    OBVIOUS
  <2> HIDE DEF outbox, reserved
  <2>4. o \in OrderType /\ o.kind = order[c].kind /\ o.status = order[c].status
        /\ o.filled = order[c].filled /\ o.size = order[c].size /\ o.reserved = reserved
    BY <1>1, <2>1, <2>2 DEF OrderType
  <2> HIDE DEF o, f
  <2> QED
    BY <2>2, <2>3, <2>4
<1>3. f \in [Commands -> OrderType]
  BY <1>2
<1>4. order' = f /\ trade' = trade
  BY DEF Recover
<1> HIDE DEF f
<1> QED
  BY <1>2, <1>3, <1>4 DEF TypeInv, OrdersOK

\* What the broker is restored to.
LEMMA RestoredOK ==
  ASSUME TypeInv
  PROVE  BrokerOK(Restored)
<1> DEFINE idle == [NoBroker EXCEPT
                 !.known = TRUE, !.sched = Resumed,
                 !.since = [c \in Commands |-> IF c \in Resumed THEN order[c].since ELSE 0],
                 !.answer = [c \in Commands |-> IF c \in Resumed THEN "ACK" ELSE "none"]]
           held == [idle EXCEPT !.rev = trade.rev, !.qty = trade.qty, !.entered = trade.entered,
                         !.taken = trade.taken, !.stop = trade.stop,
                         !.opened = trade.increased, !.paid = trade.paid]
           since == [c \in Commands |-> IF c \in Resumed THEN order[c].since ELSE 0]
           answer == [c \in Commands |-> IF c \in Resumed THEN "ACK" ELSE "none"]
<1>1. since \in [Commands -> Nat] /\ answer \in [Commands -> {"none", "ACK"}]
  BY DEF TypeInv, OrdersOK, OrderType
<1>2. Resumed \in SUBSET Commands
  BY DEF Resumed
<1>3. ASSUME NEW c \in Resumed
      PROVE  order[c].kind \in Scheduled
  BY DEF Resumed, Scheduled
<1>4. idle = [NoBroker EXCEPT !.known = TRUE, !.sched = Resumed, !.since = since, !.answer = answer]
  OBVIOUS
<1> HIDE DEF idle, since, answer
<1>5. idle \in BrokerType /\ idle.sched = Resumed /\ idle.answer = answer
  BY <1>1, <1>2, <1>4 DEF BrokerType, NoBroker
<1>6. BrokerOK(idle)
  BY <1>1, <1>3, <1>5 DEF BrokerOK
<1>7. /\ trade.rev \in Nat /\ trade.qty \in Nat /\ trade.entered \in Nat /\ trade.taken \in Nat
      /\ trade.stop \in Nat /\ trade.increased \in Nat /\ trade.paid \in Nat
  BY DEF TypeInv, TradeType
<1>8. held \in BrokerType /\ held.sched = Resumed /\ held.answer = answer
  BY <1>5, <1>7 DEF BrokerType
<1> HIDE DEF held
<1>9. BrokerOK(held)
  BY <1>1, <1>3, <1>8 DEF BrokerOK
<1>10. Restored = CASE trade.phase \notin Live -> NoBroker
                    [] trade.phase \in Live /\ trade.qty = 0 -> idle
                    [] trade.phase \in Live /\ trade.qty > 0 -> held
  BY DEF Restored, idle, held
<1>11. trade.qty = 0 \/ trade.qty > 0
  BY <1>7
<1> QED
  BY <1>6, <1>9, <1>10, <1>11, NoBrokerOK

LEMMA BoundaryIs ==
  ASSUME TypeInv
  PROVE  Boundary \in Nat
<1>1. trade.executed \in Nat /\ trade.observed \in Nat
  BY DEF TypeInv, TradeType
<1>2. bars \in Seq(Bars)
  BY DEF TypeInv
<1>3. Len(bars) \in Nat
  BY <1>2
<1>4. trade.executed > trade.observed => trade.executed - 1 \in Nat
  BY <1>1
<1>5. trade.executed > trade.observed \/ trade.executed <= trade.observed
  BY <1>1
<1> QED
  BY <1>1, <1>3, <1>4, <1>5 DEF Boundary

LEMMA RecoverType ==
  ASSUME TypeInv, Recover
  PROVE  TypeInv'
<1>1. OrdersOK' /\ KindsKept
  BY RecoverOrders DEF KindsKept
<1> USE DEF Recover
<1>2. BrokerOK(broker)'
  <2>1. broker' = Restored /\ BrokerOK(Restored)
    BY RestoredOK
  <2> QED
    BY <1>1, <2>1 DEF BrokerOK, BrokerType, KindsKept, Scheduled, Increases, Exits
<1>3. cursor' \in Nat
  BY BoundaryIs
<1>4. EventsOK(queue)' /\ BatchOK' /\ InflightOK'
  BY <1>1, MemoryKept, BatchKept, NothingInFlight
<1>5. \A i \in 1..Len(queue') : queue'[i].status = "CANCEL"
  BY DEF TypeInv, QueueOK, Simulating
<1> QED
  BY <1>1, <1>2, <1>3, <1>4, <1>5, OutsideOK DEF TypeInv, Steps, Simulating

-----------------------------------------------------------------------------
(* The specification.                                                      *)

LEMMA InitType ==
  ASSUME Init
  PROVE  TypeInv
<1> USE DEF Init
<1>1. trade \in TradeType
  BY DEF NoTrade, TradeType, Phases
<1>2. OrdersOK
  BY DEF OrdersOK, OrderType, NoOrder
<1>3. EventsOK(queue) /\ EventsOK(batch)
  BY DEF EventsOK
<1>4. QueueOK /\ BatchOK /\ StepOK /\ InflightOK
  BY <1>3 DEF QueueOK, BatchOK, StepOK, InflightOK, Simulating
<1> QED
  BY <1>1, <1>2, <1>4, NoBrokerOK DEF TypeInv, Steps

\* Every action keeps the inductive invariant.
LEMMA NextType ==
  ASSUME TypeInv, Next
  PROVE  TypeInv'
<1>1. CASE \E b \in Bars : BarCloses(b)
  BY <1>1, BarClosesType
<1>2. CASE StepBegins \/ WithdrawEnds \/ WithdrawFails \/ Refused \/ StepEnds
  BY <1>2, MovesOnType
<1>3. CASE WithdrawMark \/ \E c \in Commands : WithdrawCancel(c)
  BY <1>3, WithdrawMarkType, WithdrawCancelType
<1>4. CASE TrackBegins \/ Simulation
  BY <1>4, TrackBeginsType, OpeningType, ProtectionType, DrainType, TakeMoveType, TakeExitType,
     FillAtOpenType, LimitsType DEF Simulation
<1>5. CASE Journalling
  BY <1>5, ConsumeType, ConsumeAgainType, ConfirmStopType, MovesOnType, FailsType, CommitEndsType
     DEF Journalling
<1>6. CASE Deciding
  BY <1>6, SubmitPlanType, SubmitsType DEF Deciding
<1>7. CASE Delivering
  BY <1>7, DeliverType, MarkSentType, ConsumeAnswerType, FailsType, DrainQueueType DEF Delivering
<1>8. CASE Crash \/ Recover
  BY <1>8, CrashType, RecoverType
<1> QED
  BY <1>1, <1>2, <1>3, <1>4, <1>5, <1>6, <1>7, <1>8 DEF Next

LEMMA StutterType ==
  ASSUME TypeInv, UNCHANGED vars
  PROVE  TypeInv'
<1> USE DEF vars, journal, memory
<1>1. KindsKept
  BY SameOrders
<1>2. BrokerOK(broker)' /\ EventsOK(queue)' /\ EventsOK(batch)'
  BY <1>1, MemoryKept
<1>3. OrdersOK' /\ QueueOK' /\ BatchOK' /\ StepOK' /\ InflightOK'
  BY <1>2 DEF TypeInv, OrdersOK, QueueOK, BatchOK, StepOK, InflightOK
<1> QED
  BY <1>2, <1>3 DEF TypeInv

LEMMA TypeInvCorrect == Spec => []TypeInv
<1>1. TypeInv /\ [Next]_vars => TypeInv'
  BY NextType, StutterType
<1> QED
  BY <1>1, InitType, PTL DEF Spec

\* Journal, broker and step have their types in every state: no quantity goes
\* below zero, no order is filled beyond its size, and no event is without an
\* order that can have it.
THEOREM TypeCorrect == Spec => []TypeOK
<1>1. TypeInv => TypeOK
  <2> SUFFICES ASSUME TypeInv PROVE TypeOK
    OBVIOUS
  <2>1. /\ trade.phase \in Manageable \cup Finished \cup {"none", "ENTRY_PENDING"}
        /\ trade.moving \in Commands \cup {0}
    BY DEF TypeInv, TradeType, Phases
  <2>2. \A f \in {"rev", "qty", "entered", "taken", "stop", "increased", "paid", "executed", "observed"} :
          trade[f] \in Nat
    BY DEF TypeInv, TradeType
  <2>3. \A c \in Commands :
          /\ order[c].kind \in Kinds \cup {"none"}
          /\ order[c].status \in {"none", "PENDING", "ACK", "PARTIAL", "FILLED", "CANCEL", "REJECT"}
          /\ order[c].outbox \in {"none", "PENDING", "CLAIMED", "SENT", "UNDELIVERED"}
          /\ order[c].filled <= order[c].size
    BY DEF TypeInv, OrdersOK, OrderType
  <2>4. broker \in BrokerType
    BY DEF TypeInv, BrokerOK
  <2>5. broker.sched \cup due \cup fresh \subseteq Commands
    BY <2>4 DEF TypeInv, BrokerType
  <2>6. \A f \in {"rev", "qty", "entered", "taken", "stop", "opened", "paid"} : broker[f] \in Nat
    BY <2>4 DEF BrokerType
  <2>7. done <= Len(batch)
    BY DEF TypeInv, BatchOK
  <2>8. inflight.cmd \in Commands \cup {0}
    BY DEF TypeInv, InflightOK, NoEvent, Event
  <2> QED
    BY <2>1, <2>2, <2>3, <2>5, <2>6, <2>7, <2>8 DEF TypeInv, TypeOK
<1> QED
  BY <1>1, TypeInvCorrect, PTL

-----------------------------------------------------------------------------
(* Reservations.                                                           *)

LEMMA ApplyReserved ==
  ASSUME TypeInv, ReservedIsOpen, NEW e, Reducible(e), Apply(e)
  PROVE  ReservedIsOpen'
<1> SUFFICES ASSUME NEW c \in Commands, order'[c].reserved
             PROVE  /\ order'[c].kind \in Increases
                    /\ order'[c].status \in Waiting \cup {"PARTIAL"}
                    /\ trade'.phase \notin Finished
  BY DEF ReservedIsOpen
<1>1. trade' = TradeAfter(e) /\ order'[c] = OrderAfter(e, c)
  BY DEF Apply
<1>2. /\ order[c].reserved /\ ~Ends(e)
      /\ order'[c].kind = order[c].kind
      /\ c # e.cmd => order'[c].status = order[c].status
      /\ c = e.cmd => order'[c].status \in {"PARTIAL", "ACK"}
  BY <1>1, OrderAfterIs DEF TypeInv
<1>3. /\ order[c].kind \in Increases /\ order[c].status \in Waiting \cup {"PARTIAL"}
      /\ trade.phase \notin Finished
  BY <1>2 DEF ReservedIsOpen
<1>4. trade'.phase \notin Finished
  <2>1. CASE e.status \in {"ACK", "ACTIVE"}
    BY <1>1, <1>3, <2>1, TradeAfterIs DEF TypeInv
  <2>2. CASE e.status \in {"FILL", "CANCEL", "REJECT"}
    BY <1>1, <1>2, <2>2 DEF Ends
  <2> QED
    BY <2>1, <2>2 DEF Reducible, AnswerType
<1> QED
  BY <1>2, <1>3, <1>4 DEF Waiting

\* Nothing but an event ends a trade or settles an order.
LEMMA KeepsReserved ==
  ASSUME ReservedIsOpen, trade'.phase \notin Finished \/ trade'.phase = trade.phase,
         \A c \in Commands : order'[c].reserved =>
           /\ order[c].reserved
           /\ order'[c].kind = order[c].kind /\ order'[c].status = order[c].status
  PROVE  ReservedIsOpen'
  BY DEF ReservedIsOpen

\* A new order is open, and its trade is not finished.
LEMMA InsertReserved ==
  ASSUME TypeInv, ReservedIsOpen, NEW c \in Commands, NEW kind, NEW size, NEW level, NEW late,
         Insert(c, kind, size, level, late), trade'.phase \notin Finished
  PROVE  ReservedIsOpen'
<1> DEFINE o == [NoOrder EXCEPT !.kind = kind, !.status = "PENDING", !.outbox = "PENDING",
                                !.rev = trade.rev, !.size = size, !.level = level,
                                !.reserved = (kind \in Increases), !.late = late]
<1>1. order' = [order EXCEPT ![c] = o] /\ order \in [Commands -> OrderType]
  BY DEF Insert, TypeInv, OrdersOK
<1>2. o.kind = kind /\ o.status = "PENDING" /\ (o.reserved => kind \in Increases)
  BY DEF NoOrder
<1> HIDE DEF o
<1>3. \A x \in Commands : order'[x] = IF x = c THEN o ELSE order[x]
  BY <1>1
<1> QED
  BY <1>2, <1>3 DEF ReservedIsOpen, Waiting

\* Risk is reserved for nothing but the open remainder of an increase of an
\* unfinished trade, whatever arrives, fails or is lost.
THEOREM ReservedIsOpenCorrect == Spec => []ReservedIsOpen
<1>1. Init => ReservedIsOpen
  BY DEF Init, ReservedIsOpen, NoOrder
<1>2. TypeInv /\ ReservedIsOpen /\ [Next]_vars => ReservedIsOpen'
  <2> SUFFICES ASSUME TypeInv, ReservedIsOpen, [Next]_vars
               PROVE  ReservedIsOpen'
    OBVIOUS
  <2>1. CASE UNCHANGED <<trade, order>>
    BY <2>1, KeepsReserved
  <2>2. CASE order' = order /\ trade'.phase = trade.phase
    BY <2>2, KeepsReserved
  <2>3. CASE Consume
    BY <2>3, UpcomingOK, ApplyReserved
       DEF Consume, Reducible, EventOK, EventType, AnswerType, Applicable
  <2>4. ASSUME NEW c \in Commands, WithdrawCancel(c) PROVE ReservedIsOpen'
    BY <2>4, CancelReducible, ApplyReserved DEF WithdrawCancel, Undelivered, Of, Kinds
  <2>5. CASE ConsumeAnswer
    BY <2>5, InflightReducible, ApplyReserved DEF ConsumeAnswer
  <2>6. CASE DrainQueue
    BY <2>6, HeadReducible, ApplyReserved DEF DrainQueue, Decides, Simulating
  <2>7. CASE WithdrawMark
    BY <2>7, WithdrawMarkOK, KeepsReserved DEF WithdrawMark
  <2>8. CASE MarkSent
    BY <2>8, OutboxOK, KeepsReserved DEF MarkSent, TypeInv, InflightOK
  <2>9. ASSUME NEW c \in Commands, NEW d \in Delays, Deliver(c, d) PROVE ReservedIsOpen'
    BY <2>9, OutboxOK, KeepsReserved DEF Deliver
  <2>10. CASE Recover
    BY <2>10, RecoverOrders, KeepsReserved DEF Recover
  <2>11. CASE Deciding
    <3>1. PICK c \in Commands : \/ SubmitPlan(c) \/ SubmitAdd(c) \/ SubmitClose(c) \/ SubmitReduce(c)
                                \/ \E level \in StopLevels : SubmitMove(c, level)
                                \/ \E late \in BOOLEAN : SubmitCancel(c, late)
      BY <2>11 DEF Deciding
    <3>2. CASE SubmitPlan(c)
      <4>1. trade'.phase = "ENTRY_PENDING"
        BY <3>2 DEF SubmitPlan, TypeInv, TradeType
      <4> QED
        BY <3>2, <4>1, InsertReserved DEF SubmitPlan, Finished
    <3>3. CASE SubmitAdd(c)
      BY <3>3, InsertReserved DEF SubmitAdd, Finished
    <3>4. CASE SubmitClose(c)
      BY <3>4, InsertReserved DEF SubmitClose, Manageable, Finished
    <3>5. CASE SubmitReduce(c)
      BY <3>5, InsertReserved DEF SubmitReduce, Manageable, Finished
    <3>6. ASSUME NEW level \in StopLevels, SubmitMove(c, level) PROVE ReservedIsOpen'
      <4>1. trade'.phase = trade.phase
        BY <3>6 DEF SubmitMove, TypeInv, TradeType
      <4> QED
        BY <3>6, <4>1, InsertReserved DEF SubmitMove, Manageable, Finished
    <3>7. ASSUME NEW late \in BOOLEAN, SubmitCancel(c, late) PROVE ReservedIsOpen'
      BY <3>7, InsertReserved DEF SubmitCancel, Finished
    <3> QED
      BY <3>1, <3>2, <3>3, <3>4, <3>5, <3>6, <3>7
  <2>12. CASE ConfirmStop \/ CommitEnds
    <3>1. order' = order /\ trade'.phase = trade.phase
      BY <2>12 DEF ConfirmStop, CommitEnds, TypeInv, TradeType
    <3> QED
      BY <2>2, <3>1
  <2>13. CASE UNCHANGED vars
    BY <2>1, <2>13 DEF vars, journal
  <2>14. CASE (\E b \in Bars : BarCloses(b)) \/ StepBegins \/ WithdrawEnds \/ WithdrawFails
              \/ TrackBegins \/ ConsumeAgain \/ Refused \/ CommitFails \/ AnswerFails \/ StepEnds \/ Crash
    BY <2>1, <2>14 DEF BarCloses, StepBegins, WithdrawEnds, WithdrawFails, TrackBegins, ConsumeAgain,
       Refused, CommitFails, AnswerFails, StepEnds, Crash, journal
  <2>15. CASE Simulation
    BY <2>1, <2>15 DEF Simulation, Opening, Protection, Drain, TakeMove, TakeExit, FillAtOpen,
       LimitExpires, LimitWaits, FillAtLimit, Simulates, journal
  <2> QED
    BY <2>3, <2>4, <2>5, <2>6, <2>7, <2>8, <2>9, <2>10, <2>11, <2>12, <2>13, <2>14, <2>15
    DEF Next, Journalling, Delivering
<1> QED
  BY <1>1, <1>2, TypeInvCorrect, PTL DEF Spec

-----------------------------------------------------------------------------
(* One open increase.                                                      *)

\* An event opens no order that was not open: an acceptance belongs to an order
\* that waits, a stop in force to no increase.
LEMMA ApplyOne ==
  ASSUME TypeInv, OneOpenIncrease, NEW e, Reducible(e), Apply(e),
         e.status \in {"ACK", "ACTIVE"} =>
           order[e.cmd].kind \notin Increases \/ order[e.cmd].status \in Waiting
  PROVE  OneOpenIncrease'
<1>1. ASSUME NEW c \in Commands, order'[c].kind \in Increases, order'[c].status \in Waiting
      PROVE  order[c].kind \in Increases /\ order[c].status \in Waiting
  <2>1. order'[c] = OrderAfter(e, c)
    BY DEF Apply
  <2>2. /\ order'[c].kind = order[c].kind
        /\ c # e.cmd => order'[c].status = order[c].status
        /\ c = e.cmd /\ e.status = "FILL" => order'[c].status \in {"PARTIAL", "FILLED"}
        /\ c = e.cmd /\ e.status \in {"CANCEL", "REJECT"} => order'[c].status = e.status
    BY <2>1, OrderAfterIs DEF TypeInv
  <2>3. CASE c # e.cmd
    BY <1>1, <2>2, <2>3
  <2>4. CASE c = e.cmd
    <3>1. e.status \notin {"FILL", "CANCEL", "REJECT"}
      BY <1>1, <2>2, <2>4 DEF Waiting
    <3> QED
      BY <1>1, <2>2, <2>4, <3>1 DEF Reducible, AnswerType
  <2> QED
    BY <2>3, <2>4
<1> QED
  BY <1>1 DEF OneOpenIncrease, Of

LEMMA KeepsOne ==
  ASSUME OneOpenIncrease,
         \A c \in Commands : order'[c].kind = order[c].kind /\ order'[c].status = order[c].status
  PROVE  OneOpenIncrease'
  BY DEF OneOpenIncrease, Of

LEMMA InsertOne ==
  ASSUME TypeInv, OneOpenIncrease, NEW c \in Commands, NEW kind, NEW size, NEW level, NEW late,
         Insert(c, kind, size, level, late),
         kind \in Increases => \A x \in Commands :
           order[x].kind \in Increases => order[x].status \notin Waiting
  PROVE  OneOpenIncrease'
<1> DEFINE o == [NoOrder EXCEPT !.kind = kind, !.status = "PENDING", !.outbox = "PENDING",
                                !.rev = trade.rev, !.size = size, !.level = level,
                                !.reserved = (kind \in Increases), !.late = late]
<1>1. order' = [order EXCEPT ![c] = o] /\ order \in [Commands -> OrderType]
  BY DEF Insert, TypeInv, OrdersOK
<1>2. o.kind = kind
  BY DEF NoOrder
<1> HIDE DEF o
<1>3. \A x \in Commands : order'[x] = IF x = c THEN o ELSE order[x]
  BY <1>1
<1> QED
  BY <1>2, <1>3 DEF OneOpenIncrease, Of

\* The journal takes at most one increase for waiting, whatever the broker did
\* with those it has seen and whichever answer was lost.
THEOREM OneOpenIncreaseCorrect == Spec => []OneOpenIncrease
<1>1. Init => OneOpenIncrease
  BY DEF Init, OneOpenIncrease, NoOrder, Of, Increases
<1>2. TypeInv /\ OneOpenIncrease /\ [Next]_vars => OneOpenIncrease'
  <2> SUFFICES ASSUME TypeInv, OneOpenIncrease, [Next]_vars
               PROVE  OneOpenIncrease'
    OBVIOUS
  <2>1. CASE order' = order
    BY <2>1, KeepsOne
  <2>2. CASE Consume
    <3>1. EventOK(Upcoming) /\ Reducible(Upcoming)
      BY <2>2, UpcomingOK DEF Consume, Reducible, EventOK, EventType, AnswerType, Applicable
    <3>2. Upcoming.status \in {"ACK", "ACTIVE"} => order[Upcoming.cmd].kind \notin Increases
      BY <3>1 DEF EventOK, EventType, Increases
    <3> QED
      BY <2>2, <3>1, <3>2, ApplyOne DEF Consume
  <2>3. ASSUME NEW c \in Commands, WithdrawCancel(c) PROVE OneOpenIncrease'
    <3>1. Event(c, "CANCEL", 0, 0, 0).status = "CANCEL"
      BY DEF Event
    <3> QED
      BY <2>3, <3>1, CancelReducible, ApplyOne DEF WithdrawCancel, Undelivered, Of, Kinds
  <2>4. CASE ConsumeAnswer
    <3>1. order[inflight.cmd].status \in Waiting
      BY <2>4 DEF ConsumeAnswer, TypeInv, InflightOK, Waiting
    <3> QED
      BY <2>4, <3>1, InflightReducible, ApplyOne DEF ConsumeAnswer
  <2>5. CASE DrainQueue
    BY <2>5, HeadReducible, ApplyOne DEF DrainQueue, Decides, Simulating
  <2>6. CASE WithdrawMark
    BY <2>6, WithdrawMarkOK, KeepsOne
  <2>7. CASE MarkSent
    BY <2>7, OutboxOK, KeepsOne DEF MarkSent, TypeInv, InflightOK
  <2>8. ASSUME NEW c \in Commands, NEW d \in Delays, Deliver(c, d) PROVE OneOpenIncrease'
    BY <2>8, OutboxOK, KeepsOne DEF Deliver
  <2>9. CASE Recover
    BY <2>9, RecoverOrders, KeepsOne
  <2>10. CASE Deciding
    <3>1. PICK c \in Commands : \/ SubmitPlan(c) \/ SubmitAdd(c) \/ SubmitClose(c) \/ SubmitReduce(c)
                                \/ \E level \in StopLevels : SubmitMove(c, level)
                                \/ \E late \in BOOLEAN : SubmitCancel(c, late)
      BY <2>10 DEF Deciding
    <3>2. CASE SubmitPlan(c)
      <4>1. \A x \in Commands : order[x].kind = "none"
        BY <3>2 DEF SubmitPlan, TypeInv, OrdersOK
      <4> QED
        BY <3>2, <4>1, InsertOne DEF SubmitPlan, Increases
    <3>3. CASE SubmitAdd(c)
      BY <3>3, InsertOne DEF SubmitAdd, OpenOrder, Of
    <3>4. CASE \/ SubmitClose(c) \/ SubmitReduce(c)
               \/ \E level \in StopLevels : SubmitMove(c, level)
               \/ \E late \in BOOLEAN : SubmitCancel(c, late)
      BY <3>4, InsertOne DEF SubmitClose, SubmitReduce, SubmitMove, SubmitCancel, Increases
    <3> QED
      BY <3>1, <3>2, <3>3, <3>4
  <2>11. CASE (\E b \in Bars : BarCloses(b)) \/ StepBegins \/ WithdrawEnds \/ WithdrawFails
              \/ TrackBegins \/ ConsumeAgain \/ Refused \/ CommitFails \/ AnswerFails \/ StepEnds \/ Crash
              \/ ConfirmStop \/ CommitEnds \/ UNCHANGED vars
    BY <2>1, <2>11 DEF BarCloses, StepBegins, WithdrawEnds, WithdrawFails, TrackBegins, ConsumeAgain,
       Refused, CommitFails, AnswerFails, StepEnds, Crash, ConfirmStop, CommitEnds, journal, vars
  <2>12. CASE Simulation
    BY <2>1, <2>12 DEF Simulation, Opening, Protection, Drain, TakeMove, TakeExit, FillAtOpen,
       LimitExpires, LimitWaits, FillAtLimit, Simulates, journal
  <2> QED
    BY <2>2, <2>3, <2>4, <2>5, <2>6, <2>7, <2>8, <2>9, <2>10, <2>11, <2>12
    DEF Next, Journalling, Delivering
<1> QED
  BY <1>1, <1>2, TypeInvCorrect, PTL DEF Spec

-----------------------------------------------------------------------------
(* Outcomes of a trade are final, its additions end with its first reduction,  *)
(* the broker can fill one increase at most, and what it has accepted waits in *)
(* it.                                                                         *)
(*                                                                             *)
(* The invariant says which side knows what of a command. A command the broker *)
(* may still execute (WaitsIn) is open in the journal; once an event tells of  *)
(* it, it waits no longer, and it stays open until that event is applied. No   *)
(* fill of an increase follows a reduction on its way to the journal, and none *)
(* waits behind one (RoomOK). A command the journal has seen accepted is       *)
(* always in one of these places (AttendedOK), also after a restart, because   *)
(* the orders that are resumed are those without an outcome.                   *)


\* What the broker may still execute when a bar has `rest` to take up.
WaitsIn(b, rest) == {c \in b.sched \cup rest : b.answer[c] = "ACK"}

\* The events on their way to the journal, and the commands they tell of.
Stream == IF batch # <<>> THEN batch ELSE queue
Told(q) == {c \in Commands : \E i \in 1..Len(q) : q[i].cmd = c}
Grows(e) == e.status = "FILL" /\ Kind(e.cmd) \in Increases

\* The trade takes no more increases.
Past ==
  \/ trade.phase \in Finished
  \/ trade.phase = "REDUCING" /\ "batch" \notin cut

\* The broker's memory and the orders of the journal.
WaitsOK(b, rest) ==
  /\ b.sched \cap rest = {}
  /\ \A c \in b.sched : b.answer[c] = "ACK"
  /\ \A c \in rest : b.answer[c] = "ACK" \/ (b.answer[c] = "CANCEL" /\ order[c].kind \in Increases)
  /\ \A c \in WaitsIn(b, rest) : order[c].status \in Waiting
  /\ b.rev = 0 => b.qty = 0
  /\ ~b.known => b.sched \cup rest = {}
SentOK(b) == \A c \in Commands : b.answer[c] # "none" => order[c].outbox \in {"CLAIMED", "SENT"}
MemoryOK(b, rest) == WaitsOK(b, rest) /\ SentOK(b)

\* Events tell of a command once, when it waits no longer; a growth neither
\* follows a reduction nor reaches a trade that takes none.
StreamOK(q, waits, answer) ==
  /\ \A i, j \in 1..Len(q) : q[i].cmd = q[j].cmd /\ q[i].cmd \in Commands => i = j
  /\ \A i \in 1..Len(q) : q[i].cmd \in Commands =>
       /\ q[i].cmd \notin waits /\ answer[q[i].cmd] # "none"
       /\ order[q[i].cmd].kind # "CANCEL"
       /\ ~Applied(q[i]) => order[q[i].cmd].status \in Waiting
  /\ \A i, j \in 1..Len(q) : Reduces(q[i]) /\ i < j => ~Grows(q[j])
  /\ \A i \in 1..Len(q) : q[i].status = "FILL" => q[i].qty > 0
  /\ Past => \A i \in 1..Len(q) : Grows(q[i]) => Applied(q[i])

\* There is room for an increase behind q; and an event may come behind it.
Room(q) == ~Past /\ \A i \in 1..Len(q) : ~Reduces(q[i])
Fits(e, q) == (e.status = "FILL" => e.qty > 0) /\ (Grows(e) => Room(q))

\* An increase waits only while there is room for it, an entry only before
\* anything was done to the trade.
RoomOK(b, q, rest) ==
  \A c \in Of(WaitsIn(b, rest), Increases) :
    Room(q) /\ (order[c].kind = "OPEN" => b.rev = 0)

JournalOK ==
  /\ \A c, d \in Commands : order[c].kind = "OPEN" /\ order[d].kind = "OPEN" => c = d
  /\ \A c, d \in Commands : order[c].kind = "OPEN" /\ order[d].kind = "ADD" => order[c].status \notin Waiting
  /\ \A c \in Commands : order[c].kind = "OPEN" /\ order[c].status \in Waiting => trade.qty = 0
  /\ \A c \in Commands : order[c].kind \in {"ADD", "MOVESTOP"} \cup Exits =>
       trade.phase \notin {"none", "ENTRY_PENDING"}
  /\ \A c \in Commands : IF order[c].kind = "none" THEN order[c].outbox = "none" ELSE order[c].size > 0
  /\ \A c \in Of(Commands, Increases) : order[c].status \in Waiting =>
       order[c].filled = 0 /\ (order[c].reserved \/ trade.phase \in Finished)
  /\ \A c \in Commands : order[c].kind = "CANCEL" => order[c].status # "ACK"
  /\ trade.phase \in {"none", "ENTRY_PENDING"} => trade.rev = 0
  /\ trade.qty > 0 => trade.rev > 0
  /\ trade.phase \in Manageable => trade.qty > 0
  /\ trade.phase \in Finished => trade.qty = 0

\* A stop the journal waits for no more, or whose second transaction is not done.
Confirms(c) == trade.moving # c \/ "stop" \in cut \/ (pc = "confirm" /\ batch[done].cmd = c)

\* What an applied execution has left behind.
AppliedOK ==
  \A x \in applied : x[1] \in Commands =>
    /\ order[x[1]].kind # "none"
    /\ x[2] \in {"FILL", "CANCEL", "REJECT"} => order[x[1]].status \notin Waiting
    /\ x[2] = "ACTIVE" => Confirms(x[1])

\* Where events and due commands can be.
PlaceOK ==
  /\ pc \notin Simulating => due = {}
  /\ pc \in Simulating \cup {"work", "sent", "answer", "down"} => batch = <<>>
  /\ (pc \in {"commit", "confirm", "down"} \/ batch # <<>>) => queue = <<>>
  /\ \A i \in 1..done : Applied(batch[i])

\* The answer in flight is the broker's, and no event tells of its command.
FlightOK ==
  pc \in {"sent", "answer"} =>
    /\ inflight.cmd \notin Told(queue) /\ broker.answer[inflight.cmd] = inflight.status
    /\ inflight.status \in {"ACK", "CANCEL", "REJECT"}
    /\ inflight.status = "ACK" => inflight.cmd \in broker.sched
    /\ order[inflight.cmd].kind = "CANCEL" =>
         inflight.status # "ACK" /\ Of(broker.sched, Increases) = {}
    /\ order[inflight.cmd].kind \in Increases => ~Past

Accepted == {c \in Commands : order[c].status = "ACK" /\ order[c].outbox = "SENT"}

\* What the journal has seen accepted waits in the broker, or an event tells of it.
AttendedOK ==
  pc # "down" /\ trade.phase \in Live =>
    \A c \in Accepted :
      \/ c \in WaitsIn(broker, due) \cup Told(Stream)
      \/ order[c].kind = "MOVESTOP" /\ Confirms(c)

\* An increase that is open after the first reduction is told of in the same
\* batch, and a death now would tear it.
ReducingOK ==
  trade.phase = "REDUCING" /\ "batch" \notin cut =>
    \A c \in Of(Accepted, Increases) :
      c \in Told(batch) /\ \E i \in 1..Len(batch) : batch[i].status = "FILL" /\ Applied(batch[i])

OutcomeInv ==
  /\ JournalOK /\ AppliedOK /\ MemoryOK(broker, due)
  /\ StreamOK(Stream, WaitsIn(broker, due), broker.answer) /\ RoomOK(broker, Stream, due)
  /\ PlaceOK /\ FlightOK /\ AttendedOK /\ ReducingOK

\* What a bar finds and leaves: the broker, its events and what is still due.
BarOK(s, rest) == MemoryOK(s.b, rest) /\ StreamOK(s.q, WaitsIn(s.b, rest), s.b.answer)

\* A stage of a bar turns s with `rest` due into n with `left` due, and whatever
\* waited still waits or is told of.
Follows(s, rest, n, left) ==
  /\ BarOK(n, left) /\ RoomOK(n.b, n.q, left)
  /\ WaitsIn(s.b, rest) \cup Told(s.q) \subseteq WaitsIn(n.b, left) \cup Told(n.q)

-----------------------------------------------------------------------------
(* Streams of events.                                                      *)

\* Fewer commands wait, more are answered: the stream is as good.
LEMMA StreamKept ==
  ASSUME NEW q, NEW waits, NEW answer, StreamOK(q, waits, answer), NEW fewer \in SUBSET waits,
         NEW more, \A c \in Commands : answer[c] # "none" => more[c] # "none"
  PROVE  StreamOK(q, fewer, more)
  BY DEF StreamOK

\* One more event: its command stops waiting, and it grows the trade only when
\* there is room.
LEMMA StreamGrows ==
  ASSUME NEW q, EventsOK(q), NEW e, EventOK(e), NEW waits, NEW answer, StreamOK(q, waits, answer),
         NEW fewer \in SUBSET waits, NEW more,
         \A c \in Commands : answer[c] # "none" => more[c] # "none",
         e.cmd \in Commands => /\ e.cmd \in waits \ fewer /\ more[e.cmd] # "none"
                               /\ order[e.cmd].kind # "CANCEL" /\ order[e.cmd].status \in Waiting,
         Fits(e, q)
  PROVE  /\ StreamOK(Append(q, e), fewer, more)
         /\ Told(q) \subseteq Told(Append(q, e))
         /\ e.cmd \in Commands => e.cmd \in Told(Append(q, e))
<1> DEFINE p == Append(q, e)
           n == Len(q)
<1>1. q \in Seq(EventType) /\ e \in EventType
  BY DEF EventsOK, EventOK
<1>2. n \in Nat /\ Len(p) = n + 1 /\ p[n + 1] = e /\ \A i \in 1..n : p[i] = q[i]
  BY <1>1
<1>3. \A i \in 1..n + 1 : i = n + 1 \/ i \in 1..n
  BY <1>2
<1>4. \A i \in 1..n : i \in 1..n + 1
  BY <1>2
<1>5. n + 1 \in 1..n + 1
  BY <1>2
<1>6. \A i \in 1..n : q[i].cmd \in Commands => q[i].cmd # e.cmd
  BY DEF StreamOK
<1>7. e.status = "FILL" => e.qty > 0
  BY DEF Fits
<1>8. Grows(e) => ~Past /\ \A i \in 1..n : ~Reduces(q[i])
  BY DEF Fits, Room
<1> HIDE DEF p, n
<1>9. \A i, j \in 1..Len(p) : p[i].cmd = p[j].cmd /\ p[i].cmd \in Commands => i = j
  BY <1>2, <1>3, <1>6 DEF StreamOK, n
<1>10. \A i \in 1..Len(p) : p[i].cmd \in Commands =>
        /\ p[i].cmd \notin fewer /\ more[p[i].cmd] # "none"
        /\ order[p[i].cmd].kind # "CANCEL"
        /\ ~Applied(p[i]) => order[p[i].cmd].status \in Waiting
  BY <1>2, <1>3 DEF StreamOK, n
<1>11. \A i, j \in 1..Len(p) : Reduces(p[i]) /\ i < j => ~Grows(p[j])
  <2> SUFFICES ASSUME NEW i \in 1..Len(p), NEW j \in 1..Len(p), Reduces(p[i]), i < j
               PROVE  ~Grows(p[j])
    OBVIOUS
  <2>1. i \in 1..n /\ p[i] = q[i]
    BY <1>2, <1>3
  <2>2. CASE j \in 1..n
    BY <1>2, <2>1, <2>2 DEF StreamOK, n
  <2>3. CASE j = n + 1
    <3>1. Reduces(q[i])
      BY <2>1
    <3> QED
      BY <1>2, <1>8, <2>1, <2>3, <3>1
  <2> QED
    BY <1>2, <1>3, <2>2, <2>3
<1>12. \A i \in 1..Len(p) : p[i].status = "FILL" => p[i].qty > 0
  BY <1>2, <1>3, <1>7 DEF StreamOK, n
<1>13. Past => \A i \in 1..Len(p) : Grows(p[i]) => Applied(p[i])
  <2> SUFFICES ASSUME Past, NEW i \in 1..Len(p), Grows(p[i])
               PROVE  Applied(p[i])
    OBVIOUS
  <2>1. CASE i \in 1..n
    <3>1. p[i] = q[i]
      BY <1>2, <2>1
    <3>2. Grows(q[i])
      BY <3>1
    <3>3. Applied(q[i])
      BY <2>1, <3>2 DEF StreamOK, n
    <3> QED
      BY <3>1, <3>3
  <2>2. CASE i = n + 1
    <3>1. Grows(e)
      BY <1>2, <2>2
    <3> QED
      BY <1>8, <3>1
  <2> QED
    BY <1>2, <1>3, <2>1, <2>2
<1>14. StreamOK(p, fewer, more)
  BY <1>9, <1>10, <1>11, <1>12, <1>13 DEF StreamOK
<1>15. Told(q) \subseteq Told(p) /\ (e.cmd \in Commands => e.cmd \in Told(p))
  BY <1>2, <1>4, <1>5 DEF Told, n
<1> QED
  BY <1>14, <1>15 DEF p

-----------------------------------------------------------------------------
(* One bar in the broker: every operator keeps what waits and what is told. *)

LEMMA AnsweredIs ==
  ASSUME NEW s, SimOK(s), NEW e, EventOK(e), e.cmd \in Commands
  PROVE  LET b == Answered(s, e).b IN
         /\ b \in BrokerType /\ Answered(s, e).q = Append(s.q, e)
         /\ b.sched = s.b.sched /\ b.rev = s.b.rev /\ b.qty = s.b.qty /\ b.known = s.b.known
         /\ b.answer[e.cmd] = IF e.status = "ACTIVE" THEN "ACK" ELSE e.status
         /\ \A x \in Commands : x # e.cmd => b.answer[x] = s.b.answer[x]
<1> DEFINE a == IF e.status = "ACTIVE" THEN "ACK" ELSE e.status
           b == [s.b EXCEPT !.answer[e.cmd] = a]
<1>1. s.b \in BrokerType
  BY FieldsAre
<1>2. Answered(s, e) = [b |-> b, q |-> Append(s.q, e)]
  BY DEF Answered
<1>3. a \in {"ACK", "FILL", "CANCEL", "REJECT"}
  BY DEF EventOK, EventType
<1> HIDE DEF a
<1>4. /\ b \in BrokerType /\ b.sched = s.b.sched /\ b.rev = s.b.rev /\ b.qty = s.b.qty
      /\ b.known = s.b.known /\ b.answer[e.cmd] = a
      /\ \A x \in Commands : x # e.cmd => b.answer[x] = s.b.answer[x]
  BY <1>1, <1>3 DEF BrokerType
<1> HIDE DEF b
<1> QED
  BY <1>2, <1>4 DEF a

LEMMA NoRoomNeeded ==
  ASSUME NEW b, NEW q, NEW rest, Of(WaitsIn(b, rest), Increases) = {}
  PROVE  RoomOK(b, q, rest)
  BY DEF RoomOK

\* A change of the position alone.
LEMMA PositionKeeps ==
  ASSUME NEW s, NEW rest, BarOK(s, rest), NEW b, b.sched = s.b.sched, b.answer = s.b.answer,
         b.known = s.b.known, b.rev = 0 => b.qty = 0
  PROVE  /\ MemoryOK(b, rest) /\ WaitsIn(b, rest) = WaitsIn(s.b, rest)
         /\ StreamOK(s.q, WaitsIn(b, rest), b.answer)
<1>1. WaitsIn(b, rest) = WaitsIn(s.b, rest)
  BY DEF WaitsIn
<1>2. MemoryOK(b, rest)
  BY <1>1 DEF BarOK, MemoryOK, WaitsOK, SentOK
<1> QED
  BY <1>1, <1>2 DEF BarOK

\* A due command that waits is answered: it is told of, and waits no longer.
Tells(s, rest, n, left, c) ==
  /\ BarOK(n, left) /\ WaitsIn(n.b, left) = WaitsIn(s.b, rest) \ {c}
  /\ WaitsIn(s.b, rest) \cup Told(s.q) \subseteq WaitsIn(n.b, left) \cup Told(n.q)

LEMMA TellKeeps ==
  ASSUME NEW s, SimOK(s), NEW rest \in SUBSET Commands, BarOK(s, rest),
         NEW e, EventOK(e), e.cmd \in rest, s.b.answer[e.cmd] = "ACK",
         order[e.cmd].kind # "CANCEL", Fits(e, s.q),
         NEW n, n = Answered(s, e), NEW left, left = rest \ {e.cmd}
  PROVE  Tells(s, rest, n, left, e.cmd)
<1> DEFINE waits == WaitsIn(s.b, rest)
<1>1. e.cmd \in Commands /\ e.cmd \in waits /\ s.b \in BrokerType /\ EventsOK(s.q)
  BY FieldsAre DEF WaitsIn
<1>2. /\ n.q = Append(s.q, e) /\ n.b.sched = s.b.sched /\ n.b.rev = s.b.rev /\ n.b.qty = s.b.qty
      /\ n.b.known = s.b.known /\ n.b.answer[e.cmd] # "none"
      /\ \A x \in Commands : x # e.cmd => n.b.answer[x] = s.b.answer[x]
  BY <1>1, AnsweredIs DEF EventOK, EventType
<1>3. s.b.sched \subseteq Commands /\ e.cmd \notin s.b.sched
  BY <1>1 DEF BarOK, MemoryOK, WaitsOK, SentOK, BrokerType
<1>4. WaitsIn(n.b, left) = waits \ {e.cmd}
  BY <1>2, <1>3 DEF WaitsIn
<1>5. order[e.cmd].status \in Waiting
  BY <1>1 DEF BarOK, MemoryOK, WaitsOK, SentOK
<1>6. \A c \in Commands : s.b.answer[c] # "none" => n.b.answer[c] # "none"
  BY <1>2
<1>7. /\ StreamOK(n.q, WaitsIn(n.b, left), n.b.answer)
      /\ Told(s.q) \subseteq Told(n.q) /\ e.cmd \in Told(n.q)
  <2>1. StreamOK(s.q, waits, s.b.answer)
    BY DEF BarOK
  <2> HIDE DEF waits
  <2> DEFINE fewer == waits \ {e.cmd}
             more == n.b.answer
  <2>2. fewer \in SUBSET waits /\ e.cmd \in waits \ fewer /\ more[e.cmd] # "none"
    BY <1>1, <1>2
  <2>3. \A c \in Commands : s.b.answer[c] # "none" => more[c] # "none"
    BY <1>6
  <2>4. WaitsIn(n.b, left) = fewer
    BY <1>4
  <2> HIDE DEF fewer, more
  <2>5. /\ StreamOK(Append(s.q, e), fewer, more)
        /\ Told(s.q) \subseteq Told(Append(s.q, e))
        /\ e.cmd \in Commands => e.cmd \in Told(Append(s.q, e))
    BY <1>1, <1>5, <2>1, <2>2, <2>3, StreamGrows
  <2> QED
    BY <1>1, <1>2, <2>4, <2>5 DEF more
<1>8. MemoryOK(n.b, left)
  <2>1. n.b.sched \cap left = {} /\ (~n.b.known => n.b.sched \cup left = {}) /\ (n.b.rev = 0 => n.b.qty = 0)
    BY <1>2 DEF BarOK, MemoryOK, WaitsOK, SentOK
  <2>2. \A c \in n.b.sched : n.b.answer[c] = "ACK"
    BY <1>2, <1>3 DEF BarOK, MemoryOK, WaitsOK, SentOK
  <2>3. \A c \in left : n.b.answer[c] = "ACK" \/ (n.b.answer[c] = "CANCEL" /\ order[c].kind \in Increases)
    BY <1>2 DEF BarOK, MemoryOK, WaitsOK, SentOK
  <2>4. \A c \in Commands : n.b.answer[c] # "none" => order[c].outbox \in {"CLAIMED", "SENT"}
    BY <1>2 DEF BarOK, MemoryOK, WaitsOK, SentOK
  <2>5. \A c \in WaitsIn(n.b, left) : order[c].status \in Waiting
    BY <1>4 DEF BarOK, MemoryOK, WaitsOK, SentOK
  <2> QED
    BY <2>1, <2>2, <2>3, <2>4, <2>5 DEF MemoryOK, WaitsOK, SentOK
<1> QED
  BY <1>1, <1>4, <1>7, <1>8 DEF BarOK, Tells

\* The increases are cancelled: none waits any more.
LEMMA CancelKeeps ==
  ASSUME NEW s, SimOK(s), NEW rest \in SUBSET Commands, NEW t \in Nat,
         \A c \in rest : order[c].kind \in Kinds, OneOpenIncrease, BarOK(s, rest)
  PROVE  LET n == Cancelled(s, rest, t) IN
         /\ BarOK(n, rest) /\ Of(WaitsIn(n.b, rest), Increases) = {}
         /\ n.b.rev = s.b.rev /\ n.b.qty = s.b.qty /\ n.b.known = s.b.known
         /\ WaitsIn(n.b, rest) \subseteq WaitsIn(s.b, rest)
         /\ WaitsIn(s.b, rest) \cup Told(s.q) \subseteq WaitsIn(n.b, rest) \cup Told(n.q)
         /\ \A c \in Commands : n.b.answer[c] = s.b.answer[c] \/ c \in WaitsIn(s.b, rest)
<1> DEFINE open == {c \in Of(s.b.sched \cup rest, Increases) : s.b.answer[c] \notin {"FILL", "CANCEL", "REJECT"}}
           x == CHOOSE c \in open : TRUE
           e == Event(x, "CANCEL", 0, t, 0)
           out == IF open = {} THEN s ELSE Answered(s, e)
           kept == out.b.sched \ Of(out.b.sched, Increases)
           n == [out EXCEPT !.b.sched = kept]
           waits == WaitsIn(s.b, rest)
<1>1. s = [b |-> s.b, q |-> s.q] /\ s.b \in BrokerType /\ EventsOK(s.q) /\ s.b.sched \subseteq Commands
  BY FieldsAre DEF BrokerType
<1>2. open = Of(waits, Increases)
  BY DEF BarOK, MemoryOK, WaitsOK, SentOK, WaitsIn, Of
<1>3. waits \subseteq Commands /\ \A c \in waits : order[c].status \in Waiting
  BY <1>1 DEF BarOK, MemoryOK, WaitsOK, SentOK, WaitsIn
<1>4. Cancelled(s, rest, t) = n
  BY DEF Cancelled
<1>5. open # {} => x \in open
  OBVIOUS
<1> HIDE DEF open, x
<1>6. CASE open = {}
  <2>1. out = s
    BY <1>6
  <2>2. kept = s.b.sched
    BY <1>2, <1>6, <2>1 DEF Of, WaitsIn, BarOK, MemoryOK, WaitsOK, SentOK
  <2> HIDE DEF out, kept
  <2>3. n = s
    BY <1>1, <2>1, <2>2 DEF BrokerType
  <2> QED
    BY <1>2, <1>4, <1>6, <2>3
<1>7. CASE open # {}
  <2>1. x \in waits /\ x \in Commands /\ order[x].kind \in Increases
    BY <1>2, <1>3, <1>5, <1>7 DEF Of
  <2>2. \A c \in waits : order[c].kind \in Increases => c = x
    BY <1>3, <2>1 DEF OneOpenIncrease, Of
  <2>3. EventOK(e) /\ e.cmd = x /\ e.status = "CANCEL"
    BY <2>1 DEF EventOK, Event, EventType, Kinds
  <2>4. out = Answered(s, e)
    BY <1>7
  <2> HIDE DEF e, out
  <2>5. /\ out.b \in BrokerType /\ out.q = Append(s.q, e) /\ out.b.sched = s.b.sched
        /\ out.b.rev = s.b.rev /\ out.b.qty = s.b.qty /\ out.b.known = s.b.known
        /\ out.b.answer[x] = "CANCEL"
        /\ \A c \in Commands : c # x => out.b.answer[c] = s.b.answer[c]
    BY <2>1, <2>3, <2>4, AnsweredIs
  <2>6. out = [b |-> out.b, q |-> out.q]
    BY <2>1, <2>3, <2>4, AnsweredOK DEF SimOK
  <2>7. kept = {c \in s.b.sched : order[c].kind \notin Increases}
    BY <2>5 DEF Of
  <2> HIDE DEF kept
  <2>8. n = [b |-> [out.b EXCEPT !.sched = kept], q |-> out.q]
    BY <2>6
  <2>9. /\ n.q = Append(s.q, e) /\ n.b.sched = kept /\ n.b.rev = s.b.rev /\ n.b.qty = s.b.qty
        /\ n.b.known = s.b.known /\ n.b.answer = out.b.answer
    BY <2>5, <2>8 DEF BrokerType
  <2> HIDE DEF n
  <2>10. WaitsIn(n.b, rest) = waits \ {x}
    <3>1. ASSUME NEW c \in WaitsIn(n.b, rest) PROVE c \in waits \ {x}
      BY <1>1, <2>5, <2>7, <2>9 DEF WaitsIn
    <3>2. ASSUME NEW c \in waits \ {x} PROVE c \in WaitsIn(n.b, rest)
      BY <1>3, <2>2, <2>5, <2>7, <2>9 DEF WaitsIn
    <3> QED
      BY <3>1, <3>2
  <2>11. \A c \in Commands : s.b.answer[c] # "none" => n.b.answer[c] # "none"
    BY <2>5, <2>9
  <2>12. /\ StreamOK(n.q, WaitsIn(n.b, rest), n.b.answer)
         /\ Told(s.q) \subseteq Told(n.q) /\ x \in Told(n.q)
    <3>1. StreamOK(s.q, waits, s.b.answer)
      BY DEF BarOK
    <3>2. n.b.answer[x] # "none" /\ order[x].status \in Waiting /\ order[x].kind # "CANCEL"
      BY <1>3, <2>1, <2>5, <2>9 DEF Increases
    <3>3. Fits(e, s.q)
      BY <2>3 DEF Grows, Fits
    <3> DEFINE fewer == waits \ {x}
               more == n.b.answer
    <3>4. fewer \in SUBSET waits /\ e.cmd \in waits \ fewer /\ more[e.cmd] # "none"
          /\ order[e.cmd].kind # "CANCEL" /\ order[e.cmd].status \in Waiting
      BY <2>1, <2>3, <3>2
    <3>5. \A c \in Commands : s.b.answer[c] # "none" => more[c] # "none"
      BY <2>11
    <3>6. WaitsIn(n.b, rest) = fewer
      BY <2>10
    <3> HIDE DEF waits, fewer, more
    <3>7. /\ StreamOK(Append(s.q, e), fewer, more)
          /\ Told(s.q) \subseteq Told(Append(s.q, e))
          /\ e.cmd \in Commands => e.cmd \in Told(Append(s.q, e))
      BY <1>1, <2>3, <3>1, <3>3, <3>4, <3>5, StreamGrows
    <3> QED
      BY <2>1, <2>3, <2>9, <3>6, <3>7 DEF more
  <2>13. MemoryOK(n.b, rest)
    <3>1. kept \cap rest = {} /\ (~n.b.known => kept \cup rest = {}) /\ (n.b.rev = 0 => n.b.qty = 0)
      BY <2>7, <2>9 DEF BarOK, MemoryOK, WaitsOK, SentOK
    <3>2. \A c \in kept : n.b.answer[c] = "ACK"
      BY <1>1, <2>1, <2>5, <2>7, <2>9 DEF BarOK, MemoryOK, WaitsOK, SentOK
    <3>3. \A c \in rest : n.b.answer[c] = "ACK" \/ (n.b.answer[c] = "CANCEL" /\ order[c].kind \in Increases)
      BY <2>1, <2>5, <2>9 DEF BarOK, MemoryOK, WaitsOK, SentOK
    <3>4. \A c \in Commands : n.b.answer[c] # "none" => order[c].outbox \in {"CLAIMED", "SENT"}
      <4>1. s.b.answer[x] = "ACK"
        BY <2>1 DEF WaitsIn
      <4> QED
        BY <2>5, <2>9, <4>1 DEF BarOK, MemoryOK, WaitsOK, SentOK
    <3>5. \A c \in WaitsIn(n.b, rest) : order[c].status \in Waiting
      BY <1>3, <2>10
    <3> QED
      BY <2>9, <3>1, <3>2, <3>3, <3>4, <3>5 DEF MemoryOK, WaitsOK, SentOK
  <2>14. Of(WaitsIn(n.b, rest), Increases) = {}
    BY <2>2, <2>10 DEF Of
  <2>15. \A c \in Commands : n.b.answer[c] = s.b.answer[c] \/ c \in waits
    BY <2>1, <2>5, <2>9
  <2> QED
    BY <1>4, <2>1, <2>9, <2>10, <2>12, <2>13, <2>14, <2>15 DEF BarOK
<1> QED
  BY <1>6, <1>7

\* The broker closes on its own, and cancels the increases.
LEMMA OwnCloseFollows ==
  ASSUME NEW s, SimOK(s), NEW rest \in SUBSET Commands, NEW t \in Nat,
         \A c \in rest : order[c].kind \in Kinds, OneOpenIncrease, BarOK(s, rest),
         NEW own \in {StopHit, TargetHit}, NEW k \in Nat, k > 0,
         NEW b \in BrokerType, b.sched = s.b.sched, b.answer = s.b.answer, b.known = s.b.known,
         b.rev = 0 => b.qty = 0
  PROVE  LET m == [b |-> b, q |-> Append(s.q, Event(own, "FILL", k, t, 0))] IN
         Follows(s, rest, Cancelled(m, rest, t), rest)
<1> DEFINE e == Event(own, "FILL", k, t, 0)
           m == [b |-> b, q |-> Append(s.q, e)]
           n == Cancelled(m, rest, t)
<1>1. EventOK(e) /\ EventsOK(s.q) /\ e.cmd \notin Commands /\ e.cmd = own /\ e.qty > 0
  BY OwnEventOK, OwnIds, FieldsAre DEF Event
<1>2. Fits(e, s.q)
  BY <1>1, OwnIds DEF Fits, Grows, Kind, Increases
<1> HIDE DEF e
<1>3. EventsOK(Append(s.q, e))
  BY <1>1, AppendOK
<1>4. SimOK(m) /\ m.b = b /\ m.q = Append(s.q, e)
  BY <1>3, PositionOK
<1>5. /\ MemoryOK(b, rest) /\ WaitsIn(b, rest) = WaitsIn(s.b, rest)
      /\ StreamOK(s.q, WaitsIn(b, rest), b.answer)
  BY PositionKeeps
<1>6. StreamOK(m.q, WaitsIn(b, rest), b.answer) /\ Told(s.q) \subseteq Told(m.q)
  BY <1>1, <1>2, <1>4, <1>5, StreamGrows
<1>7. BarOK(m, rest)
  BY <1>4, <1>5, <1>6 DEF BarOK
<1> HIDE DEF m
<1>8. /\ BarOK(n, rest) /\ Of(WaitsIn(n.b, rest), Increases) = {}
      /\ WaitsIn(m.b, rest) \cup Told(m.q) \subseteq WaitsIn(n.b, rest) \cup Told(n.q)
  BY <1>4, <1>7, CancelKeeps
<1>9. RoomOK(n.b, n.q, rest)
  BY <1>8, NoRoomNeeded
<1> QED
  BY <1>4, <1>5, <1>6, <1>8, <1>9 DEF Follows, m, e

LEMMA StaysFollows ==
  ASSUME NEW s, NEW rest, BarOK(s, rest), RoomOK(s.b, s.q, rest)
  PROVE  Follows(s, rest, s, rest)
  BY DEF Follows

LEMMA StopOutFollows ==
  ASSUME NEW s, SimOK(s), NEW rest \in SUBSET Commands, NEW t \in Nat, NEW low,
         \A c \in rest : order[c].kind \in Kinds, OneOpenIncrease, BarOK(s, rest), RoomOK(s.b, s.q, rest)
  PROVE  Follows(s, rest, StopOut(s, rest, t, low), rest)
<1> DEFINE b == [s.b EXCEPT !.qty = 0, !.stop = 0, !.rev = @ + 1]
<1>1. s.b.rev \in Nat /\ s.b.qty \in Nat /\ s.b \in BrokerType
  BY FieldsAre
<1>2. b \in BrokerType /\ b.sched = s.b.sched /\ b.answer = s.b.answer /\ b.known = s.b.known /\ b.qty = 0
  BY <1>1, FieldsAre DEF BrokerType
<1> HIDE DEF b
<1>3. CASE ~Triggered(s.b, low)
  BY <1>3, StaysFollows DEF StopOut
<1>4. CASE Triggered(s.b, low)
  <2>1. s.b.qty > 0
    BY <1>4 DEF Triggered
  <2>2. StopOut(s, rest, t, low) =
          Cancelled([b |-> b, q |-> Append(s.q, Event(StopHit, "FILL", s.b.qty, t, 0))], rest, t)
    BY <1>4 DEF StopOut, b
  <2> QED
    BY <1>1, <1>2, <2>1, <2>2, OwnCloseFollows
<1> QED
  BY <1>3, <1>4

LEMMA TakeTargetFollows ==
  ASSUME NEW s, SimOK(s), NEW rest \in SUBSET Commands, NEW t \in Nat, NEW high,
         \A c \in rest : order[c].kind \in Kinds, OneOpenIncrease, BarOK(s, rest), RoomOK(s.b, s.q, rest)
  PROVE  Follows(s, rest, TakeTarget(s, rest, t, high), rest)
<1> DEFINE left == Share(s.b.entered) - s.b.taken
           k == IF left < s.b.qty THEN left ELSE s.b.qty
           b == [s.b EXCEPT !.qty = @ - k, !.taken = @ + k, !.rev = @ + 1,
                            !.stop = IF k = s.b.qty THEN 0 ELSE @]
<1>1. /\ s.b.rev \in Nat /\ s.b.qty \in Nat /\ s.b.taken \in Nat /\ s.b \in BrokerType
      /\ left \in Int /\ s.b.rev + 1 \in Nat /\ s.b.rev + 1 # 0
  BY FieldsAre, SharesAre
<1>2. TakeTarget(s, rest, t, high) =
        IF s.b.qty = 0 \/ high < TargetPrice \/ left <= 0 THEN s
        ELSE Cancelled([b |-> b, q |-> Append(s.q, Event(TargetHit, "FILL", k, t, 0))], rest, t)
  BY DEF TakeTarget
<1>3. CASE s.b.qty = 0 \/ high < TargetPrice \/ left <= 0
  BY <1>2, <1>3, StaysFollows
<1>4. CASE ~(s.b.qty = 0 \/ high < TargetPrice \/ left <= 0)
  <2>1. k \in Nat /\ k > 0 /\ s.b.qty - k \in Nat /\ s.b.taken + k \in Nat
    BY <1>1, <1>4
  <2> HIDE DEF k
  <2>2. b \in BrokerType /\ b.sched = s.b.sched /\ b.answer = s.b.answer /\ b.known = s.b.known
        /\ b.rev = s.b.rev + 1
    BY <1>1, <2>1 DEF BrokerType
  <2> HIDE DEF b, left
  <2>3. b.rev = 0 => b.qty = 0
    BY <1>1, <2>2
  <2> QED
    BY <1>2, <1>4, <2>1, <2>2, <2>3, OwnCloseFollows
<1> QED
  BY <1>3, <1>4

LEMMA FollowsOn ==
  ASSUME NEW s, NEW rest, NEW m, NEW left, NEW n, NEW end,
         Follows(s, rest, m, left), Follows(m, left, n, end)
  PROVE  Follows(s, rest, n, end)
  BY DEF Follows

LEMMA ProtectedFollows ==
  ASSUME NEW s, SimOK(s), NEW rest \in SUBSET Commands, NEW t \in Nat, NEW bar,
         \A c \in rest : order[c].kind \in Kinds, OneOpenIncrease, BarOK(s, rest), RoomOK(s.b, s.q, rest)
  PROVE  Follows(s, rest, Protected(s, rest, t, bar), rest)
<1> DEFINE open == s.b.qty > 0 /\ s.b.opened = t /\ s.b.paid # 0 /\ s.b.paid = bar.open
           b == IF open THEN [s.b EXCEPT !.opened = 0, !.paid = 0] ELSE s.b
           m == [s EXCEPT !.b = b]
           stopped == StopOut(m, rest, t, bar.low)
<1>1. /\ b \in BrokerType /\ b.sched = s.b.sched /\ b.answer = s.b.answer /\ b.known = s.b.known
      /\ b.rev = s.b.rev /\ b.qty = s.b.qty
  BY FieldsAre DEF BrokerType
<1>2. Protected(s, rest, t, bar) = IF b.opened = t THEN stopped ELSE TakeTarget(stopped, rest, t, bar.high)
  BY DEF Protected
<1> HIDE DEF b
<1>3. m = [b |-> b, q |-> s.q]
  BY FieldsAre
<1> HIDE DEF m
<1>4. SimOK(m) /\ m.b = b /\ m.q = s.q
  BY <1>1, <1>3, FieldsAre, PositionOK
<1>5. b.rev = 0 => b.qty = 0
  BY <1>1 DEF BarOK, MemoryOK, WaitsOK, SentOK
<1>6. /\ MemoryOK(b, rest) /\ WaitsIn(b, rest) = WaitsIn(s.b, rest)
      /\ StreamOK(s.q, WaitsIn(b, rest), b.answer)
  BY <1>1, <1>5, PositionKeeps
<1>7. BarOK(m, rest) /\ RoomOK(m.b, m.q, rest)
  BY <1>1, <1>4, <1>6 DEF BarOK, RoomOK
<1>8. Follows(s, rest, m, rest)
  BY <1>4, <1>6, <1>7 DEF Follows
<1>9. Follows(m, rest, stopped, rest) /\ SimOK(stopped)
  BY <1>4, <1>7, StopOutFollows, StopOutOK
<1> HIDE DEF stopped
<1>10. Follows(s, rest, stopped, rest) /\ BarOK(stopped, rest) /\ RoomOK(stopped.b, stopped.q, rest)
  BY <1>8, <1>9, FollowsOn DEF Follows
<1>11. Follows(stopped, rest, TakeTarget(stopped, rest, t, bar.high), rest)
  BY <1>9, <1>10, TakeTargetFollows
<1> QED
  BY <1>2, <1>10, <1>11, FollowsOn


\* A due command is answered with no reduction: what had room has room.
LEMMA TellFollows ==
  ASSUME NEW s, SimOK(s), NEW rest \in SUBSET Commands, BarOK(s, rest), RoomOK(s.b, s.q, rest),
         NEW e, EventOK(e), e.cmd \in rest, s.b.answer[e.cmd] = "ACK",
         order[e.cmd].kind # "CANCEL", e.status # "FILL"
  PROVE  Follows(s, rest, Answered(s, e), rest \ {e.cmd})
<1> DEFINE n == Answered(s, e)
           left == rest \ {e.cmd}
<1>1. Fits(e, s.q) /\ ~Reduces(e) /\ e.cmd \in Commands /\ EventsOK(s.q)
  BY FieldsAre DEF Fits, Grows, Reduces
<1>2. Tells(s, rest, n, left, e.cmd)
  BY <1>1, TellKeeps
<1>3. n.q = Append(s.q, e) /\ n.b.rev = s.b.rev
  BY <1>1, AnsweredIs
<1>4. s.q \in Seq(EventType)
  BY <1>1 DEF EventsOK
<1> HIDE DEF n, left
<1>5. \A i \in 1..Len(n.q) : n.q[i] = e \/ (i \in 1..Len(s.q) /\ n.q[i] = s.q[i])
  BY <1>3, <1>4 DEF EventOK
<1>6. RoomOK(n.b, n.q, left)
  <2> SUFFICES ASSUME NEW c \in Of(WaitsIn(n.b, left), Increases)
               PROVE  Room(n.q) /\ (order[c].kind = "OPEN" => n.b.rev = 0)
    BY DEF RoomOK
  <2>1. c \in Of(WaitsIn(s.b, rest), Increases)
    BY <1>2 DEF Tells, Of
  <2>2. Room(s.q) /\ (order[c].kind = "OPEN" => s.b.rev = 0)
    BY <2>1 DEF RoomOK
  <2>3. \A i \in 1..Len(n.q) : ~Reduces(n.q[i])
    <3> SUFFICES ASSUME NEW i \in 1..Len(n.q) PROVE ~Reduces(n.q[i])
      OBVIOUS
    <3>1. CASE n.q[i] = e
      BY <1>1, <3>1
    <3>2. CASE i \in 1..Len(s.q) /\ n.q[i] = s.q[i]
      BY <2>2, <3>2 DEF Room
    <3> QED
      BY <1>5, <3>1, <3>2
  <2> QED
    BY <1>3, <2>2, <2>3 DEF Room
<1> QED
  BY <1>2, <1>6 DEF Follows, Tells, n, left

\* What is left waiting when an increase is answered is no increase.
LEMMA OtherWaits ==
  ASSUME OneOpenIncrease, NEW s, SimOK(s), NEW rest \in SUBSET Commands, BarOK(s, rest),
         NEW c \in Of(WaitsIn(s.b, rest), Increases)
  PROVE  Of(WaitsIn(s.b, rest) \ {c}, Increases) = {}
<1>1. WaitsIn(s.b, rest) \subseteq Commands
  BY FieldsAre DEF BrokerType, WaitsIn
<1>2. \A d \in WaitsIn(s.b, rest) : order[d].status \in Waiting
  BY DEF BarOK, MemoryOK, WaitsOK, SentOK
<1> QED
  BY <1>1, <1>2 DEF OneOpenIncrease, Of

LEMMA IncreasedFollows ==
  ASSUME NEW s, SimOK(s), NEW rest \in SUBSET Commands, OneOpenIncrease,
         BarOK(s, rest), RoomOK(s.b, s.q, rest),
         NEW c \in rest, s.b.answer[c] = "ACK", order[c].kind \in Increases,
         order[c].size \in Nat, order[c].size > 0,
         NEW t \in Nat, NEW price \in Nat, NEW opened \in Nat
  PROVE  Follows(s, rest, Increased(s, c, t, price, opened), rest \ {c})
<1> DEFINE basis == IF order[c].kind = "OPEN" THEN EntryStop ELSE AddStop
           stop == Larger(s.b.stop, basis)
           b == [s.b EXCEPT !.qty = @ + order[c].size, !.entered = @ + order[c].size,
                            !.stop = stop, !.rev = @ + 1, !.opened = opened]
           m == [b |-> b, q |-> s.q]
           no == Event(c, "REJECT", 0, t, 0)
           e == Event(c, "FILL", order[c].size, t, price)
<1>1. stop \in Nat
  BY FieldsAre, PricesAssumption DEF Larger
<1>2. EventOK(no) /\ EventOK(e) /\ no.cmd = c /\ e.cmd = c /\ no.status = "REJECT" /\ e.qty > 0
  BY DEF EventOK, Event, EventType, Kinds
<1>3. Increased(s, c, t, price, opened) =
        IF order[c].kind = "ADD" /\ s.b.qty = 0 THEN Answered(s, no) ELSE Answered(m, e)
  BY DEF Increased
<1> HIDE DEF stop
<1>4. /\ b \in BrokerType /\ b.sched = s.b.sched /\ b.answer = s.b.answer /\ b.known = s.b.known
      /\ b.rev = s.b.rev + 1
  <2>1. s.b.qty + order[c].size \in Nat /\ s.b.entered + order[c].size \in Nat
    BY FieldsAre
  <2> QED
    BY <1>1, <2>1, FieldsAre DEF BrokerType
<1> HIDE DEF b, no, e
<1>5. SimOK(m) /\ m.b = b /\ m.q = s.q
  BY <1>4, FieldsAre, PositionOK
<1>6. b.rev = 0 => b.qty = 0
  BY <1>4, FieldsAre
<1> HIDE DEF m
<1>7. /\ MemoryOK(b, rest) /\ WaitsIn(b, rest) = WaitsIn(s.b, rest)
      /\ StreamOK(s.q, WaitsIn(b, rest), b.answer)
  BY <1>4, <1>6, PositionKeeps
<1>8. c \in Of(WaitsIn(s.b, rest), Increases) /\ order[c].kind # "CANCEL"
  BY DEF Of, WaitsIn, Increases
<1>9. Fits(e, s.q)
  BY <1>2, <1>8 DEF RoomOK, Fits
<1>10. Follows(s, rest, Answered(s, no), rest \ {c})
  BY <1>2, <1>8, TellFollows
<1>11. Follows(s, rest, Answered(m, e), rest \ {c})
  <2> DEFINE n == Answered(m, e)
             left == rest \ {c}
  <2>1. BarOK(m, rest)
    BY <1>5, <1>7 DEF BarOK
  <2>2. Tells(m, rest, n, left, c)
    BY <1>2, <1>4, <1>5, <1>8, <1>9, <2>1, TellKeeps
  <2> HIDE DEF n, left
  <2>3. Of(WaitsIn(n.b, left), Increases) = {}
    BY <1>5, <1>7, <1>8, <2>2, OtherWaits DEF Tells
  <2>4. RoomOK(n.b, n.q, left)
    BY <2>3, NoRoomNeeded
  <2> QED
    BY <1>5, <1>7, <2>2, <2>4 DEF Follows, Tells, n, left
<1> QED
  BY <1>3, <1>10, <1>11

LEMMA MovedFollows ==
  ASSUME NEW s, SimOK(s), NEW rest \in SUBSET Commands, BarOK(s, rest), RoomOK(s.b, s.q, rest),
         NEW c \in rest, s.b.answer[c] = "ACK", order[c].kind = "MOVESTOP", order[c].level \in Nat,
         NEW t \in Nat
  PROVE  Follows(s, rest, Moved(s, c, t), rest \ {c})
<1> DEFINE b == [s.b EXCEPT !.stop = order[c].level, !.rev = @ + 1]
           m == [b |-> b, q |-> s.q]
           no == Event(c, "REJECT", 0, t, 0)
           e == Event(c, "ACTIVE", 0, t, 0)
<1>1. EventOK(no) /\ EventOK(e) /\ no.cmd = c /\ e.cmd = c /\ no.status = "REJECT" /\ e.status = "ACTIVE"
  BY DEF EventOK, Event, EventType, Kinds
<1>2. Moved(s, c, t) = IF s.b.qty = 0 THEN Answered(s, no) ELSE Answered(m, e)
  BY DEF Moved
<1>3. /\ b \in BrokerType /\ b.sched = s.b.sched /\ b.answer = s.b.answer /\ b.known = s.b.known
      /\ b.rev = s.b.rev + 1
  BY FieldsAre DEF BrokerType
<1> HIDE DEF b, no, e
<1>4. SimOK(m) /\ m.b = b /\ m.q = s.q
  BY <1>3, FieldsAre, PositionOK
<1>5. b.rev = 0 => b.qty = 0
  BY <1>3, FieldsAre
<1> HIDE DEF m
<1>6. /\ MemoryOK(b, rest) /\ WaitsIn(b, rest) = WaitsIn(s.b, rest)
      /\ StreamOK(s.q, WaitsIn(b, rest), b.answer)
  BY <1>3, <1>5, PositionKeeps
<1>7. Follows(s, rest, Answered(s, no), rest \ {c})
  BY <1>1, TellFollows
<1>8. ASSUME s.b.qty # 0 PROVE Follows(s, rest, Answered(m, e), rest \ {c})
  <2>1. s.b.rev # 0
    BY <1>8 DEF BarOK, MemoryOK, WaitsOK, SentOK
  <2>2. BarOK(m, rest) /\ RoomOK(m.b, m.q, rest)
    BY <1>4, <1>6, <2>1 DEF BarOK, RoomOK
  <2>3. Follows(s, rest, m, rest)
    BY <1>4, <1>6, <2>2 DEF Follows
  <2>4. Follows(m, rest, Answered(m, e), rest \ {c})
    BY <1>1, <1>3, <1>4, <2>2, TellFollows
  <2> QED
    BY <2>3, <2>4, FollowsOn
<1> QED
  BY <1>2, <1>7, <1>8

LEMMA ExitedFollows ==
  ASSUME NEW s, SimOK(s), NEW rest \in SUBSET Commands, OneOpenIncrease,
         BarOK(s, rest), RoomOK(s.b, s.q, rest), \A d \in rest : order[d].kind \in Kinds,
         NEW c \in rest, s.b.answer[c] = "ACK", order[c].kind \in Exits,
         order[c].size \in Nat, order[c].size > 0, NEW t \in Nat
  PROVE  Follows(s, rest, Exited(s, c, rest \ {c}, t), rest \ {c})
<1> DEFINE k == IF order[c].kind = "CLOSE" THEN s.b.qty ELSE order[c].size
           b == [s.b EXCEPT !.qty = @ - k, !.rev = @ + 1, !.stop = IF k = s.b.qty THEN 0 ELSE @]
           m == [b |-> b, q |-> s.q]
           no == Event(c, "REJECT", 0, t, 0)
           e == Event(c, "FILL", k, t, 0)
           left == rest \ {c}
<1>1. s.b.qty \in Nat /\ k \in Nat /\ (s.b.qty # 0 => k > 0)
  BY FieldsAre
<1>2. Exited(s, c, left, t) =
        IF s.b.qty = 0 \/ k > s.b.qty THEN Answered(s, no) ELSE Cancelled(Answered(m, e), left, t)
  BY DEF Exited
<1> HIDE DEF k
<1>3. EventOK(no) /\ EventOK(e) /\ no.cmd = c /\ e.cmd = c /\ no.status = "REJECT" /\ e.qty = k
  BY <1>1 DEF EventOK, Event, EventType, Kinds
<1>4. order[c].kind \notin Increases /\ order[c].kind # "CANCEL" /\ c \in Commands /\ left \in SUBSET Commands
  BY DEF Exits, Increases
<1>5. k > 0 => Fits(e, s.q)
  BY <1>3, <1>4, OwnIds DEF Fits, Grows, Kind
<1> HIDE DEF no, e
<1>6. Follows(s, rest, Answered(s, no), left)
  BY <1>3, <1>4, TellFollows
<1>7. ASSUME s.b.qty # 0, ~(k > s.b.qty) PROVE Follows(s, rest, Cancelled(Answered(m, e), left, t), left)
  <2>1. s.b.qty - k \in Nat
    BY <1>1, <1>7
  <2>2. /\ b \in BrokerType /\ b.sched = s.b.sched /\ b.answer = s.b.answer /\ b.known = s.b.known
        /\ b.rev = s.b.rev + 1
    BY <2>1, FieldsAre DEF BrokerType
  <2> HIDE DEF b
  <2>3. SimOK(m) /\ m.b = b /\ m.q = s.q
    BY <2>2, FieldsAre, PositionOK
  <2>4. b.rev = 0 => b.qty = 0
    BY <2>2, FieldsAre
  <2> HIDE DEF m
  <2>5. /\ MemoryOK(b, rest) /\ WaitsIn(b, rest) = WaitsIn(s.b, rest)
        /\ StreamOK(s.q, WaitsIn(b, rest), b.answer)
    BY <2>2, <2>4, PositionKeeps
  <2>6. BarOK(m, rest)
    BY <2>3, <2>5 DEF BarOK
  <2> DEFINE x == Answered(m, e)
             n == Cancelled(x, left, t)
  <2>7. SimOK(x)
    BY <1>3, <1>4, <2>3, AnsweredOK
  <2>8. Tells(m, rest, x, left, c)
    BY <1>1, <1>3, <1>4, <1>5, <1>7, <2>2, <2>3, <2>6, TellKeeps
  <2> HIDE DEF x
  <2>9. /\ BarOK(n, left) /\ Of(WaitsIn(n.b, left), Increases) = {}
        /\ WaitsIn(x.b, left) \cup Told(x.q) \subseteq WaitsIn(n.b, left) \cup Told(n.q)
    BY <1>4, <2>7, <2>8, CancelKeeps DEF Tells
  <2> HIDE DEF n
  <2>10. RoomOK(n.b, n.q, left)
    BY <2>9, NoRoomNeeded
  <2>11. Follows(s, rest, n, left)
    BY <2>3, <2>5, <2>8, <2>9, <2>10 DEF Follows, Tells
  <2> QED
    BY <2>11 DEF n, x
<1> QED
  BY <1>2, <1>6, <1>7

-----------------------------------------------------------------------------
(* Steps that write nothing of the journal.                                *)

\* What of the trade the invariant speaks of.
SameTrade ==
  /\ trade'.phase = trade.phase /\ trade'.qty = trade.qty
  /\ trade'.rev = trade.rev /\ trade'.moving = trade.moving
SameJournal == SameTrade /\ order' = order /\ applied' = applied

\* A failure only lets the trade take increases again.
LEMMA PastKept ==
  ASSUME SameTrade, cut \subseteq cut'
  PROVE  Past' => Past
  BY DEF Past, SameTrade

LEMMA JournalKept ==
  ASSUME OutcomeInv, SameJournal, cut \subseteq cut',
         MemoryOK(broker', due'), StreamOK(Stream', WaitsIn(broker', due'), broker'.answer),
         RoomOK(broker', Stream', due'), \A c \in Commands : Confirms(c) => Confirms(c)'
  PROVE  /\ JournalOK' /\ AppliedOK' /\ MemoryOK(broker, due)'
         /\ StreamOK(Stream, WaitsIn(broker, due), broker.answer)'
         /\ RoomOK(broker, Stream, due)'
<1> USE DEF SameJournal
<1>1. JournalOK'
  BY DEF OutcomeInv, JournalOK, SameTrade, Of
<1>2. AppliedOK'
  BY DEF OutcomeInv, AppliedOK
<1>3. MemoryOK(broker, due)'
  BY DEF MemoryOK, WaitsOK, SentOK, WaitsIn
<1>4. Past' => Past
  BY PastKept
<1>5. \A e : (Applied(e)' <=> Applied(e)) /\ (Reduces(e)' <=> Reduces(e)) /\ (Grows(e)' <=> Grows(e))
  BY DEF Applied, ExecutionId, Reduces, Grows, Kind
<1>6. StreamOK(Stream, WaitsIn(broker, due), broker.answer)'
  <2> DEFINE q == Stream'
             waits == WaitsIn(broker', due')
             answer == broker'.answer
  <2>1. StreamOK(q, waits, answer)
    OBVIOUS
  <2>2. /\ \A i, j \in 1..Len(q) : q[i].cmd = q[j].cmd /\ q[i].cmd \in Commands => i = j
        /\ \A i \in 1..Len(q) : q[i].cmd \in Commands =>
             /\ q[i].cmd \notin waits /\ answer[q[i].cmd] # "none"
             /\ order[q[i].cmd].kind # "CANCEL"
             /\ ~Applied(q[i]) => order[q[i].cmd].status \in Waiting
        /\ \A i, j \in 1..Len(q) : Reduces(q[i]) /\ i < j => ~Grows(q[j])
        /\ \A i \in 1..Len(q) : q[i].status = "FILL" => q[i].qty > 0
        /\ Past => \A i \in 1..Len(q) : Grows(q[i]) => Applied(q[i])
    BY <2>1 DEF StreamOK
  <2> QED
    BY <1>4, <2>2 DEF StreamOK, WaitsIn, Applied, ExecutionId, Reduces, Grows, Kind
<1>7. RoomOK(broker, Stream, due)'
  BY <1>4 DEF RoomOK, Room, Of, WaitsIn, Reduces, Kind
<1> QED
  BY <1>1, <1>2, <1>3, <1>6, <1>7

\* What was accepted is still in a place where it is looked after.
LEMMA AttendedKept ==
  ASSUME OutcomeInv, SameJournal, \A c \in Commands : Confirms(c) => Confirms(c)', pc # "down",
         WaitsIn(broker, due) \cup Told(Stream) \subseteq WaitsIn(broker', due') \cup Told(Stream')
  PROVE  AttendedOK'
  BY DEF OutcomeInv, AttendedOK, Accepted, Told, WaitsIn, SameJournal, SameTrade

LEMMA ReducingKept ==
  ASSUME OutcomeInv, SameJournal, cut \subseteq cut', batch' = batch
  PROVE  ReducingOK'
  BY DEF OutcomeInv, ReducingOK, Accepted, Of, Told, Applied, ExecutionId, Kind, SameJournal, SameTrade

\* Nothing of the broker changes, nor what is on its way from it.
LEMMA QuietKeeps ==
  ASSUME OutcomeInv, SameJournal, cut \subseteq cut', broker' = broker, due' = due, queue' = queue,
         batch' = batch, \A c \in Commands : Confirms(c) => Confirms(c)',
         pc # "down" \/ pc' = "down", PlaceOK', FlightOK'
  PROVE  OutcomeInv'
<1>1. Stream' = Stream /\ WaitsIn(broker', due') = WaitsIn(broker, due)
  BY DEF Stream
<1>2. /\ MemoryOK(broker', due') /\ StreamOK(Stream', WaitsIn(broker', due'), broker'.answer)
      /\ RoomOK(broker', Stream', due')
  BY <1>1 DEF OutcomeInv
<1>3. /\ JournalOK' /\ AppliedOK' /\ MemoryOK(broker, due)'
      /\ StreamOK(Stream, WaitsIn(broker, due), broker.answer)' /\ RoomOK(broker, Stream, due)'
  BY <1>2, JournalKept
<1>4. ReducingOK'
  BY ReducingKept
<1>5. AttendedOK'
  <2>1. CASE pc' = "down"
    BY <2>1 DEF AttendedOK
  <2>2. CASE pc # "down"
    BY <1>1, <2>2, AttendedKept
  <2> QED
    BY <2>1, <2>2
<1> QED
  BY <1>3, <1>4, <1>5 DEF OutcomeInv

\* Only the confirmation of a stop tells one place of the step from another.
LEMMA ConfirmsKept ==
  ASSUME SameJournal, cut \subseteq cut', pc # "confirm"
  PROVE  \A c \in Commands : Confirms(c) => Confirms(c)'
  BY DEF Confirms, SameJournal, SameTrade

LEMMA BarClosesOutcome ==
  ASSUME OutcomeInv, NEW b \in Bars, BarCloses(b)
  PROVE  OutcomeInv'
<1> USE DEF BarCloses, journal, memory
<1>1. SameJournal /\ pc # "confirm"
  BY DEF SameJournal, SameTrade
<1>2. PlaceOK' /\ FlightOK'
  BY DEF OutcomeInv, PlaceOK, FlightOK, Applied, ExecutionId, Kind
<1> QED
  BY <1>1, <1>2, ConfirmsKept, QuietKeeps

LEMMA MovesOnOutcome ==
  ASSUME TypeInv, OutcomeInv, StepBegins \/ WithdrawEnds \/ WithdrawFails \/ StepEnds
  PROVE  OutcomeInv'
<1> USE DEF StepBegins, WithdrawEnds, WithdrawFails, StepEnds, Executes, Decides, Fails, journal, memory
<1>1. SameJournal /\ pc \in {"idle", "withdraw", "work"}
  BY DEF SameJournal, SameTrade
<1>2. FlightOK'
  BY DEF FlightOK
<1>3. /\ pc' \in {"idle", "withdraw", "work", "commit"}
      /\ pc' = "work" => batch = <<>>
      /\ pc' = "commit" => batch # <<>>
  OBVIOUS
<1>4. PlaceOK'
  BY <1>1, <1>3 DEF OutcomeInv, PlaceOK, Applied, ExecutionId, Kind, Simulating
<1> QED
  BY <1>1, <1>2, <1>4, ConfirmsKept, QuietKeeps

LEMMA CommitOutcome ==
  ASSUME TypeInv, OutcomeInv, ConsumeAgain \/ Refused \/ CommitFails
  PROVE  OutcomeInv'
<1> USE DEF ConsumeAgain, Refused, CommitFails, HasNext, Fails, journal
<1>1. SameJournal /\ pc \in {"commit", "confirm"} /\ cut \subseteq cut'
  BY DEF SameJournal, SameTrade
<1>2. \A c \in Commands : Confirms(c) => Confirms(c)'
  BY <1>1, ConfirmsKept DEF Confirms, Gap, SameJournal, SameTrade
<1>3. FlightOK'
  BY DEF FlightOK
<1>4. done' = 0 \/ (done' = done + 1 /\ Applied(batch[done + 1]))
  BY DEF Upcoming
<1>5. done \in Nat
  BY DEF TypeInv, BatchOK
<1>6. \A i \in 1..done' : Applied(batch[i])
  BY <1>4, <1>5 DEF OutcomeInv, PlaceOK
<1>7. PlaceOK'
  <2>1. \A i \in 1..done' : Applied(batch[i])'
    BY <1>1, <1>6 DEF Applied, ExecutionId, Kind, SameJournal
  <2> QED
    BY <1>1, <2>1 DEF OutcomeInv, PlaceOK, Simulating
<1> QED
  BY <1>1, <1>2, <1>3, <1>7, QuietKeeps

LEMMA AnswerFailsOutcome ==
  ASSUME TypeInv, OutcomeInv, AnswerFails
  PROVE  OutcomeInv'
<1> USE DEF AnswerFails, Fails, journal
<1>1. SameJournal /\ pc # "confirm" /\ cut \subseteq cut'
  BY DEF SameJournal, SameTrade
<1>2. FlightOK'
  BY DEF FlightOK
<1>3. PlaceOK'
  BY DEF OutcomeInv, PlaceOK, Applied, ExecutionId, Kind, Simulating
<1> QED
  BY <1>1, <1>2, <1>3, ConfirmsKept, QuietKeeps

-----------------------------------------------------------------------------
(* The stages of a bar.                                                    *)

LEMMA BarStarts ==
  ASSUME TypeInv, OutcomeInv, pc \in Simulating
  PROVE  /\ batch = <<>> /\ Stream = queue /\ BarOK(Sim, due) /\ RoomOK(Sim.b, Sim.q, due)
         /\ due \in SUBSET Commands
         /\ \A c \in Commands : order[c].kind # "none" => order[c].size > 0 /\ order[c].size \in Nat
  BY SimulationStarts DEF OutcomeInv, PlaceOK, Stream, BarOK, TypeInv, JournalOK, OrderType

\* A stage that is followed by s with `left` due keeps the invariant.
LEMMA StageKeeps ==
  ASSUME TypeInv, OutcomeInv, Simulates, pc' \in Simulating, NEW s, NEW left, due' = left,
         broker' = s.b, queue' = s.q, Follows(Sim, due, s, left)
  PROVE  OutcomeInv'
<1> USE DEF Simulates, journal
<1>1. SameJournal /\ pc # "confirm" /\ batch' = batch /\ cut' = cut /\ pc # "down"
  BY DEF SameJournal, SameTrade, Simulating
<1>2. batch = <<>> /\ Stream = queue /\ Stream' = s.q
  BY <1>1, BarStarts DEF Stream
<1>3. /\ MemoryOK(broker', due') /\ StreamOK(Stream', WaitsIn(broker', due'), broker'.answer)
      /\ RoomOK(broker', Stream', due')
  BY <1>2 DEF Follows, BarOK
<1>4. WaitsIn(broker, due) \cup Told(Stream) \subseteq WaitsIn(broker', due') \cup Told(Stream')
  BY <1>2, SimulationStarts DEF Follows
<1>5. /\ JournalOK' /\ AppliedOK' /\ MemoryOK(broker, due)'
      /\ StreamOK(Stream, WaitsIn(broker, due), broker.answer)' /\ RoomOK(broker, Stream, due)'
  BY <1>1, <1>3, ConfirmsKept, JournalKept
<1>6. AttendedOK' /\ ReducingOK'
  BY <1>1, <1>4, ConfirmsKept, AttendedKept, ReducingKept
<1>7. PlaceOK' /\ FlightOK'
  BY <1>1, <1>2 DEF OutcomeInv, PlaceOK, FlightOK, Simulating, TypeInv, BatchOK
<1> QED
  BY <1>5, <1>6, <1>7 DEF OutcomeInv

LEMMA TakeMoveOutcome ==
  ASSUME TypeInv, OutcomeInv, NEW c \in Commands, TakeMove(c)
  PROVE  OutcomeInv'
<1> USE DEF TakeMove
<1>1. pc \in Simulating /\ pc' \in Simulating /\ c \in due /\ order[c].kind = "MOVESTOP"
  BY DEF Simulates, Simulating, First, Of
<1>2. order[c].level \in Nat /\ cursor + 1 \in Nat /\ SimOK(Sim) /\ Sim.b = broker
  BY <1>1, SimulationStarts DEF OrderType
<1>3. broker.answer[c] = "ACK"
  BY <1>1 DEF OutcomeInv, MemoryOK, WaitsOK, SentOK, Increases
<1>4. Follows(Sim, due, Moved(Sim, c, cursor + 1), due \ {c})
  BY <1>1, <1>2, <1>3, BarStarts, MovedFollows
<1> QED
  BY <1>1, <1>4, StageKeeps DEF Becomes

LEMMA OpeningOutcome ==
  ASSUME TypeInv, OutcomeInv, OneOpenIncrease, Opening
  PROVE  OutcomeInv'
<1> USE DEF Opening
<1>1. pc \in Simulating /\ pc' \in Simulating
  BY DEF Simulates, Simulating
<1>2. Follows(Sim, due, StopOut(Sim, due, cursor + 1, bars[cursor + 1].open), due)
  BY <1>1, SimulationStarts, BarStarts, StopOutFollows
<1> QED
  BY <1>1, <1>2, StageKeeps DEF Becomes

LEMMA TakeExitOutcome ==
  ASSUME TypeInv, OutcomeInv, OneOpenIncrease, NEW c \in Commands, TakeExit(c)
  PROVE  OutcomeInv'
<1> USE DEF TakeExit
<1>1. pc \in Simulating /\ pc' \in Simulating /\ c \in due /\ order[c].kind \in Exits
  BY DEF Simulates, Simulating, First, Of
<1>2. order[c].size \in Nat /\ order[c].size > 0
  BY <1>1, BarStarts DEF Exits
<1>3. broker.answer[c] = "ACK" /\ Sim.b = broker /\ SimOK(Sim)
  BY <1>1, SimulationStarts DEF OutcomeInv, MemoryOK, WaitsOK, SentOK, Increases, Exits
<1>4. Follows(Sim, due, Exited(Sim, c, due \ {c}, cursor + 1), due \ {c})
  BY <1>1, <1>2, <1>3, SimulationStarts, BarStarts, ExitedFollows
<1> QED
  BY <1>1, <1>4, StageKeeps DEF Becomes

\* An increase a bar takes up, and that was not cancelled, waits.
LEMMA DueWaits ==
  ASSUME TypeInv, OutcomeInv, pc \in Simulating, NEW c \in due, broker.answer[c] # "CANCEL",
         order[c].kind \in Increases
  PROVE  /\ Sim.b.answer[c] = "ACK" /\ order[c].size \in Nat /\ order[c].size > 0
         /\ order[c].kind # "CANCEL"
  BY SimulationStarts, BarStarts DEF OutcomeInv, MemoryOK, WaitsOK, SentOK, Increases

LEMMA FillAtOpenOutcome ==
  ASSUME TypeInv, OutcomeInv, OneOpenIncrease, NEW c \in Commands, FillAtOpen(c)
  PROVE  OutcomeInv'
<1> USE DEF FillAtOpen
<1>1. pc = "opens" /\ pc \in Simulating /\ pc' \in Simulating /\ c \in due /\ Of(due, Exits) = {}
  BY DEF Simulates, Simulating
<1>2. order[c].kind \in Increases
  BY <1>1, OnlyIncreases
<1>3. bars[cursor + 1].open \in Nat /\ 0 \in Nat /\ cursor + 1 \in Nat
  BY <1>1, SimulationStarts
<1>4. Sim.b.answer[c] = "ACK" /\ order[c].size \in Nat /\ order[c].size > 0
  BY <1>1, <1>2, DueWaits
<1>5. Follows(Sim, due, Increased(Sim, c, cursor + 1, bars[cursor + 1].open, 0), due \ {c})
  BY <1>1, <1>2, <1>3, <1>4, SimulationStarts, BarStarts, IncreasedFollows
<1> QED
  BY <1>1, <1>5, StageKeeps DEF Becomes

LEMMA ProtectionOutcome ==
  ASSUME TypeInv, OutcomeInv, OneOpenIncrease, Protection
  PROVE  OutcomeInv'
<1> USE DEF Protection
<1>1. pc \in Simulating /\ pc' \in Simulating
  BY DEF Simulates, Simulating
<1>2. Follows(Sim, due, Protected(Sim, due, cursor + 1, bars[cursor + 1]), due)
  BY <1>1, SimulationStarts, BarStarts, ProtectedFollows
<1> QED
  BY <1>1, <1>2, StageKeeps DEF Becomes

LEMMA LimitExpiresOutcome ==
  ASSUME TypeInv, OutcomeInv, NEW c \in Commands, LimitExpires(c)
  PROVE  OutcomeInv'
<1> USE DEF LimitExpires
<1> DEFINE e == Event(c, "CANCEL", 0, cursor + 1, 0)
<1>1. pc = "limits" /\ pc \in Simulating /\ pc' \in Simulating /\ c \in due
  BY DEF Simulates, Simulating
<1>2. order[c].kind \in Increases
  BY <1>1 DEF TypeInv, StepOK
<1>3. EventOK(e) /\ e.cmd = c /\ e.status = "CANCEL"
  BY <1>1, SimulationStarts DEF EventOK, Event, EventType
<1>4. Sim.b.answer[c] = "ACK" /\ order[c].kind # "CANCEL"
  BY <1>1, <1>2, DueWaits
<1> HIDE DEF e
<1>5. Follows(Sim, due, Answered(Sim, e), due \ {c})
  BY <1>1, <1>3, <1>4, SimulationStarts, BarStarts, TellFollows
<1> QED
  BY <1>1, <1>5, StageKeeps DEF Becomes, e

\* A limit order the bar does not come down to goes back to the schedule.
LEMMA LimitWaitsOutcome ==
  ASSUME TypeInv, OutcomeInv, NEW c \in Commands, LimitWaits(c)
  PROVE  OutcomeInv'
<1> USE DEF LimitWaits
<1> DEFINE b == [broker EXCEPT !.sched = @ \cup {c}]
           left == due \ {c}
           s == [b |-> b, q |-> queue]
<1>1. pc = "limits" /\ pc \in Simulating /\ pc' \in Simulating /\ c \in due
  BY DEF Simulates, Simulating
<1>2. order[c].kind \in Increases
  BY <1>1 DEF TypeInv, StepOK
<1>3. broker.answer[c] = "ACK" /\ Sim.b = broker /\ Sim.q = queue
  BY <1>1, <1>2, DueWaits, SimulationStarts
<1>4. /\ b.sched = broker.sched \cup {c} /\ b.answer = broker.answer /\ b.known = broker.known
      /\ b.rev = broker.rev /\ b.qty = broker.qty
  BY DEF TypeInv, BrokerOK, BrokerType
<1> HIDE DEF b
<1>5. WaitsIn(b, left) = WaitsIn(broker, due)
  BY <1>1, <1>4 DEF WaitsIn
<1>6. BarOK(Sim, due) /\ RoomOK(broker, queue, due)
  BY <1>1, <1>3, BarStarts
<1>7. broker.known
  BY <1>1, <1>3 DEF OutcomeInv, MemoryOK, WaitsOK, SentOK
<1>8. MemoryOK(b, left)
  BY <1>1, <1>3, <1>4, <1>5, <1>6, <1>7 DEF BarOK, MemoryOK, WaitsOK, SentOK
<1>9. Follows(Sim, due, s, left)
  BY <1>3, <1>4, <1>5, <1>6, <1>8 DEF Follows, BarOK, RoomOK
<1>10. broker' = s.b /\ queue' = s.q /\ due' = left
  BY DEF b
<1> HIDE DEF s, left
<1> QED
  BY <1>1, <1>9, <1>10, StageKeeps

LEMMA FillAtLimitOutcome ==
  ASSUME TypeInv, OutcomeInv, OneOpenIncrease, NEW c \in Commands, FillAtLimit(c)
  PROVE  OutcomeInv'
<1> USE DEF FillAtLimit
<1> DEFINE t == cursor + 1
           filled == Increased(Sim, c, t, Limit(c), t)
           left == due \ {c}
           next == IF filled.b.answer[c] = "REJECT" THEN filled ELSE StopOut(filled, left, t, bars[t].low)
<1>1. pc = "limits" /\ pc \in Simulating /\ pc' \in Simulating /\ c \in due
  BY DEF Simulates, Simulating
<1>2. \A x \in due : order[x].kind \in Increases
  BY <1>1 DEF TypeInv, StepOK
<1>3. Limit(c) \in Nat /\ t \in Nat
  BY <1>1, SimulationStarts, PricesAssumption DEF Limit
<1>4. Becomes(next) /\ due' = left /\ Simulates
  OBVIOUS
<1> HIDE DEF t
<1>5. Sim.b.answer[c] = "ACK" /\ order[c].size \in Nat /\ order[c].size > 0 /\ order[c].kind \in Increases
  BY <1>1, <1>2, DueWaits
<1>6. Follows(Sim, due, filled, left) /\ SimOK(filled)
  BY <1>1, <1>3, <1>5, SimulationStarts, BarStarts, IncreasedFollows, IncreasedOK
<1>7. \A x \in left : order[x].kind \in Kinds
  BY <1>2 DEF Kinds
<1>8. left \in SUBSET Commands
  BY <1>1, BarStarts
<1> HIDE DEF filled, left
<1>9. Follows(filled, left, StopOut(filled, left, t, bars[t].low), left)
  BY <1>3, <1>6, <1>7, <1>8, StopOutFollows DEF Follows
<1>10. Follows(Sim, due, next, left)
  BY <1>6, <1>9, FollowsOn
<1> HIDE DEF next
<1> QED
  BY <1>1, <1>4, <1>10, StageKeeps DEF Becomes

-----------------------------------------------------------------------------
(* A bar begins and ends; death.                                           *)

LEMMA TrackBeginsOutcome ==
  ASSUME TypeInv, OutcomeInv, TrackBegins
  PROVE  OutcomeInv'
<1> DEFINE taken == {c \in broker.sched : broker.since[c] <= cursor + 1}
           b == [broker EXCEPT !.sched = @ \ taken]
<1> USE DEF TrackBegins, journal
<1>1. SameJournal /\ pc = "work" /\ pc' = "moves" /\ broker' = b /\ due' = taken
  BY DEF SameJournal, SameTrade
<1>2. batch = <<>> /\ due = {} /\ Stream = queue /\ Stream' = queue
  BY <1>1 DEF OutcomeInv, PlaceOK, Simulating, Stream
<1>3. taken \subseteq broker.sched
  OBVIOUS
<1> HIDE DEF taken
<1>4. /\ b.sched = broker.sched \ taken /\ b.answer = broker.answer /\ b.known = broker.known
      /\ b.rev = broker.rev /\ b.qty = broker.qty
  BY DEF TypeInv, BrokerOK, BrokerType
<1> HIDE DEF b
<1>5. WaitsIn(b, taken) = WaitsIn(broker, due)
  BY <1>2, <1>3, <1>4 DEF WaitsIn
<1>6. MemoryOK(b, taken)
  BY <1>2, <1>3, <1>4, <1>5 DEF OutcomeInv, MemoryOK, WaitsOK, SentOK
<1>7. StreamOK(Stream', WaitsIn(broker', due'), broker'.answer) /\ RoomOK(broker', Stream', due')
  BY <1>1, <1>2, <1>4, <1>5 DEF OutcomeInv, RoomOK
<1>8. /\ JournalOK' /\ AppliedOK' /\ MemoryOK(broker, due)'
      /\ StreamOK(Stream, WaitsIn(broker, due), broker.answer)' /\ RoomOK(broker, Stream, due)'
  BY <1>1, <1>6, <1>7, ConfirmsKept, JournalKept
<1>9. AttendedOK' /\ ReducingOK'
  BY <1>1, <1>2, <1>5, ConfirmsKept, AttendedKept, ReducingKept
<1>10. PlaceOK' /\ FlightOK'
  BY <1>1, <1>2 DEF OutcomeInv, PlaceOK, FlightOK, Simulating, TypeInv, BatchOK
<1> QED
  BY <1>8, <1>9, <1>10 DEF OutcomeInv

\* The events of the bar become the batch of the journal.
LEMMA DrainOutcome ==
  ASSUME TypeInv, OutcomeInv, Drain
  PROVE  OutcomeInv'
<1> USE DEF Drain, journal
<1>1. SameJournal /\ pc = "limits" /\ pc' = "commit" /\ broker' = broker /\ due' = {} /\ cut' = cut
  BY DEF SameJournal, SameTrade
<1>2. batch = <<>> /\ Stream = queue /\ Stream' = queue
  BY <1>1 DEF OutcomeInv, PlaceOK, Simulating, Stream
<1>3. WaitsIn(broker, {}) = WaitsIn(broker, due)
  BY DEF WaitsIn
<1>4. MemoryOK(broker, {})
  BY <1>3 DEF OutcomeInv, MemoryOK, WaitsOK, SentOK
<1>5. StreamOK(Stream', WaitsIn(broker', due'), broker'.answer) /\ RoomOK(broker', Stream', due')
  BY <1>1, <1>2, <1>3 DEF OutcomeInv, RoomOK
<1>6. /\ JournalOK' /\ AppliedOK' /\ MemoryOK(broker, due)'
      /\ StreamOK(Stream, WaitsIn(broker, due), broker.answer)' /\ RoomOK(broker, Stream, due)'
  BY <1>1, <1>4, <1>5, ConfirmsKept, JournalKept
<1>7. AttendedOK'
  BY <1>1, <1>2, <1>3, ConfirmsKept, AttendedKept
<1>8. ReducingOK'
  <2>1. Told(batch) = {}
    BY <1>2 DEF Told
  <2> QED
    BY <1>1, <2>1 DEF OutcomeInv, ReducingOK, Accepted, Of, SameJournal, SameTrade
<1>9. FlightOK'
  BY <1>1 DEF FlightOK
<1>10. PlaceOK'
  <2>1. queue' = <<>> /\ \A i \in 1..done' : FALSE
    OBVIOUS
  <2> QED
    BY <1>1, <2>1 DEF PlaceOK, Simulating
<1> QED
  BY <1>6, <1>7, <1>8, <1>9, <1>10 DEF OutcomeInv

\* What an applied event tells of is accepted no more, unless it is a stop.
LEMMA AppliedSettles ==
  ASSUME TypeInv, OutcomeInv, NEW i \in 1..Len(batch), Applied(batch[i]), batch[i].cmd \in Accepted
  PROVE  order[batch[i].cmd].kind = "MOVESTOP" /\ Confirms(batch[i].cmd)
<1> DEFINE e == batch[i]
           x == ExecutionId(e)
<1>1. EventOK(e)
  BY DEF TypeInv, BatchOK, EventsOK
<1>2. x \in applied /\ x[1] = e.cmd /\ x[2] = e.status /\ e.cmd \in Commands /\ order[e.cmd].status = "ACK"
  BY DEF Applied, ExecutionId, Accepted
<1> HIDE DEF x
<1>3. e.status \notin {"FILL", "CANCEL", "REJECT"}
  BY <1>2 DEF OutcomeInv, AppliedOK, Waiting
<1>4. e.status = "ACTIVE"
  BY <1>1, <1>3 DEF EventOK, EventType
<1>5. Confirms(e.cmd)
  BY <1>2, <1>4 DEF OutcomeInv, AppliedOK
<1> QED
  BY <1>1, <1>4, <1>5 DEF EventOK

LEMMA CommitEndsOutcome ==
  ASSUME TypeInv, OutcomeInv, CommitEnds
  PROVE  OutcomeInv'
<1> USE DEF CommitEnds
<1>1. SameJournal /\ pc = "commit" /\ pc' = "work" /\ broker' = broker /\ due' = due /\ cut' = cut
      /\ queue' = queue /\ batch' = <<>> /\ done = Len(batch) /\ done' = 0
  BY DEF SameJournal, SameTrade, TypeInv, TradeType
<1>2. queue = <<>> /\ Stream' = <<>> /\ due = {}
  BY <1>1 DEF OutcomeInv, PlaceOK, Simulating, Stream
<1>3. Told(<<>>) = {} /\ (Stream # batch => Told(Stream) = {})
  BY <1>2 DEF Told, Stream
<1>4. \A i \in 1..Len(batch) : Applied(batch[i])
  BY <1>1 DEF OutcomeInv, PlaceOK
<1>5. MemoryOK(broker', due') /\ RoomOK(broker', Stream', due')
  BY <1>1, <1>2 DEF OutcomeInv, RoomOK, Room
<1>6. StreamOK(Stream', WaitsIn(broker', due'), broker'.answer)
  BY <1>2 DEF StreamOK
<1>7. /\ JournalOK' /\ AppliedOK' /\ MemoryOK(broker, due)'
      /\ StreamOK(Stream, WaitsIn(broker, due), broker.answer)' /\ RoomOK(broker, Stream, due)'
  BY <1>1, <1>5, <1>6, ConfirmsKept, JournalKept
<1>8. \A c \in Accepted \cap Told(batch) : order[c].kind = "MOVESTOP" /\ Confirms(c)
  <2> SUFFICES ASSUME NEW c \in Accepted, NEW i \in 1..Len(batch), batch[i].cmd = c
               PROVE  order[c].kind = "MOVESTOP" /\ Confirms(c)
    BY DEF Told
  <2> QED
    BY <1>4, AppliedSettles
<1>9. AttendedOK'
  <2>1. \A c \in Commands : Confirms(c) => Confirms(c)'
    BY <1>1, ConfirmsKept
  <2>2. Accepted' = Accepted /\ Accepted \subseteq Commands
    BY <1>1 DEF Accepted, SameJournal
  <2>3. WaitsIn(broker, due)' = WaitsIn(broker, due)
    BY <1>1 DEF WaitsIn
  <2> SUFFICES ASSUME trade.phase \in Live, NEW c \in Accepted
               PROVE  \/ c \in WaitsIn(broker, due)
                      \/ order[c].kind = "MOVESTOP" /\ Confirms(c)'
    BY <1>1, <2>2, <2>3 DEF AttendedOK, SameJournal, SameTrade
  <2>4. \/ c \in WaitsIn(broker, due) \cup Told(Stream)
        \/ order[c].kind = "MOVESTOP" /\ Confirms(c)
    BY <1>1 DEF OutcomeInv, AttendedOK
  <2> QED
    BY <1>3, <1>8, <2>1, <2>2, <2>4
<1>10. ReducingOK'
  <2> SUFFICES ASSUME trade.phase = "REDUCING", "batch" \notin cut, NEW c \in Of(Accepted, Increases)
               PROVE  FALSE
    BY <1>1 DEF ReducingOK, SameJournal, SameTrade, Accepted, Of
  <2>1. c \in Told(batch) /\ c \in Accepted /\ order[c].kind \in Increases
    BY DEF OutcomeInv, ReducingOK, Of
  <2> QED
    BY <1>8, <2>1 DEF Increases
<1>11. FlightOK'
  BY <1>1 DEF FlightOK
<1>12. PlaceOK'
  <2>1. \A i \in 1..done' : FALSE
    BY <1>1
  <2> QED
    BY <1>1, <1>2, <2>1 DEF PlaceOK
<1> QED
  BY <1>7, <1>9, <1>10, <1>11, <1>12 DEF OutcomeInv

LEMMA CrashOutcome ==
  ASSUME TypeInv, OutcomeInv, Crash
  PROVE  OutcomeInv'
<1> USE DEF Crash, journal, Fails
<1>1. SameJournal /\ cut \subseteq cut' /\ pc' = "down" /\ broker' = NoBroker /\ due' = {}
      /\ queue' = <<>> /\ batch' = <<>> /\ done' = 0
  BY DEF SameJournal, SameTrade
<1>2. \A c \in Commands : Confirms(c) => Confirms(c)'
  BY <1>1 DEF Confirms, Lost, Gap, SameJournal, SameTrade
<1>3. WaitsIn(broker', due') = {} /\ Stream' = <<>>
  BY <1>1 DEF WaitsIn, NoBroker, Stream
<1>4. MemoryOK(broker', due')
  <2>1. /\ NoBroker.sched = {} /\ NoBroker.qty = 0
        /\ \A c \in Commands : NoBroker.answer[c] = "none"
    BY DEF NoBroker
  <2> QED
    BY <1>1, <1>3, <2>1 DEF MemoryOK, WaitsOK, SentOK
<1>5. StreamOK(Stream', WaitsIn(broker', due'), broker'.answer) /\ RoomOK(broker', Stream', due')
  BY <1>3 DEF StreamOK, RoomOK, Of
<1>6. /\ JournalOK' /\ AppliedOK' /\ MemoryOK(broker, due)'
      /\ StreamOK(Stream, WaitsIn(broker, due), broker.answer)' /\ RoomOK(broker, Stream, due)'
  BY <1>1, <1>2, <1>4, <1>5, JournalKept
<1>7. ReducingOK'
  <2> SUFFICES ASSUME trade.phase = "REDUCING", "batch" \notin cut', NEW c \in Of(Accepted, Increases)
               PROVE  FALSE
    BY <1>1 DEF ReducingOK, SameJournal, SameTrade, Accepted, Of
  <2>1. c \in Told(batch) /\ c \in Accepted /\ order[c].kind \in Increases
        /\ \E i \in 1..Len(batch) : batch[i].status = "FILL" /\ Applied(batch[i])
    BY <1>1 DEF OutcomeInv, ReducingOK, Of
  <2>2. PICK j \in 1..Len(batch) : batch[j].cmd = c
    BY <2>1 DEF Told
  <2>3. ~Applied(batch[j])
    BY <2>1, <2>2, AppliedSettles DEF Increases
  <2>4. Torn
    BY <2>1, <2>3 DEF Torn
  <2> QED
    BY <2>4 DEF Lost
<1>8. AttendedOK' /\ FlightOK'
  BY <1>1 DEF AttendedOK, FlightOK
<1>9. PlaceOK'
  <2>1. \A i \in 1..done' : FALSE
    BY <1>1
  <2> QED
    BY <1>1, <2>1 DEF PlaceOK
<1> QED
  BY <1>6, <1>7, <1>8, <1>9 DEF OutcomeInv

LEMMA InitOutcome ==
  ASSUME Init
  PROVE  OutcomeInv
<1> USE DEF Init
<1>1. /\ trade.phase = "none" /\ trade.qty = 0 /\ trade.rev = 0
      /\ \A c \in Commands : order[c].kind = "none" /\ order[c].status = "none" /\ order[c].outbox = "none"
      /\ broker.sched = {} /\ broker.qty = 0 /\ broker.rev = 0
      /\ \A c \in Commands : broker.answer[c] = "none"
  BY DEF NoTrade, NoOrder, NoBroker
<1>2. WaitsIn(broker, due) = {} /\ Stream = <<>> /\ Accepted = {}
  BY <1>1 DEF WaitsIn, Stream, Accepted
<1>3. JournalOK
  BY <1>1 DEF JournalOK, Increases, Exits, Finished, Manageable, Of
<1>4. AppliedOK /\ PlaceOK /\ FlightOK
  BY DEF AppliedOK, PlaceOK, FlightOK
<1>5. MemoryOK(broker, due)
  BY <1>1, <1>2 DEF MemoryOK, WaitsOK, SentOK
<1>6. StreamOK(Stream, WaitsIn(broker, due), broker.answer) /\ RoomOK(broker, Stream, due)
  BY <1>2 DEF StreamOK, RoomOK, Of
<1>7. AttendedOK /\ ReducingOK
  BY <1>2 DEF AttendedOK, ReducingOK, Of
<1> QED
  BY <1>3, <1>4, <1>5, <1>6, <1>7 DEF OutcomeInv

-----------------------------------------------------------------------------
(* Steps that change an order and apply nothing.                           *)

\* An order keeps its state, whatever becomes of its delivery.
OrdersKept ==
  \A c \in Commands : order[c].kind # "none" =>
    /\ order'[c].kind = order[c].kind /\ order'[c].status = order[c].status
    /\ order'[c].size = order[c].size /\ order'[c].filled = order[c].filled

LEMMA OrdersMove ==
  ASSUME TypeInv, OutcomeInv, OrdersKept, applied' = applied, Past' => Past, EventsOK(Stream'),
         SentOK(broker)', WaitsOK(broker', due'), RoomOK(broker', Stream', due'),
         StreamOK(Stream', WaitsIn(broker', due'), broker'.answer),
         broker' \in BrokerType, due' \subseteq Commands,
         \A c \in Commands : order[c].kind # "none" /\ Confirms(c) => Confirms(c)'
  PROVE  /\ AppliedOK' /\ MemoryOK(broker, due)'
         /\ StreamOK(Stream, WaitsIn(broker, due), broker.answer)'
         /\ RoomOK(broker, Stream, due)'
<1> USE DEF OrdersKept
<1>1. AppliedOK'
  BY DEF OutcomeInv, AppliedOK
<1>2. WaitsIn(broker', due') \subseteq Commands
  BY DEF BrokerType, WaitsIn
<1>3. \A c \in WaitsIn(broker', due') : order[c].status \in Waiting /\ order[c].kind # "none"
  BY <1>2 DEF WaitsOK, TypeInv, OrdersOK, Waiting
<1>4. MemoryOK(broker, due)'
  <2>1. \A c \in due' : order[c].kind \in Increases => order'[c].kind \in Increases
    BY DEF Increases
  <2> QED
    BY <1>2, <1>3, <2>1 DEF MemoryOK, WaitsOK, SentOK, WaitsIn
<1> DEFINE q == Stream'
           waits == WaitsIn(broker', due')
           answer == broker'.answer
<1>5. \A i \in 1..Len(q) :
        /\ q[i].cmd \in Commands \cup {StopHit, TargetHit}
        /\ q[i].cmd \in Commands => /\ order'[q[i].cmd].kind = order[q[i].cmd].kind
                                    /\ order'[q[i].cmd].status = order[q[i].cmd].status
  BY DEF EventsOK, EventOK, EventType, Kinds, Increases, Exits
<1>6. StreamOK(Stream, WaitsIn(broker, due), broker.answer)'
  <2>1. /\ \A i, j \in 1..Len(q) : q[i].cmd = q[j].cmd /\ q[i].cmd \in Commands => i = j
        /\ \A i \in 1..Len(q) : q[i].cmd \in Commands =>
             /\ q[i].cmd \notin waits /\ answer[q[i].cmd] # "none"
             /\ order[q[i].cmd].kind # "CANCEL"
             /\ ~Applied(q[i]) => order[q[i].cmd].status \in Waiting
        /\ \A i, j \in 1..Len(q) : Reduces(q[i]) /\ i < j => ~Grows(q[j])
        /\ \A i \in 1..Len(q) : q[i].status = "FILL" => q[i].qty > 0
        /\ Past => \A i \in 1..Len(q) : Grows(q[i]) => Applied(q[i])
    BY DEF StreamOK
  <2> QED
    BY <1>5, <2>1 DEF StreamOK, WaitsIn, Applied, ExecutionId, Reduces, Grows, Kind
<1>7. RoomOK(broker, Stream, due)'
  <2>1. \A c \in Of(waits, Increases) : /\ ~Past /\ \A i \in 1..Len(q) : ~Reduces(q[i])
                                        /\ order[c].kind = "OPEN" => broker'.rev = 0
    BY DEF RoomOK, Room
  <2>2. \A i \in 1..Len(q) : Reduces(q[i]) <=> Reduces(Stream[i])'
    BY <1>5 DEF Reduces, Kind
  <2> QED
    BY <1>2, <1>3, <2>1, <2>2 DEF RoomOK, Room, Of, WaitsIn
<1> QED
  BY <1>1, <1>4, <1>6, <1>7

LEMMA RowsKept ==
  ASSUME OutcomeInv, OrdersKept, SameTrade,
         \A c \in Commands : /\ order[c].kind = "none" => order'[c].kind = "none" /\ order'[c].outbox = "none"
                             /\ order[c].reserved => order'[c].reserved \/ trade.phase \in Finished
  PROVE  JournalOK'
<1>1. \A c \in Commands : order'[c].kind # "none" => /\ order[c].kind # "none" /\ order'[c].kind = order[c].kind
                                                     /\ order'[c].status = order[c].status
                                                     /\ order'[c].size = order[c].size
                                                     /\ order'[c].filled = order[c].filled
  BY DEF OrdersKept
<1>2. \A c \in Commands : IF order'[c].kind = "none" THEN order'[c].outbox = "none" ELSE order'[c].size > 0
  BY <1>1 DEF OutcomeInv, JournalOK, OrdersKept
<1>3. \A c \in Of(Commands, Increases)' : order'[c].status \in Waiting =>
        order'[c].filled = 0 /\ (order'[c].reserved \/ trade'.phase \in Finished)
  BY <1>1 DEF OutcomeInv, JournalOK, SameTrade, Of, Increases
<1>4. \A c \in Commands : order'[c].kind \in {"ADD", "MOVESTOP"} \cup Exits =>
        trade'.phase \notin {"none", "ENTRY_PENDING"}
  BY <1>1 DEF OutcomeInv, JournalOK, SameTrade, Exits
<1> QED
  BY <1>1, <1>2, <1>3, <1>4 DEF OutcomeInv, JournalOK, SameTrade

LEMMA AttendedMove ==
  ASSUME TypeInv, OutcomeInv, OrdersKept, pc # "down", trade'.phase \in Live => trade.phase \in Live,
         Accepted' \subseteq Accepted,
         \A c \in Commands : order[c].kind # "none" /\ Confirms(c) => Confirms(c)',
         WaitsIn(broker, due) \cup Told(Stream) \subseteq WaitsIn(broker', due') \cup Told(Stream')
  PROVE  AttendedOK'
<1>1. \A c \in Accepted : c \in Commands /\ order[c].kind # "none"
  BY DEF Accepted, TypeInv, OrdersOK
<1> QED
  BY <1>1 DEF OutcomeInv, AttendedOK, OrdersKept, Told, WaitsIn

LEMMA ReducingMove ==
  ASSUME TypeInv, OutcomeInv, OrdersKept, applied' = applied, batch' = batch, cut \subseteq cut',
         trade'.phase = "REDUCING" => trade.phase = "REDUCING", Accepted' \subseteq Accepted
  PROVE  ReducingOK'
<1>1. \A c \in Accepted : c \in Commands /\ order[c].kind # "none"
  BY DEF Accepted, TypeInv, OrdersOK
<1>2. \A i \in 1..Len(batch) : Applied(batch[i]) => Applied(batch[i])'
  <2>1. \A i \in 1..Len(batch) : batch[i].cmd \in Commands \cup {StopHit, TargetHit}
                                 /\ (batch[i].cmd \in Commands => order[batch[i].cmd].kind # "none")
    BY DEF TypeInv, BatchOK, EventsOK, EventOK, EventType, Kinds, Increases, Exits
  <2> QED
    BY <2>1 DEF Applied, ExecutionId, Kind, OrdersKept
<1> QED
  BY <1>1, <1>2 DEF OutcomeInv, ReducingOK, OrdersKept, Told, Of

\* The events on their way are those of the memory.
LEMMA StreamEvents ==
  ASSUME TypeInv
  PROVE  EventsOK(Stream) /\ broker \in BrokerType /\ due \subseteq Commands
  BY DEF TypeInv, QueueOK, BatchOK, Stream, BrokerOK

\* The delivery of orders is marked and nothing else changes.
LEMMA MarkKeeps ==
  ASSUME TypeInv, OutcomeInv, SameTrade, applied' = applied, cut' = cut, broker' = broker, due' = due,
         queue' = queue, batch' = batch, pc \notin {"down", "confirm"}, PlaceOK', FlightOK',
         \A c \in Commands :
           /\ order'[c].kind = order[c].kind /\ order'[c].status = order[c].status
           /\ order'[c].size = order[c].size /\ order'[c].filled = order[c].filled
           /\ order'[c].reserved = order[c].reserved
           /\ order[c].outbox \in {"CLAIMED", "SENT"} => order'[c].outbox \in {"CLAIMED", "SENT"}
           /\ order[c].kind = "none" => order'[c].outbox = "none",
         Accepted' \subseteq Accepted
  PROVE  OutcomeInv'
<1>1. OrdersKept /\ (Past' => Past)
  BY PastKept DEF OrdersKept
<1>2. Stream' = Stream /\ EventsOK(Stream') /\ broker' \in BrokerType /\ due' \subseteq Commands
  BY StreamEvents DEF Stream
<1>3. \A c \in Commands : Confirms(c) => Confirms(c)'
  BY DEF Confirms, SameTrade
<1>4. SentOK(broker)'
  BY DEF OutcomeInv, MemoryOK, SentOK
<1>5. /\ WaitsOK(broker', due') /\ RoomOK(broker', Stream', due')
      /\ StreamOK(Stream', WaitsIn(broker', due'), broker'.answer)
  BY <1>2 DEF OutcomeInv, MemoryOK
<1>6. /\ AppliedOK' /\ MemoryOK(broker, due)'
      /\ StreamOK(Stream, WaitsIn(broker, due), broker.answer)' /\ RoomOK(broker, Stream, due)'
  BY <1>1, <1>2, <1>3, <1>4, <1>5, OrdersMove
<1>7. JournalOK'
  BY <1>1, RowsKept
<1>8. AttendedOK' /\ ReducingOK'
  BY <1>1, <1>2, <1>3, AttendedMove, ReducingMove DEF SameTrade
<1> QED
  BY <1>6, <1>7, <1>8 DEF OutcomeInv

Marks(c, mark) == order' = [order EXCEPT ![c].outbox = mark]

LEMMA MarkIs ==
  ASSUME TypeInv, NEW c \in Commands, NEW mark, Marks(c, mark)
  PROVE  \A x \in Commands :
           /\ order'[x].kind = order[x].kind /\ order'[x].status = order[x].status
           /\ order'[x].size = order[x].size /\ order'[x].filled = order[x].filled
           /\ order'[x].reserved = order[x].reserved
           /\ order'[x].outbox = IF x = c THEN mark ELSE order[x].outbox
<1> DEFINE o == [order[c] EXCEPT !.outbox = mark]
<1>1. order \in [Commands -> OrderType]
  BY DEF TypeInv, OrdersOK
<1>2. o.outbox = mark /\ o.kind = order[c].kind /\ o.status = order[c].status
      /\ o.filled = order[c].filled /\ o.size = order[c].size /\ o.reserved = order[c].reserved
  BY <1>1 DEF OrderType
<1>3. order' = [order EXCEPT ![c] = o]
  BY DEF Marks
<1> HIDE DEF o
<1> QED
  BY <1>1, <1>2, <1>3

LEMMA MarkSentOutcome ==
  ASSUME TypeInv, OutcomeInv, MarkSent
  PROVE  OutcomeInv'
<1> USE DEF MarkSent, memory
<1> DEFINE c == inflight.cmd
<1>1. c \in Commands /\ order[c].status = "PENDING" /\ order[c].kind \in Kinds
  BY DEF TypeInv, InflightOK
<1>2. Marks(c, "SENT")
  BY DEF Marks
<1> HIDE DEF c
<1>3. \A x \in Commands :
        /\ order'[x].kind = order[x].kind /\ order'[x].status = order[x].status
        /\ order'[x].size = order[x].size /\ order'[x].filled = order[x].filled
        /\ order'[x].reserved = order[x].reserved
        /\ order'[x].outbox = IF x = c THEN "SENT" ELSE order[x].outbox
  BY <1>1, <1>2, MarkIs
<1>4. Accepted' \subseteq Accepted
  BY <1>1, <1>3 DEF Accepted
<1>5. FlightOK'
  <2>1. inflight.cmd = c /\ (Past' => Past) /\ Told(queue)' = Told(queue)
    BY DEF c, Past, Told
  <2>2. Of(broker.sched, Increases) = {} => Of(broker.sched, Increases)' = {}
    BY <1>3 DEF Of, TypeInv, BrokerOK, BrokerType
  <2> QED
    BY <1>1, <1>3, <2>1, <2>2 DEF OutcomeInv, FlightOK
<1>6. PlaceOK'
  <2>1. batch = <<>>
    BY DEF OutcomeInv, PlaceOK
  <2>2. \A i \in 1..done' : FALSE
    BY <2>1 DEF TypeInv, BatchOK
  <2> QED
    BY <2>1, <2>2 DEF OutcomeInv, PlaceOK, Simulating
<1>7. SameTrade
  BY DEF SameTrade
<1>8. \A x \in Commands : order[x].kind = "none" => order'[x].outbox = "none"
  BY <1>1, <1>3 DEF OutcomeInv, JournalOK, Kinds, Increases, Exits
<1> QED
  BY <1>3, <1>4, <1>5, <1>6, <1>7, <1>8, MarkKeeps

LEMMA WithdrawMarkOutcome ==
  ASSUME TypeInv, OutcomeInv, WithdrawMark
  PROVE  OutcomeInv'
<1> USE DEF WithdrawMark, memory
<1>1. \A x \in Commands :
        /\ order'[x].kind = order[x].kind /\ order'[x].status = order[x].status
        /\ order'[x].size = order[x].size /\ order'[x].filled = order[x].filled
        /\ order'[x].reserved = order[x].reserved
        /\ order'[x].outbox = IF x \in Undelivered THEN "UNDELIVERED" ELSE order[x].outbox
  <2> DEFINE f == [c \in Commands |->
                     IF c \in Undelivered THEN [order[c] EXCEPT !.outbox = "UNDELIVERED"] ELSE order[c]]
  <2>1. \A x \in Commands :
          /\ f[x].kind = order[x].kind /\ f[x].status = order[x].status
          /\ f[x].size = order[x].size /\ f[x].filled = order[x].filled
          /\ f[x].reserved = order[x].reserved
          /\ f[x].outbox = IF x \in Undelivered THEN "UNDELIVERED" ELSE order[x].outbox
    BY DEF TypeInv, OrdersOK, OrderType
  <2>2. order' = f
    OBVIOUS
  <2> HIDE DEF f
  <2> QED
    BY <2>1, <2>2
<1>2. \A x \in Undelivered : order[x].outbox \notin {"CLAIMED", "SENT"} /\ order[x].kind # "none"
  BY DEF Undelivered, Of, Increases
<1>3. Accepted' \subseteq Accepted
  BY <1>1 DEF Accepted
<1>4. FlightOK'
  BY DEF FlightOK
<1>5. \A x \in Commands : order[x].kind = "none" => order'[x].outbox = "none"
  BY <1>1, <1>2 DEF OutcomeInv, JournalOK
<1>6. SameTrade
  BY DEF SameTrade
<1>7. PlaceOK'
  <2>1. \A i \in 1..Len(batch) : Applied(batch[i]) => Applied(batch[i])'
    <3>1. \A i \in 1..Len(batch) : batch[i].cmd \in Commands \cup {StopHit, TargetHit}
      BY DEF TypeInv, BatchOK, EventsOK, EventOK, EventType
    <3> QED
      BY <1>1, <3>1 DEF Applied, ExecutionId, Kind
  <2>2. \A i \in 1..done : i \in 1..Len(batch)
    BY DEF TypeInv, BatchOK
  <2> QED
    BY <2>1, <2>2 DEF OutcomeInv, PlaceOK
<1> QED
  BY <1>1, <1>2, <1>3, <1>4, <1>5, <1>6, <1>7, MarkKeeps

-----------------------------------------------------------------------------
(* The restart: what was accepted without an outcome is resumed.           *)

LEMMA RestoredIs ==
  ASSUME TypeInv
  PROVE  /\ Restored \in BrokerType
         /\ trade.phase \notin Live =>
              /\ Restored.sched = {} /\ Restored.qty = 0
              /\ \A c \in Commands : Restored.answer[c] = "none"
         /\ trade.phase \in Live =>
              /\ Restored.known /\ Restored.sched = Resumed
              /\ Restored.qty = trade.qty
              /\ trade.qty > 0 => Restored.rev = trade.rev
              /\ trade.qty = 0 => Restored.rev = 0
              /\ \A c \in Commands : Restored.answer[c] \in {"ACK", "none"}
              /\ \A c \in Commands : Restored.answer[c] = "ACK" <=> c \in Resumed
<1> DEFINE since == [c \in Commands |-> IF c \in Resumed THEN order[c].since ELSE 0]
           answer == [c \in Commands |-> IF c \in Resumed THEN "ACK" ELSE "none"]
           idle == [NoBroker EXCEPT !.known = TRUE, !.sched = Resumed, !.since = since, !.answer = answer]
           held == [idle EXCEPT !.rev = trade.rev, !.qty = trade.qty, !.entered = trade.entered,
                         !.taken = trade.taken, !.stop = trade.stop,
                         !.opened = trade.increased, !.paid = trade.paid]
<1>1. Restored \in BrokerType
  BY RestoredOK DEF BrokerOK
<1>2. trade.qty \in Nat
  BY DEF TypeInv, TradeType
<1>3. Restored = CASE trade.phase \notin Live -> NoBroker
                   [] trade.phase \in Live /\ trade.qty = 0 -> idle
                   [] trade.phase \in Live /\ trade.qty > 0 -> held
  BY DEF Restored
<1>4. \A c \in Commands : answer[c] = IF c \in Resumed THEN "ACK" ELSE "none"
  OBVIOUS
<1> HIDE DEF since, answer
<1>5. idle.known /\ idle.sched = Resumed /\ idle.qty = 0 /\ idle.rev = 0 /\ idle.answer = answer
  BY DEF NoBroker
<1>6. held.known /\ held.sched = Resumed /\ held.qty = trade.qty /\ held.rev = trade.rev /\ held.answer = answer
  BY DEF NoBroker
<1> HIDE DEF idle, held
<1>7. CASE trade.phase \notin Live
  BY <1>1, <1>3, <1>7 DEF NoBroker
<1>8. CASE trade.phase \in Live
  <2>1. Restored.answer = answer
    BY <1>2, <1>3, <1>5, <1>6, <1>8
  <2> QED
    BY <1>1, <1>2, <1>3, <1>4, <1>5, <1>6, <1>8, <2>1
<1> QED
  BY <1>7, <1>8

\* Nothing of a live trade waits for the journal in vain after a restart.
LEMMA ResumedAre ==
  ASSUME TypeInv, OutcomeInv, pc = "down", trade.phase \in Live
  PROVE  /\ Resumed \subseteq Accepted
         /\ \A c \in Accepted \ Resumed : order[c].kind = "MOVESTOP" /\ Confirms(c)
         /\ \A c \in Of(Resumed, Increases) : ~Past /\ (order[c].kind = "OPEN" => trade.qty = 0)
<1>1. Resumed \subseteq Accepted
  BY DEF Resumed, Accepted
<1>2. ASSUME NEW c \in Accepted, c \notin Resumed
      PROVE  order[c].kind = "MOVESTOP" /\ Confirms(c)
  <2>1. c \in Commands /\ order[c].status = "ACK" /\ order[c].outbox = "SENT" /\ order[c].status \in Waiting
    BY DEF Accepted, Waiting
  <2>2. order[c].kind \in Kinds /\ order[c].kind # "CANCEL"
    BY <2>1 DEF TypeInv, OrdersOK, OrderType, OutcomeInv, JournalOK
  <2>3. CASE order[c].kind \in Increases
    <3>1. order[c].filled = 0 /\ order[c].size > 0
      BY <2>1, <2>3 DEF OutcomeInv, JournalOK, Of, Increases
    <3>2. order[c].kind \notin Exits /\ order[c].kind # "MOVESTOP" /\ order[c].filled < order[c].size
      BY <2>1, <2>3, <3>1 DEF Exits, Increases, TypeInv, OrdersOK, OrderType
    <3> QED
      BY <1>2, <2>1, <2>3, <3>2 DEF Resumed
  <2>4. CASE order[c].kind \in Exits \cup {"MOVESTOP"}
    <3>1. trade.qty > 0
      BY <2>1, <2>4 DEF OutcomeInv, JournalOK, Live
    <3>2. order[c].kind \notin Increases
      BY <2>4 DEF Increases, Exits
    <3>3. order[c].kind \notin Exits /\ trade.moving # c
      BY <1>2, <2>1, <2>4, <3>1, <3>2 DEF Resumed, Exits
    <3> QED
      BY <2>4, <3>3 DEF Confirms
  <2> QED
    BY <2>2, <2>3, <2>4 DEF Kinds
<1>3. ASSUME NEW c \in Of(Resumed, Increases)
      PROVE  ~Past /\ (order[c].kind = "OPEN" => trade.qty = 0)
  <2>1. c \in Of(Accepted, Increases) /\ c \in Commands /\ order[c].status \in Waiting
    BY <1>1 DEF Of, Accepted, Waiting
  <2>2. Told(batch) = {}
    BY DEF OutcomeInv, PlaceOK, Told
  <2>3. ~Past
    BY <2>1, <2>2 DEF OutcomeInv, ReducingOK, Past, Live, Finished, Manageable
  <2> QED
    BY <2>1, <2>3 DEF OutcomeInv, JournalOK
<1> QED
  BY <1>1, <1>2, <1>3

LEMMA RecoveredOrders ==
  ASSUME TypeInv, Recover
  PROVE  \A c \in Commands :
           /\ order'[c].kind = order[c].kind /\ order'[c].status = order[c].status
           /\ order'[c].size = order[c].size /\ order'[c].filled = order[c].filled
           /\ order[c].reserved => order'[c].reserved \/ trade.phase \in Finished
           /\ order[c].outbox # "CLAIMED" => order'[c].outbox = order[c].outbox
           /\ order[c].outbox = "CLAIMED" => order'[c].outbox = "PENDING"
<1> DEFINE f == [c \in Commands |->
                   [order[c] EXCEPT !.outbox = IF @ = "CLAIMED" THEN "PENDING" ELSE @,
                                    !.reserved = @ /\ trade.phase \notin Finished]]
<1>1. ASSUME NEW c \in Commands
      PROVE  /\ f[c].kind = order[c].kind /\ f[c].status = order[c].status
             /\ f[c].size = order[c].size /\ f[c].filled = order[c].filled
             /\ order[c].reserved => f[c].reserved \/ trade.phase \in Finished
             /\ order[c].outbox # "CLAIMED" => f[c].outbox = order[c].outbox
             /\ order[c].outbox = "CLAIMED" => f[c].outbox = "PENDING"
  <2> DEFINE outbox == IF order[c].outbox = "CLAIMED" THEN "PENDING" ELSE order[c].outbox
             reserved == order[c].reserved /\ trade.phase \notin Finished
             o == [order[c] EXCEPT !.outbox = outbox, !.reserved = reserved]
  <2>1. order[c] \in OrderType
    BY DEF TypeInv, OrdersOK
  <2>2. f[c] = o
    OBVIOUS
  <2>3. order[c].reserved => reserved \/ trade.phase \in Finished
    OBVIOUS
  <2> HIDE DEF reserved
  <2>4. o.kind = order[c].kind /\ o.status = order[c].status /\ o.size = order[c].size
        /\ o.filled = order[c].filled /\ o.reserved = reserved /\ o.outbox = outbox
    BY <2>1 DEF OrderType
  <2> HIDE DEF f, o
  <2> QED
    BY <2>2, <2>3, <2>4
<1>2. order' = f
  BY DEF Recover
<1> HIDE DEF f
<1> QED
  BY <1>1, <1>2

LEMMA RecoverOutcome ==
  ASSUME TypeInv, OutcomeInv, Recover
  PROVE  OutcomeInv'
<1>0. pc = "down"
  BY DEF Recover
<1>1. /\ due' = {} /\ batch' = <<>> /\ batch = <<>> /\ queue' = <<>> /\ pc' = "idle" /\ broker' = Restored
      /\ cut' = cut /\ applied' = applied /\ SameTrade /\ Stream' = <<>> /\ done' = done
  BY DEF Recover, OutcomeInv, PlaceOK, Simulating, Stream, SameTrade
<1>2. \A c \in Commands :
        /\ order'[c].kind = order[c].kind /\ order'[c].status = order[c].status
        /\ order'[c].size = order[c].size /\ order'[c].filled = order[c].filled
        /\ order[c].reserved => order'[c].reserved \/ trade.phase \in Finished
        /\ order[c].outbox # "CLAIMED" => order'[c].outbox = order[c].outbox
        /\ order[c].outbox = "CLAIMED" => order'[c].outbox = "PENDING"
  BY RecoveredOrders
<1>3. OrdersKept /\ Accepted' = Accepted
  BY <1>2 DEF OrdersKept, Accepted
<1>4. \A c \in Commands : Confirms(c) => Confirms(c)'
  BY <1>0, <1>1 DEF Confirms, SameTrade
<1>5. JournalOK'
  <2>1. \A c \in Commands : order[c].kind = "none" => order[c].outbox = "none"
    BY DEF OutcomeInv, JournalOK
  <2>2. \A c \in Commands : order[c].kind = "none" => order'[c].kind = "none" /\ order'[c].outbox = "none"
    BY <1>2, <2>1
  <2> QED
    BY <1>1, <1>2, <1>3, <2>2, RowsKept
<1>6. Past' => Past
  BY <1>1, PastKept
<1>7. Restored \in BrokerType
  BY RestoredIs
<1> DEFINE Ready == SentOK(broker)' /\ WaitsOK(Restored, {}) /\ RoomOK(Restored, <<>>, {}) /\ AttendedOK'
<1>8. ASSUME trade.phase \notin Live PROVE Ready
  <2>1. Restored.sched = {} /\ Restored.qty = 0 /\ \A c \in Commands : Restored.answer[c] = "none"
    BY <1>8, RestoredIs
  <2>2. SentOK(broker)'
    BY <1>1, <2>1 DEF SentOK
  <2>3. WaitsOK(Restored, {})
    BY <2>1 DEF WaitsOK, WaitsIn
  <2>4. RoomOK(Restored, <<>>, {})
    BY <2>1 DEF RoomOK, WaitsIn, Of
  <2>5. AttendedOK'
    BY <1>1, <1>8 DEF AttendedOK, SameTrade
  <2> QED
    BY <2>2, <2>3, <2>4, <2>5
<1>9. ASSUME trade.phase \in Live PROVE Ready
  <2>1. /\ Restored.known /\ Restored.sched = Resumed /\ Restored.qty = trade.qty
        /\ trade.qty > 0 => Restored.rev = trade.rev
        /\ trade.qty = 0 => Restored.rev = 0
        /\ \A c \in Commands : Restored.answer[c] \in {"ACK", "none"}
        /\ \A c \in Commands : Restored.answer[c] = "ACK" <=> c \in Resumed
    BY <1>9, RestoredIs
  <2>2. \A c \in Resumed : /\ c \in Commands /\ order[c].status = "ACK" /\ order[c].outbox = "SENT"
                           /\ order[c].status \in Waiting
    BY DEF Resumed, Waiting
  <2>3. /\ Resumed \subseteq Accepted
        /\ \A c \in Accepted \ Resumed : order[c].kind = "MOVESTOP" /\ Confirms(c)
        /\ \A c \in Of(Resumed, Increases) : ~Past /\ (order[c].kind = "OPEN" => trade.qty = 0)
    BY <1>0, <1>9, ResumedAre
  <2>4. WaitsIn(Restored, {}) = Resumed
    BY <2>1, <2>2 DEF WaitsIn
  <2>5. SentOK(broker)'
    BY <1>1, <1>2, <2>1, <2>2 DEF SentOK
  <2>6. Restored.rev = 0 => Restored.qty = 0
    BY <2>1 DEF OutcomeInv, JournalOK, TypeInv, TradeType
  <2>7. WaitsOK(Restored, {})
    BY <2>1, <2>2, <2>4, <2>6 DEF WaitsOK
  <2>8. \A i \in 1..Len(<<>>) : FALSE
    OBVIOUS
  <2>9. RoomOK(Restored, <<>>, {})
    BY <2>1, <2>3, <2>4, <2>8 DEF RoomOK, Room
  <2>10. AttendedOK'
    <3> SUFFICES ASSUME NEW c \in Accepted
                 PROVE  \/ c \in WaitsIn(broker, due)'
                        \/ order'[c].kind = "MOVESTOP" /\ Confirms(c)'
      BY <1>3 DEF AttendedOK
    <3>1. c \in Resumed => c \in WaitsIn(broker, due)'
      BY <1>1, <2>1, <2>2 DEF WaitsIn
    <3> QED
      BY <1>2, <1>4, <2>3, <3>1 DEF Accepted
  <2> QED
    BY <2>5, <2>7, <2>9, <2>10
<1>10. Ready
  BY <1>8, <1>9
<1>11. StreamOK(<<>>, WaitsIn(Restored, {}), Restored.answer) /\ EventsOK(<<>>)
  <2>1. (\A i \in 1..Len(<<>>) : FALSE) /\ <<>> \in Seq(EventType)
    OBVIOUS
  <2> QED
    BY <2>1 DEF StreamOK, EventsOK
<1>12. /\ AppliedOK' /\ MemoryOK(broker, due)'
       /\ StreamOK(Stream, WaitsIn(broker, due), broker.answer)' /\ RoomOK(broker, Stream, due)'
  <2>1. /\ EventsOK(Stream') /\ WaitsOK(broker', due') /\ RoomOK(broker', Stream', due')
        /\ StreamOK(Stream', WaitsIn(broker', due'), broker'.answer)
        /\ broker' \in BrokerType /\ due' \subseteq Commands
    BY <1>1, <1>7, <1>10, <1>11
  <2> QED
    BY <1>1, <1>3, <1>4, <1>6, <1>10, <2>1, OrdersMove
<1>13. ReducingOK'
  BY <1>1, <1>3, ReducingMove DEF SameTrade
<1>14. FlightOK' /\ PlaceOK'
  <2>1. \A i \in 1..done' : FALSE
    BY <1>1 DEF TypeInv, BatchOK
  <2> QED
    BY <1>1, <2>1 DEF FlightOK, PlaceOK, Simulating
<1> QED
  BY <1>5, <1>10, <1>12, <1>13, <1>14 DEF OutcomeInv

-----------------------------------------------------------------------------
(* Decisions: a new order is neither sent nor waited for.                  *)

\* What a decision adds to the journal.
Adds(c, kind, size) ==
  /\ order[c].kind = "none" /\ order[c].status = "none"
  /\ order'[c].kind = kind /\ order'[c].status = "PENDING" /\ order'[c].outbox = "PENDING"
  /\ order'[c].size = size /\ order'[c].filled = 0 /\ (kind \in Increases => order'[c].reserved)
  /\ \A x \in Commands : x # c => order'[x] = order[x]

LEMMA InsertIs ==
  ASSUME TypeInv, NEW c \in Commands, NEW kind, NEW size, NEW level, NEW late,
         Insert(c, kind, size, level, late)
  PROVE  Adds(c, kind, size)
<1> DEFINE o == [NoOrder EXCEPT !.kind = kind, !.status = "PENDING", !.outbox = "PENDING",
                                !.rev = trade.rev, !.size = size, !.level = level,
                                !.reserved = (kind \in Increases), !.late = late]
<1>1. order' = [order EXCEPT ![c] = o] /\ order \in [Commands -> OrderType]
  BY DEF Insert, TypeInv, OrdersOK
<1>2. /\ o.kind = kind /\ o.status = "PENDING" /\ o.outbox = "PENDING" /\ o.size = size /\ o.filled = 0
      /\ (kind \in Increases => o.reserved)
  BY DEF NoOrder
<1> HIDE DEF o
<1>3. \A x \in Commands : order'[x] = IF x = c THEN o ELSE order[x]
  BY <1>1
<1>4. order[c].kind = "none" /\ order[c].status = "none"
  BY DEF Insert, First, Free, TypeInv, OrdersOK
<1> QED
  BY <1>2, <1>3, <1>4 DEF Adds

\* The rows of the journal with an order that is no entry.
LEMMA AddsRow ==
  ASSUME TypeInv, OutcomeInv, NEW c \in Commands, NEW kind, NEW size, Adds(c, kind, size),
         kind \in Kinds \ {"OPEN"}, size \in Nat \ {0},
         trade'.phase = trade.phase, trade'.rev = trade.rev, trade'.qty = trade.qty,
         kind = "ADD" => \A x \in Commands : order[x].kind = "OPEN" => order[x].status \notin Waiting,
         kind # "CANCEL" => trade.phase \notin {"none", "ENTRY_PENDING"}
  PROVE  JournalOK'
<1> USE DEF OutcomeInv, JournalOK, Adds
<1>1. \A x, y \in Commands : order'[x].kind = "OPEN" /\ order'[y].kind = "OPEN" => x = y
  OBVIOUS
<1>2. \A x, y \in Commands : order'[x].kind = "OPEN" /\ order'[y].kind = "ADD" =>
        order'[x].status \notin Waiting
  OBVIOUS
<1>3. \A x \in Commands : order'[x].kind = "OPEN" /\ order'[x].status \in Waiting => trade'.qty = 0
  OBVIOUS
<1>4. \A x \in Commands : order'[x].kind \in {"ADD", "MOVESTOP"} \cup Exits =>
        trade'.phase \notin {"none", "ENTRY_PENDING"}
  BY DEF Exits
<1>5. \A x \in Commands :
        IF order'[x].kind = "none" THEN order'[x].outbox = "none" ELSE order'[x].size > 0
  BY DEF Kinds, Increases, Exits
<1>6. \A x \in Of(Commands, Increases)' : order'[x].status \in Waiting =>
        order'[x].filled = 0 /\ (order'[x].reserved \/ trade'.phase \in Finished)
  BY DEF Of
<1>7. \A x \in Commands : order'[x].kind = "CANCEL" => order'[x].status # "ACK"
  OBVIOUS
<1> QED
  BY <1>1, <1>2, <1>3, <1>4, <1>5, <1>6, <1>7

LEMMA AddsKeeps ==
  ASSUME TypeInv, OutcomeInv, NEW c \in Commands, NEW kind, NEW size, NEW level, NEW late,
         Insert(c, kind, size, level, late), kind # "none", JournalOK',
         broker' \in BrokerType, broker'.sched = broker.sched, broker'.answer = broker.answer,
         broker'.rev = broker.rev, broker'.qty = broker.qty, broker.known => broker'.known,
         Past' => Past, trade'.phase = "REDUCING" => trade.phase = "REDUCING",
         trade'.phase \in Live => trade.phase \in Live \/ Accepted = {},
         trade'.moving \in {trade.moving, c}
  PROVE  OutcomeInv'
<1>1. Adds(c, kind, size)
  BY InsertIs
<1>2. /\ pc = "work" /\ pc' = "work" /\ due = {} /\ due' = {} /\ batch = <<>> /\ batch' = <<>>
      /\ queue' = queue /\ applied' = applied /\ cut' = cut /\ done' = done
  BY DEF Insert, Decides, OutcomeInv, PlaceOK, Simulating
<1>3. Stream = queue /\ Stream' = queue
  BY <1>2 DEF Stream
<1>4. OrdersKept /\ Accepted' \subseteq Accepted
  BY <1>1 DEF Adds, OrdersKept, Accepted
<1>5. \A x \in Commands : order[x].kind # "none" /\ Confirms(x) => Confirms(x)'
  BY <1>1, <1>2 DEF Adds, Confirms
<1>6. SentOK(broker)'
  BY <1>1 DEF Adds, SentOK, OutcomeInv, MemoryOK, JournalOK
<1>7. WaitsIn(broker', due') = WaitsIn(broker, due)
  BY <1>2 DEF WaitsIn
<1>8. WaitsOK(broker', due')
  <2>1. WaitsOK(broker, due)
    BY DEF OutcomeInv, MemoryOK
  <2> QED
    BY <1>2, <1>7, <2>1 DEF WaitsOK
<1>9. RoomOK(broker', Stream', due') /\ StreamOK(Stream', WaitsIn(broker', due'), broker'.answer)
  BY <1>3, <1>7 DEF OutcomeInv, RoomOK
<1>10. EventsOK(Stream')
  BY <1>3, StreamEvents
<1>11. /\ AppliedOK' /\ MemoryOK(broker, due)'
       /\ StreamOK(Stream, WaitsIn(broker, due), broker.answer)' /\ RoomOK(broker, Stream, due)'
  BY <1>2, <1>4, <1>5, <1>6, <1>8, <1>9, <1>10, OrdersMove
<1>12. AttendedOK'
  <2>1. CASE Accepted = {}
    BY <1>4, <2>1 DEF AttendedOK
  <2>2. CASE trade'.phase \in Live => trade.phase \in Live
    <3>1. WaitsIn(broker, due) \cup Told(Stream) \subseteq WaitsIn(broker', due') \cup Told(Stream')
      BY <1>3, <1>7
    <3> QED
      BY <1>2, <1>4, <1>5, <2>2, <3>1, AttendedMove
  <2> QED
    BY <2>1, <2>2
<1>13. ReducingOK'
  BY <1>2, <1>4, ReducingMove
<1>14. FlightOK' /\ PlaceOK'
  <2>1. \A i \in 1..done' : FALSE
    BY <1>2 DEF TypeInv, BatchOK
  <2> QED
    BY <1>2, <2>1 DEF FlightOK, PlaceOK, Simulating
<1> QED
  BY <1>11, <1>12, <1>13, <1>14 DEF OutcomeInv

LEMMA SubmitPlanOutcome ==
  ASSUME TypeInv, OutcomeInv, NEW c \in Commands, SubmitPlan(c)
  PROVE  OutcomeInv'
<1>1. Insert(c, "OPEN", EntrySize, 0, FALSE) /\ trade.phase = "none"
  BY DEF SubmitPlan
<1>2. Adds(c, "OPEN", EntrySize)
  BY <1>1, InsertIs
<1>3. /\ trade'.phase = "ENTRY_PENDING" /\ trade'.rev = trade.rev /\ trade'.qty = trade.qty
      /\ trade'.moving = trade.moving
  BY DEF SubmitPlan, TypeInv, TradeType
<1>4. \A x \in Commands : order[x].kind = "none" /\ order[x].status = "none"
  BY <1>1 DEF TypeInv, OrdersOK
<1>5. broker \in BrokerType /\ broker' = [broker EXCEPT !.known = TRUE]
  BY DEF SubmitPlan, TypeInv, BrokerOK
<1>6. /\ broker' \in BrokerType /\ broker'.sched = broker.sched /\ broker'.answer = broker.answer
      /\ broker'.rev = broker.rev /\ broker'.qty = broker.qty /\ broker'.known
  BY <1>5 DEF BrokerType
<1>7. trade.qty = 0 /\ trade.rev = 0
  BY <1>1 DEF OutcomeInv, JournalOK, TypeInv, TradeType
<1>8. JournalOK'
  <2>1. \A x \in Commands : x # c => order'[x].kind = "none" /\ order'[x].outbox = "none"
    BY <1>2, <1>4 DEF Adds, OutcomeInv, JournalOK
  <2>2. /\ order'[c].kind = "OPEN" /\ order'[c].filled = 0 /\ order'[c].reserved
        /\ order'[c].size > 0
    BY <1>2, SizesAssumption DEF Adds, Increases
  <2>3. \A x \in Of(Commands, Increases)' : x = c
    BY <2>1 DEF Of, Increases
  <2> QED
    BY <1>3, <1>7, <2>1, <2>2, <2>3 DEF JournalOK, Exits, Manageable, Finished
<1>9. ~Past' /\ Accepted = {}
  BY <1>3, <1>4 DEF Past, Finished, Accepted
<1> QED
  BY <1>1, <1>3, <1>6, <1>8, <1>9, AddsKeeps

\* The decisions on a trade that has begun.
LEMMA DecidesOutcome ==
  ASSUME TypeInv, OutcomeInv, NEW c \in Commands, NEW kind, NEW size, NEW level, NEW late,
         Insert(c, kind, size, level, late), kind \in Kinds \ {"OPEN"}, size \in Nat \ {0},
         kind = "ADD" => \A x \in Commands : order[x].kind = "OPEN" => order[x].status \notin Waiting,
         kind # "CANCEL" => trade.phase \notin {"none", "ENTRY_PENDING"},
         trade'.phase = trade.phase, trade'.rev = trade.rev, trade'.qty = trade.qty,
         trade'.moving \in {trade.moving, c}, broker' = broker
  PROVE  OutcomeInv'
<1>1. JournalOK'
  BY InsertIs, AddsRow
<1>2. Past' => Past
  BY DEF Past, Insert
<1> QED
  BY <1>1, <1>2, AddsKeeps, StreamEvents DEF Kinds, Increases, Exits

LEMMA SubmitsOutcome ==
  ASSUME TypeInv, OutcomeInv, NEW c \in Commands,
         \/ SubmitAdd(c) \/ SubmitClose(c) \/ SubmitReduce(c)
         \/ \E level \in StopLevels : SubmitMove(c, level)
         \/ \E late \in BOOLEAN : SubmitCancel(c, late)
  PROVE  OutcomeInv'
<1>1. trade.qty \in Nat
  BY DEF TypeInv, TradeType
<1>2. \A kind \in {"ADD", "CLOSE", "REDUCE", "MOVESTOP", "CANCEL"} : kind \in Kinds \ {"OPEN"}
  BY DEF Kinds, Increases, Exits
<1>3. CASE SubmitAdd(c)
  <2>1. \A x \in Commands : order[x].kind = "OPEN" => order[x].status \notin Waiting
    BY <1>3 DEF SubmitAdd, OpenOrder, Of, Increases, Waiting
  <2> QED
    BY <1>2, <1>3, <2>1, SizesAssumption, DecidesOutcome DEF SubmitAdd
<1>4. CASE SubmitClose(c)
  <2>1. Insert(c, "CLOSE", trade.qty, 0, FALSE) /\ trade' = trade /\ broker' = broker
    BY <1>4 DEF SubmitClose
  <2>2. trade.phase \in Manageable /\ trade.qty > 0
    BY <1>1, <1>4 DEF SubmitClose
  <2>3. trade.phase \notin {"none", "ENTRY_PENDING"} /\ trade.qty \in Nat \ {0}
    BY <1>1, <2>2 DEF Manageable
  <2>4. /\ trade'.phase = trade.phase /\ trade'.rev = trade.rev /\ trade'.qty = trade.qty
        /\ trade'.moving \in {trade.moving, c}
    BY <2>1
  <2> QED
    BY <1>2, <2>1, <2>3, <2>4, DecidesOutcome
<1>5. CASE SubmitReduce(c)
  <2>1. Insert(c, "REDUCE", 1, 0, FALSE) /\ trade' = trade /\ broker' = broker
    BY <1>5 DEF SubmitReduce
  <2>2. trade.phase \in Manageable /\ trade.qty > 0
    BY <1>1, <1>5 DEF SubmitReduce
  <2>3. trade.phase \notin {"none", "ENTRY_PENDING"} /\ 1 \in Nat \ {0}
    BY <1>1, <2>2 DEF Manageable
  <2>4. /\ trade'.phase = trade.phase /\ trade'.rev = trade.rev /\ trade'.qty = trade.qty
        /\ trade'.moving \in {trade.moving, c}
    BY <2>1
  <2> QED
    BY <1>2, <2>1, <2>3, <2>4, DecidesOutcome
<1>6. ASSUME NEW level \in StopLevels, SubmitMove(c, level) PROVE OutcomeInv'
  <2>1. /\ Insert(c, "MOVESTOP", 1, level, FALSE) /\ broker' = broker
        /\ trade.phase \notin {"none", "ENTRY_PENDING"}
    BY <1>6 DEF SubmitMove, Manageable
  <2>2. /\ trade'.phase = trade.phase /\ trade'.rev = trade.rev /\ trade'.qty = trade.qty
        /\ trade'.moving \in {trade.moving, c}
    BY <1>6 DEF SubmitMove, TypeInv, TradeType
  <2>3. /\ "MOVESTOP" \in Kinds \ {"OPEN"} /\ 1 \in Nat \ {0}
        /\ "MOVESTOP" = "ADD" =>
             \A x \in Commands : order[x].kind = "OPEN" => order[x].status \notin Waiting
    BY <1>2
  <2> QED
    BY <2>1, <2>2, <2>3, DecidesOutcome
<1>7. ASSUME NEW late \in BOOLEAN, SubmitCancel(c, late) PROVE OutcomeInv'
  <2>1. /\ Insert(c, "CANCEL", 1, 0, late) /\ trade' = trade /\ broker' = broker
    BY <1>7 DEF SubmitCancel
  <2>2. /\ trade'.phase = trade.phase /\ trade'.rev = trade.rev /\ trade'.qty = trade.qty
        /\ trade'.moving \in {trade.moving, c}
    BY <2>1
  <2> QED
    BY <1>2, <2>1, <2>2, DecidesOutcome
<1> QED
  BY <1>3, <1>4, <1>5, <1>6, <1>7

-----------------------------------------------------------------------------
(* Delivery: a command the broker did not know is refused, scheduled, or   *)
(* cancels the increases that wait.                                        *)

\* The broker b with the queue q has answered c with a.
Answers(c, a, b, q) ==
  /\ b.answer[c] = a /\ a \in {"ACK", "CANCEL", "REJECT"} /\ c \notin Told(q)
  /\ \A x \in Commands : b.answer[x] # "none" => x = c \/ order[x].outbox \in {"CLAIMED", "SENT"}
  /\ WaitsOK(b, {}) /\ StreamOK(q, WaitsIn(b, {}), b.answer) /\ RoomOK(b, q, {})
  /\ WaitsIn(broker, {}) \cup Told(queue) \subseteq WaitsIn(b, {}) \cup Told(q)
  /\ a = "ACK" => c \in b.sched
  /\ order[c].kind = "CANCEL" => a # "ACK" /\ Of(b.sched, Increases) = {}

\* What is known of a command that is delivered.
LEMMA EligibleIs ==
  ASSUME TypeInv, OutcomeInv, NEW c \in Commands, Eligible(c), pc = "work"
  PROVE  /\ order[c].status = "PENDING" /\ order[c].kind \in Kinds /\ broker.answer[c] = "none"
         /\ c \notin broker.sched /\ c \notin Told(queue)
         /\ order[c].rev = trade.rev
         /\ order[c].kind \in Increases => ~Past /\ \A i \in 1..Len(queue) : ~Reduces(queue[i])
         /\ order[c].kind = "OPEN" => trade.rev = 0
         /\ order[c].kind = "CANCEL" => trade.phase = "ENTRY_PENDING" /\ trade.rev = 0
         /\ due = {} /\ batch = <<>> /\ Stream = queue
<1>1. order[c].status = "PENDING" /\ order[c].outbox = "PENDING" /\ order[c].rev = trade.rev
      /\ PhaseAllows(order[c].kind)
  BY DEF Eligible
<1>2. order[c].kind \in Kinds
  BY <1>1 DEF TypeInv, OrdersOK, OrderType
<1>3. due = {} /\ batch = <<>> /\ Stream = queue
  BY DEF OutcomeInv, PlaceOK, Simulating, Stream
<1>4. broker.answer[c] = "none"
  BY <1>1 DEF OutcomeInv, MemoryOK, SentOK
<1>5. c \notin broker.sched
  BY <1>4 DEF OutcomeInv, MemoryOK, WaitsOK
<1>6. c \notin Told(queue)
  BY <1>3, <1>4 DEF OutcomeInv, StreamOK, Told
<1>7. \A i \in 1..Len(queue) : ~Reduces(queue[i])
  BY DEF TypeInv, QueueOK, Simulating, Reduces
<1>8. order[c].kind = "OPEN" => trade.phase = "ENTRY_PENDING"
  BY <1>1 DEF PhaseAllows
<1>9. order[c].kind = "ADD" => trade.phase \in {"OPEN", "BUILDING"}
  BY <1>1 DEF PhaseAllows
<1>10. order[c].kind = "CANCEL" => trade.phase = "ENTRY_PENDING"
  BY <1>1 DEF PhaseAllows
<1>11. order[c].kind \in Increases => ~Past
  BY <1>8, <1>9 DEF Increases, Past, Finished
<1>12. trade.phase = "ENTRY_PENDING" => trade.rev = 0
  BY DEF OutcomeInv, JournalOK
<1> QED
  BY <1>1, <1>2, <1>3, <1>4, <1>5, <1>6, <1>7, <1>8, <1>10, <1>11, <1>12

LEMMA RefusedAnswers ==
  ASSUME TypeInv, OutcomeInv, NEW c \in Commands, Eligible(c), pc = "work", NEW t,
         NEW b \in BrokerType, b = [broker EXCEPT !.answer[c] = "REJECT", !.since[c] = t],
         \/ ~broker.known \/ order[c].rev # broker.rev
         \/ Of(broker.sched, Increases) = {}
  PROVE  Answers(c, "REJECT", b, queue)
<1>1. broker \in BrokerType
  BY DEF TypeInv, BrokerOK
<1>2. /\ b.answer[c] = "REJECT" /\ b.sched = broker.sched /\ b.rev = broker.rev /\ b.qty = broker.qty
      /\ b.known = broker.known /\ \A x \in Commands : x # c => b.answer[x] = broker.answer[x]
  BY <1>1 DEF BrokerType
<1>3. /\ order[c].kind \in Kinds /\ broker.answer[c] = "none" /\ order[c].rev = trade.rev
      /\ c \notin broker.sched /\ c \notin Told(queue) /\ due = {} /\ Stream = queue
      /\ order[c].kind = "CANCEL" => trade.phase = "ENTRY_PENDING" /\ trade.rev = 0
  BY EligibleIs
<1>4. WaitsIn(b, {}) = WaitsIn(broker, {})
  BY <1>1, <1>2, <1>3 DEF WaitsIn, BrokerType
<1>5. WaitsOK(b, {})
  <2>1. WaitsOK(broker, {})
    BY <1>3 DEF OutcomeInv, MemoryOK
  <2>2. broker.sched \subseteq Commands
    BY <1>1 DEF BrokerType
  <2> QED
    BY <1>2, <1>3, <1>4, <2>1, <2>2 DEF WaitsOK
<1>6. StreamOK(queue, WaitsIn(b, {}), b.answer)
  <2> DEFINE waits == WaitsIn(broker, {})
             more == b.answer
  <2>1. StreamOK(queue, waits, broker.answer)
    BY <1>3 DEF OutcomeInv
  <2>2. \A x \in Commands : broker.answer[x] # "none" => more[x] # "none"
    BY <1>2
  <2> HIDE DEF waits, more
  <2>3. StreamOK(queue, waits, more)
    BY <2>1, <2>2, StreamKept
  <2> QED
    BY <1>4, <2>3 DEF waits, more
<1>7. RoomOK(b, queue, {})
  BY <1>2, <1>3, <1>4 DEF OutcomeInv, RoomOK
<1>8. \A x \in Commands : b.answer[x] # "none" => x = c \/ order[x].outbox \in {"CLAIMED", "SENT"}
  BY <1>2 DEF OutcomeInv, MemoryOK, SentOK
<1>9. order[c].kind = "CANCEL" => Of(b.sched, Increases) = {}
  <2> SUFFICES ASSUME order[c].kind = "CANCEL", NEW x \in Of(broker.sched, Increases)
               PROVE  FALSE
    BY <1>2
  <2>1. x \in broker.sched /\ x \in Commands /\ order[x].kind \in Increases
    BY <1>1 DEF Of, BrokerType
  <2>2. broker.known /\ broker.rev # 0
    BY <1>3, <2>1 DEF OutcomeInv, MemoryOK, WaitsOK
  <2>3. x \in Of(WaitsIn(broker, due), Increases)
    BY <1>3, <2>1 DEF OutcomeInv, MemoryOK, WaitsOK, WaitsIn, Of
  <2>4. order[x].kind = "ADD"
    BY <2>1, <2>2, <2>3 DEF OutcomeInv, RoomOK, Increases
  <2> QED
    BY <1>3, <2>1, <2>4 DEF OutcomeInv, JournalOK
<1> QED
  BY <1>2, <1>3, <1>4, <1>5, <1>6, <1>7, <1>8, <1>9 DEF Answers

LEMMA ScheduledAnswers ==
  ASSUME TypeInv, OutcomeInv, NEW c \in Commands, Eligible(c), pc = "work", NEW t,
         NEW b \in BrokerType,
         b = [broker EXCEPT !.answer[c] = "ACK", !.since[c] = t, !.sched = @ \cup {c}],
         broker.known, order[c].rev = broker.rev, order[c].kind # "CANCEL"
  PROVE  Answers(c, "ACK", b, queue)
<1>1. broker \in BrokerType
  BY DEF TypeInv, BrokerOK
<1>2. /\ b.answer[c] = "ACK" /\ b.sched = broker.sched \cup {c} /\ b.rev = broker.rev /\ b.qty = broker.qty
      /\ b.known = broker.known /\ \A x \in Commands : x # c => b.answer[x] = broker.answer[x]
  BY <1>1 DEF BrokerType
<1>3. /\ order[c].kind \in Kinds /\ broker.answer[c] = "none" /\ order[c].rev = trade.rev
      /\ c \notin broker.sched /\ c \notin Told(queue) /\ due = {} /\ Stream = queue
      /\ order[c].kind \in Increases => ~Past /\ \A i \in 1..Len(queue) : ~Reduces(queue[i])
      /\ order[c].kind = "OPEN" => trade.rev = 0
      /\ order[c].status = "PENDING"
  BY EligibleIs
<1> DEFINE waits == WaitsIn(broker, {})
<1>4. WaitsIn(b, {}) = waits \cup {c}
  BY <1>1, <1>2, <1>3 DEF WaitsIn, BrokerType
<1>5. WaitsOK(b, {})
  <2>1. WaitsOK(broker, {})
    BY <1>3 DEF OutcomeInv, MemoryOK
  <2>2. broker.sched \subseteq Commands /\ order[c].status \in Waiting
    BY <1>1, <1>3 DEF BrokerType, Waiting
  <2> QED
    BY <1>2, <1>3, <1>4, <2>1, <2>2 DEF WaitsOK
<1>6. StreamOK(queue, WaitsIn(b, {}), b.answer)
  <2> DEFINE more == b.answer
  <2>1. StreamOK(queue, waits, broker.answer)
    BY <1>3 DEF OutcomeInv
  <2>2. \A x \in Commands : broker.answer[x] # "none" => more[x] # "none"
    BY <1>2
  <2> HIDE DEF waits, more
  <2>3. StreamOK(queue, waits, more)
    BY <2>1, <2>2, StreamKept
  <2>4. \A i \in 1..Len(queue) : queue[i].cmd # c
    BY <1>3 DEF Told
  <2>5. StreamOK(queue, waits \cup {c}, more)
    BY <2>3, <2>4 DEF StreamOK
  <2> QED
    BY <1>4, <2>5 DEF more
<1>7. RoomOK(b, queue, {})
  <2> SUFFICES ASSUME NEW x \in Of(WaitsIn(b, {}), Increases)
               PROVE  Room(queue) /\ (order[x].kind = "OPEN" => b.rev = 0)
    BY DEF RoomOK
  <2>1. CASE x = c
    BY <1>2, <1>3, <2>1 DEF Of, Room
  <2>2. CASE x # c
    <3>1. x \in Of(waits, Increases)
      BY <1>4, <2>2 DEF Of
    <3> QED
      BY <1>2, <1>3, <3>1 DEF OutcomeInv, RoomOK
  <2> QED
    BY <2>1, <2>2
<1>8. \A x \in Commands : b.answer[x] # "none" => x = c \/ order[x].outbox \in {"CLAIMED", "SENT"}
  BY <1>2 DEF OutcomeInv, MemoryOK, SentOK
<1> QED
  BY <1>2, <1>3, <1>4, <1>5, <1>6, <1>7, <1>8 DEF Answers

LEMMA CancelsAnswers ==
  ASSUME TypeInv, OutcomeInv, OneOpenIncrease, NEW c \in Commands, Eligible(c), pc = "work", NEW t,
         order[c].kind = "CANCEL", NEW n, n = Cancelled(Sim, {}, 0), NEW rev,
         rev = IF n.b.qty = 0 THEN n.b.rev + 1 ELSE n.b.rev,
         NEW b \in BrokerType, b = [n.b EXCEPT !.answer[c] = "CANCEL", !.since[c] = t, !.rev = rev]
  PROVE  Answers(c, "CANCEL", b, n.q)
<1>1. SimOK(Sim) /\ Sim.b = broker /\ Sim.q = queue
  BY DEF TypeInv, QueueOK, Sim, SimOK
<1>2. /\ order[c].kind \in Kinds /\ broker.answer[c] = "none"
      /\ c \notin broker.sched /\ due = {} /\ Stream = queue
  BY EligibleIs
<1>3. BarOK(Sim, {})
  BY <1>1, <1>2 DEF OutcomeInv, BarOK
<1>4. /\ BarOK(n, {}) /\ Of(WaitsIn(n.b, {}), Increases) = {}
      /\ n.b.rev = broker.rev /\ n.b.qty = broker.qty /\ n.b.known = broker.known
      /\ WaitsIn(n.b, {}) \subseteq WaitsIn(broker, {})
      /\ WaitsIn(broker, {}) \cup Told(queue) \subseteq WaitsIn(n.b, {}) \cup Told(n.q)
      /\ \A x \in Commands : n.b.answer[x] = broker.answer[x] \/ x \in WaitsIn(broker, {})
  BY <1>1, <1>3, CancelKeeps
<1>5. SimOK(n)
  BY <1>1, CancelledOK
<1>6. n.b \in BrokerType /\ n.b.rev \in Nat
  BY <1>5, FieldsAre
<1>7. /\ b.answer[c] = "CANCEL" /\ b.sched = n.b.sched /\ b.qty = n.b.qty /\ b.rev = rev
      /\ b.known = n.b.known /\ \A x \in Commands : x # c => b.answer[x] = n.b.answer[x]
  BY <1>6 DEF BrokerType
<1>8. c \notin WaitsIn(broker, {}) /\ c \notin WaitsIn(n.b, {}) /\ c \notin n.b.sched
  <2>1. c \notin WaitsIn(broker, {})
    BY <1>2 DEF WaitsIn
  <2>2. c \notin WaitsIn(n.b, {})
    BY <1>4, <2>1
  <2> QED
    BY <1>4, <2>1, <2>2 DEF BarOK, MemoryOK, WaitsOK, WaitsIn
<1>9. WaitsIn(b, {}) = WaitsIn(n.b, {})
  BY <1>6, <1>7, <1>8 DEF WaitsIn, BrokerType
<1>10. WaitsOK(b, {})
  <2>1. WaitsOK(n.b, {})
    BY <1>4 DEF BarOK, MemoryOK
  <2>2. rev = 0 => b.qty = 0
    BY <1>6, <1>7, <2>1 DEF WaitsOK
  <2>3. n.b.sched \subseteq Commands
    BY <1>6 DEF BrokerType
  <2> QED
    BY <1>7, <1>8, <1>9, <2>1, <2>2, <2>3 DEF WaitsOK
<1>11. StreamOK(n.q, WaitsIn(b, {}), b.answer)
  <2> DEFINE waits == WaitsIn(n.b, {})
             more == b.answer
             q == n.q
  <2>1. StreamOK(q, waits, n.b.answer)
    BY <1>4 DEF BarOK
  <2>2. \A x \in Commands : n.b.answer[x] # "none" => more[x] # "none"
    BY <1>7
  <2> HIDE DEF waits, more, q
  <2>3. StreamOK(q, waits, more)
    BY <2>1, <2>2, StreamKept
  <2> QED
    BY <1>9, <2>3 DEF waits, more, q
<1>12. c \notin Told(n.q)
  BY <1>4 DEF BarOK, StreamOK, Told
<1>13. RoomOK(b, n.q, {}) /\ Of(b.sched, Increases) = {}
  <2>1. Of(WaitsIn(b, {}), Increases) = {}
    BY <1>4, <1>9
  <2>2. b.sched \subseteq WaitsIn(b, {})
    BY <1>10 DEF WaitsOK, WaitsIn
  <2> QED
    BY <2>1, <2>2, NoRoomNeeded DEF Of
<1>14. \A x \in Commands : b.answer[x] # "none" => x = c \/ order[x].outbox \in {"CLAIMED", "SENT"}
  BY <1>4, <1>7 DEF BarOK, MemoryOK, SentOK
<1> QED
  BY <1>4, <1>7, <1>9, <1>10, <1>11, <1>12, <1>13, <1>14 DEF Answers

LEMMA DeliverOutcome ==
  ASSUME TypeInv, OutcomeInv, OneOpenIncrease, NEW c \in Commands, NEW d \in Delays, Deliver(c, d)
  PROVE  OutcomeInv'
<1> DEFINE e == Answer(c, d)
           a == e.status
<1>1. pc = "work" /\ pc' = "sent" /\ Eligible(c) /\ inflight' = e /\ Marks(c, "CLAIMED")
      /\ Becomes(Submitted(e)) /\ SameTrade /\ applied' = applied /\ due' = due /\ batch' = batch
      /\ done' = done /\ cut' = cut
  BY DEF Deliver, Decides, First, Marks, SameTrade
<1>2. /\ order[c].status = "PENDING" /\ order[c].kind \in Kinds /\ broker.answer[c] = "none"
      /\ order[c].kind \in Increases => ~Past /\ \A i \in 1..Len(queue) : ~Reduces(queue[i])
      /\ due = {} /\ batch = <<>> /\ Stream = queue
  BY <1>1, EligibleIs
<1>3. /\ e.cmd = c /\ e.bar \in Nat /\ a \in {"ACK", "FILL", "CANCEL", "REJECT"}
      /\ a = "FILL" => order[c].kind \in Increases \cup Exits
      /\ broker.answer[c] = "none" /\ a = "ACK" => order[c].kind \in Scheduled
  BY <1>2, AnswerIs
<1>4. broker' \in BrokerType /\ EventsOK(queue')
  <2>1. a = "FILL" => broker.answer[c] # "none"
    BY DEF Answer, Event
  <2> HIDE DEF e
  <2>2. SimOK(Submitted(e))
    BY <1>1, <1>3, <2>1, SubmittedOK DEF Simulating
  <2> QED
    BY <1>1, <2>2, FieldsAre DEF Becomes
<1>5. Answers(c, a, broker', queue')
  <2> DEFINE now == Len(bars) + 1 + d
             waiting == Of(broker.sched, Increases)
             x == Cancelled(Sim, {}, 0)
             rev == IF x.b.qty = 0 THEN x.b.rev + 1 ELSE x.b.rev
  <2>1. /\ (~broker.known \/ order[c].rev # broker.rev) => e = Event(c, "REJECT", 0, now, 0)
        /\ broker.known /\ order[c].rev = broker.rev =>
             e = IF order[c].kind # "CANCEL" THEN Event(c, "ACK", 0, now, 0)
                 ELSE IF broker.qty > 0 /\ waiting = {} THEN Event(c, "REJECT", 0, now, 0)
                 ELSE Event(c, "CANCEL", 0, now, 0)
    BY <1>2 DEF Answer
  <2>2. \A st : Event(c, st, 0, now, 0).status = st
    BY DEF Event
  <2> HIDE DEF e, now, waiting
  <2>3. \/ a = "REJECT" /\ (~broker.known \/ order[c].rev # broker.rev \/ waiting = {})
        \/ a = "ACK" /\ broker.known /\ order[c].rev = broker.rev /\ order[c].kind # "CANCEL"
        \/ a = "CANCEL" /\ order[c].kind = "CANCEL"
    BY <2>1, <2>2
  <2>4. broker \in BrokerType
    BY DEF TypeInv, BrokerOK
  <2>5. CASE a = "REJECT" /\ (~broker.known \/ order[c].rev # broker.rev \/ waiting = {})
    <3>1. Submitted(e) = [b |-> [broker EXCEPT !.answer[c] = a, !.since[c] = e.bar], q |-> queue]
      BY <1>3, <2>5 DEF Submitted
    <3>2. broker' = [broker EXCEPT !.answer[c] = "REJECT", !.since[c] = e.bar] /\ queue' = queue
      BY <1>1, <2>5, <3>1 DEF Becomes
    <3> QED
      BY <1>1, <1>4, <2>5, <3>2, RefusedAnswers DEF waiting
  <2>6. CASE a = "ACK" /\ broker.known /\ order[c].rev = broker.rev /\ order[c].kind # "CANCEL"
    <3>1. Submitted(e) =
            [b |-> [[broker EXCEPT !.answer[c] = a, !.since[c] = e.bar] EXCEPT !.sched = @ \cup {c}], q |-> queue]
      BY <1>2, <1>3, <2>6 DEF Submitted
    <3>2. broker' = [[broker EXCEPT !.answer[c] = a, !.since[c] = e.bar] EXCEPT !.sched = @ \cup {c}]
          /\ queue' = queue
      BY <1>1, <3>1 DEF Becomes
    <3>3. broker' = [broker EXCEPT !.answer[c] = "ACK", !.since[c] = e.bar, !.sched = @ \cup {c}]
      BY <2>4, <2>6, <3>2 DEF BrokerType
    <3>4. Answers(c, "ACK", broker', queue)
      BY <1>1, <1>4, <2>6, <3>3, ScheduledAnswers
    <3> QED
      BY <2>6, <3>2, <3>4
  <2>7. CASE a = "CANCEL" /\ order[c].kind = "CANCEL"
    <3>1. Submitted(e) = [x EXCEPT !.b.answer[c] = "CANCEL", !.b.since[c] = e.bar,
                                   !.b.rev = IF x.b.qty = 0 THEN @ + 1 ELSE @]
      BY <1>2, <1>3, <2>7 DEF Submitted
    <3>2. SimOK(Sim)
      BY DEF TypeInv, QueueOK, Sim, SimOK
    <3>3. SimOK(x)
      BY <3>2, CancelledOK
    <3> HIDE DEF x
    <3>4. x = [b |-> x.b, q |-> x.q] /\ x.b \in BrokerType
      BY <3>3, FieldsAre
    <3>5. Submitted(e) = [b |-> [x.b EXCEPT !.answer[c] = "CANCEL", !.since[c] = e.bar, !.rev = rev], q |-> x.q]
      BY <3>1, <3>4
    <3>6. broker' = [x.b EXCEPT !.answer[c] = "CANCEL", !.since[c] = e.bar, !.rev = rev] /\ queue' = x.q
      BY <1>1, <3>5 DEF Becomes
    <3>7. x = Cancelled(Sim, {}, 0) /\ rev = IF x.b.qty = 0 THEN x.b.rev + 1 ELSE x.b.rev
      BY DEF x
    <3> HIDE DEF rev
    <3>8. Answers(c, "CANCEL", broker', x.q)
      BY <1>1, <1>4, <2>7, <3>6, <3>7, CancelsAnswers
    <3> QED
      BY <2>7, <3>6, <3>8
  <2> QED
    BY <2>3, <2>5, <2>6, <2>7
<1> HIDE DEF e
<1>6. \A x \in Commands :
        /\ order'[x].kind = order[x].kind /\ order'[x].status = order[x].status
        /\ order'[x].size = order[x].size /\ order'[x].filled = order[x].filled
        /\ order'[x].reserved = order[x].reserved
        /\ order'[x].outbox = IF x = c THEN "CLAIMED" ELSE order[x].outbox
  BY <1>1, MarkIs
<1>7. OrdersKept /\ Accepted' \subseteq Accepted /\ (Past' => Past)
  BY <1>1, <1>6, PastKept DEF OrdersKept, Accepted
<1>8. Stream' = queue' /\ due' = {} /\ due' \subseteq Commands
  BY <1>1, <1>2 DEF Stream
<1>9. \A x \in Commands : Confirms(x) => Confirms(x)'
  BY <1>1 DEF Confirms, SameTrade
<1>10. SentOK(broker)'
  BY <1>5, <1>6 DEF Answers, SentOK
<1>11. /\ EventsOK(Stream') /\ WaitsOK(broker', due') /\ RoomOK(broker', Stream', due')
       /\ StreamOK(Stream', WaitsIn(broker', due'), broker'.answer)
       /\ WaitsIn(broker, due) \cup Told(Stream) \subseteq WaitsIn(broker', due') \cup Told(Stream')
  BY <1>2, <1>4, <1>5, <1>8 DEF Answers
<1>12. /\ AppliedOK' /\ MemoryOK(broker, due)'
       /\ StreamOK(Stream, WaitsIn(broker, due), broker.answer)' /\ RoomOK(broker, Stream, due)'
  BY <1>1, <1>4, <1>7, <1>8, <1>9, <1>10, <1>11, OrdersMove
<1>13. JournalOK'
  <2>1. \A x \in Commands : order[x].kind = "none" => order'[x].kind = "none" /\ order'[x].outbox = "none"
    BY <1>2, <1>6 DEF OutcomeInv, JournalOK, Kinds, Increases, Exits
  <2> QED
    BY <1>1, <1>6, <1>7, <2>1, RowsKept
<1>14. AttendedOK'
  BY <1>1, <1>7, <1>9, <1>11, AttendedMove DEF SameTrade
<1>15. ReducingOK'
  BY <1>1, <1>7, ReducingMove DEF SameTrade
<1>16. FlightOK'
  <2>1. /\ inflight'.cmd = c /\ inflight'.status = a
        /\ c \notin Told(queue') /\ broker'.answer[c] = a /\ a \in {"ACK", "CANCEL", "REJECT"}
        /\ a = "ACK" => c \in broker'.sched
        /\ order[c].kind = "CANCEL" => a # "ACK" /\ Of(broker'.sched, Increases) = {}
    BY <1>1, <1>3, <1>5 DEF Answers
  <2>2. Told(queue)' = Told(queue')
    BY DEF Told
  <2>3. Of(broker'.sched, Increases) = {} => Of(broker.sched, Increases)' = {}
    BY <1>4, <1>6 DEF Of, BrokerType
  <2>4. order'[c].kind = order[c].kind
    BY <1>6
  <2>5. order'[c].kind \in Increases => ~Past'
    BY <1>2, <1>7, <2>4
  <2> QED
    BY <2>1, <2>2, <2>3, <2>4, <2>5 DEF FlightOK
<1>17. PlaceOK'
  <2>1. \A i \in 1..done' : FALSE
    BY <1>1, <1>2 DEF TypeInv, BatchOK
  <2> QED
    BY <1>1, <1>2, <2>1 DEF PlaceOK, Simulating
<1> QED
  BY <1>12, <1>13, <1>14, <1>15, <1>16, <1>17 DEF OutcomeInv

-----------------------------------------------------------------------------
(* An event is reduced: what becomes of the orders and of the trade.       *)

\* The orders of the journal after e.
OrdersReduced(e) ==
  \A c \in Commands :
    /\ order'[c].kind = order[c].kind /\ order'[c].size = order[c].size
    /\ order'[c].outbox = order[c].outbox
    /\ c # e.cmd => order'[c].status = order[c].status
    /\ c = e.cmd /\ e.status = "FILL" => order'[c].status \in {"PARTIAL", "FILLED"}
    /\ c = e.cmd /\ e.status \in {"CANCEL", "REJECT"} => order'[c].status = e.status
    /\ c = e.cmd /\ e.status \in {"ACK", "ACTIVE"} => order'[c].status = "ACK"
    /\ c # e.cmd \/ e.status # "FILL" => order'[c].filled = order[c].filled
    /\ order[c].reserved /\ order'[c].status \in Waiting /\ ~Ends(e) => order'[c].reserved

LEMMA OrdersReducedIs ==
  ASSUME TypeInv, NEW e, Reducible(e), Apply(e)
  PROVE  OrdersReduced(e)
<1> SUFFICES ASSUME NEW c \in Commands
             PROVE  /\ order'[c].kind = order[c].kind /\ order'[c].size = order[c].size
                    /\ order'[c].outbox = order[c].outbox
                    /\ c # e.cmd => order'[c].status = order[c].status
                    /\ c = e.cmd /\ e.status = "FILL" => order'[c].status \in {"PARTIAL", "FILLED"}
                    /\ c = e.cmd /\ e.status \in {"CANCEL", "REJECT"} => order'[c].status = e.status
                    /\ c = e.cmd /\ e.status \in {"ACK", "ACTIVE"} => order'[c].status = "ACK"
                    /\ c # e.cmd \/ e.status # "FILL" => order'[c].filled = order[c].filled
                    /\ order[c].reserved /\ order'[c].status \in Waiting /\ ~Ends(e) => order'[c].reserved
  BY DEF OrdersReduced
<1>1. order'[c] = OrderAfter(e, c)
  BY DEF Apply
<1>2. /\ order'[c].kind = order[c].kind
      /\ c # e.cmd => order'[c].status = order[c].status
      /\ c = e.cmd /\ e.status = "FILL" => order'[c].status \in {"PARTIAL", "FILLED"}
      /\ c = e.cmd /\ e.status \in {"CANCEL", "REJECT"} => order'[c].status = e.status
      /\ c = e.cmd /\ e.status \in {"ACK", "ACTIVE"} => order'[c].status = "ACK"
  BY <1>1, OrderAfterIs DEF TypeInv
<1> DEFINE o == order[c]
           total == o.filled + e.qty
           status == IF total = o.size THEN "FILLED" ELSE "PARTIAL"
           left == o.reserved /\ total # o.size
           fill == [o EXCEPT !.filled = total, !.status = status, !.reserved = left]
           end == [o EXCEPT !.status = e.status, !.reserved = FALSE]
           ack == [o EXCEPT !.status = "ACK", !.since = e.bar]
           active == [o EXCEPT !.status = "ACK"]
           own == CASE c # e.cmd -> o
                    [] c = e.cmd /\ e.status = "FILL" -> fill
                    [] c = e.cmd /\ e.status \in {"CANCEL", "REJECT"} -> end
                    [] c = e.cmd /\ e.status = "ACK" -> ack
                    [] c = e.cmd /\ e.status = "ACTIVE" -> active
           kept == own.reserved /\ ~Ends(e)
           n == [own EXCEPT !.reserved = kept]
<1>3. o \in OrderType /\ e.status \in {"ACK", "ACTIVE", "FILL", "CANCEL", "REJECT"}
  BY DEF TypeInv, OrdersOK, Reducible, AnswerType
<1>4. OrderAfter(e, c) = n
  BY DEF OrderAfter
<1> HIDE DEF total, status, left
<1> HIDE DEF o
<1>5. c = e.cmd /\ e.status = "FILL" => fill \in OrderType /\ fill.size = o.size /\ fill.outbox = o.outbox
  <2> SUFFICES ASSUME c = e.cmd, e.status = "FILL"
               PROVE  fill \in OrderType /\ fill.size = o.size /\ fill.outbox = o.outbox
    OBVIOUS
  <2>1. o.filled \in Nat /\ o.size \in Nat /\ o.reserved \in BOOLEAN /\ e.qty \in Nat
    BY <1>3 DEF OrderType, Reducible, AnswerType
  <2>2. total \in Nat /\ status \in {"FILLED", "PARTIAL"} /\ left \in BOOLEAN
    BY <2>1 DEF total, status, left
  <2> QED
    BY <1>3, <2>2 DEF OrderType
<1>6. c = e.cmd /\ e.status \in {"CANCEL", "REJECT"} =>
        end \in OrderType /\ end.size = o.size /\ end.outbox = o.outbox /\ end.filled = o.filled
  BY <1>3 DEF OrderType
<1>7. c = e.cmd /\ e.status = "ACK" =>
        /\ ack \in OrderType /\ ack.size = o.size /\ ack.outbox = o.outbox /\ ack.filled = o.filled
        /\ ack.reserved = o.reserved
  <2>1. e.bar \in Nat
    BY DEF Reducible, AnswerType
  <2> QED
    BY <1>3, <2>1 DEF OrderType
<1>8. /\ active \in OrderType /\ active.size = o.size /\ active.outbox = o.outbox
      /\ active.filled = o.filled /\ active.reserved = o.reserved
  BY <1>3 DEF OrderType
<1> HIDE DEF fill, end, ack, active
<1>10. /\ own \in OrderType /\ own.size = o.size /\ own.outbox = o.outbox
       /\ c # e.cmd \/ e.status # "FILL" => own.filled = o.filled
       /\ c # e.cmd \/ e.status \in {"ACK", "ACTIVE"} => own.reserved = o.reserved
  <2>1. CASE c # e.cmd
    <3>1. own = o
      BY <2>1
    <3> HIDE DEF own
    <3> QED
      BY <1>3, <2>1, <3>1
  <2>2. CASE c = e.cmd /\ e.status = "FILL"
    <3>1. own = fill
      BY <2>2
    <3> HIDE DEF own
    <3> QED
      BY <1>5, <2>2, <3>1
  <2>3. CASE c = e.cmd /\ e.status \in {"CANCEL", "REJECT"}
    <3>1. own = end
      BY <2>3
    <3> HIDE DEF own
    <3> QED
      BY <1>6, <2>3, <3>1
  <2>4. CASE c = e.cmd /\ e.status = "ACK"
    <3>1. own = ack
      BY <2>4
    <3> HIDE DEF own
    <3> QED
      BY <1>7, <2>4, <3>1
  <2>5. CASE c = e.cmd /\ e.status = "ACTIVE"
    <3>1. own = active
      BY <2>5
    <3> HIDE DEF own
    <3> QED
      BY <1>8, <2>5, <3>1
  <2> QED
    BY <1>3, <2>1, <2>2, <2>3, <2>4, <2>5
<1> HIDE DEF own
<1>11. n.size = own.size /\ n.outbox = own.outbox /\ n.filled = own.filled /\ n.reserved = kept
  <2> HIDE DEF kept
  <2> QED
    BY <1>10 DEF OrderType
<1> HIDE DEF n
<1>12. order[c].reserved /\ order'[c].status \in Waiting /\ ~Ends(e) => order'[c].reserved
  <2> SUFFICES ASSUME order[c].reserved, order'[c].status \in Waiting, ~Ends(e)
               PROVE  order'[c].reserved
    OBVIOUS
  <2>1. c # e.cmd \/ e.status \in {"ACK", "ACTIVE"}
    BY <1>2, <1>3 DEF Waiting
  <2>2. own.reserved
    BY <1>10, <2>1 DEF o
  <2> QED
    BY <1>1, <1>4, <1>11, <2>2
<1> QED
  BY <1>1, <1>2, <1>4, <1>10, <1>11, <1>12 DEF o

\* The trade after e.
TradeReduced(e) ==
  /\ trade'.moving = trade.moving
  /\ e.status \in {"ACK", "ACTIVE"} => trade' = trade
  /\ e.status \in {"CANCEL", "REJECT"} =>
       /\ trade'.qty = trade.qty
       /\ \/ trade' = trade
          \/ /\ trade.phase \notin Finished /\ trade'.phase \in {"REJECTED", "CANCELLED"}
             /\ trade'.rev = trade.rev + 1
             /\ \/ e.status = "REJECT" /\ Kind(e.cmd) = "OPEN"
                \/ Kind(e.cmd) \in {"OPEN", "CANCEL"} /\ trade.qty = 0
  /\ e.status = "FILL" =>
       /\ trade'.qty = Left(e) /\ trade'.phase = PhaseAfterFill(e, Left(e))
       /\ trade'.rev = trade.rev + 1 \/ (trade'.rev = trade.rev /\ Kind(e.cmd) \notin Increases)

LEMMA TradeReducedIs ==
  ASSUME TypeInv, NEW e, Reducible(e), Apply(e)
  PROVE  TradeReduced(e)
<1>1. trade' = TradeAfter(e) /\ trade \in TradeType
  BY DEF Apply, TypeInv
<1>2. CASE e.status \in {"ACK", "ACTIVE"}
  BY <1>1, <1>2, TradeAfterIs DEF TradeReduced
<1>3. CASE e.status \in {"CANCEL", "REJECT"}
  <2> DEFINE phase == IF e.status = "REJECT" /\ Kind(e.cmd) = "OPEN" THEN "REJECTED" ELSE "CANCELLED"
             ends == \/ e.status = "REJECT" /\ Kind(e.cmd) = "OPEN"
                     \/ Kind(e.cmd) \in {"OPEN", "CANCEL"} /\ trade.qty = 0
             ended == [trade EXCEPT !.phase = phase, !.rev = @ + 1]
  <2>1. trade' = TradeAfterRefusal(e)
    BY <1>1, <1>3 DEF TradeAfter
  <2>2. TradeAfterRefusal(e) = IF ends /\ trade.phase \notin Finished THEN ended ELSE trade
    BY DEF TradeAfterRefusal
  <2>3. phase \in {"REJECTED", "CANCELLED"}
    OBVIOUS
  <2> HIDE DEF phase
  <2>4. ended.phase = phase /\ ended.rev = trade.rev + 1 /\ ended.qty = trade.qty /\ ended.moving = trade.moving
    BY <1>1 DEF TradeType
  <2> HIDE DEF ended
  <2>5. CASE ends /\ trade.phase \notin Finished
    <3>1. trade' = ended
      BY <2>1, <2>2, <2>5
    <3> QED
      BY <1>3, <2>3, <2>4, <2>5, <3>1 DEF TradeReduced
  <2>6. CASE ~(ends /\ trade.phase \notin Finished)
    <3>1. trade' = trade
      BY <2>1, <2>2, <2>6
    <3> QED
      BY <1>3, <3>1 DEF TradeReduced
  <2> QED
    BY <2>5, <2>6
<1>4. CASE e.status = "FILL"
  <2> DEFINE kind == Kind(e.cmd)
             q == Left(e)
             phase == PhaseAfterFill(e, q)
             rev == IF kind \in {"CLOSE", "STOP"} /\ q > 0 THEN trade.rev ELSE trade.rev + 1
             entered == IF kind \in Increases THEN trade.entered + e.qty ELSE trade.entered
             taken == IF e.cmd = TargetHit THEN trade.taken + e.qty ELSE trade.taken
             basis == IF kind = "OPEN" THEN EntryStop ELSE AddStop
             stop == IF kind \in Increases THEN Larger(trade.stop, basis) ELSE trade.stop
             increased == IF kind \in Increases THEN e.bar ELSE trade.increased
             paid == IF kind \in Increases THEN e.price ELSE trade.paid
             executed == Larger(trade.executed, e.bar)
             after == [trade EXCEPT !.phase = phase, !.rev = rev, !.qty = q, !.entered = entered,
                                    !.taken = taken, !.stop = stop, !.increased = increased,
                                    !.paid = paid, !.executed = executed]
  <2>1. trade' = after
    BY <1>1, <1>4 DEF TradeAfter, TradeAfterFill
  <2>2. rev = trade.rev + 1 \/ (rev = trade.rev /\ kind \notin Increases)
    BY DEF Increases
  <2> HIDE DEF q, phase, rev, entered, taken, stop, increased, paid, executed
  <2>3. after.phase = phase /\ after.rev = rev /\ after.qty = q /\ after.moving = trade.moving
    BY <1>1 DEF TradeType
  <2> HIDE DEF after
  <2> QED
    BY <1>4, <2>1, <2>2, <2>3 DEF TradeReduced, q, phase
<1> QED
  BY <1>2, <1>3, <1>4 DEF Reducible, AnswerType

\* An event that is reduced with q left behind it, and what is known of it.
Handled(e, q) ==
  /\ Reducible(e)
  /\ e.cmd \in Commands => order[e.cmd].status \in Waiting
  /\ e.status = "FILL" => e.qty > 0
  /\ Grows(e) => ~Past
  /\ e.status \in {"ACK", "ACTIVE"} =>
       /\ order[e.cmd].kind # "CANCEL"
       /\ e.cmd \in WaitsIn(broker, due) \cup Told(q) /\ Told(Stream) \subseteq Told(q)
  /\ e.status = "ACK" /\ order[e.cmd].kind \in Increases => ~Past
  /\ e.status = "ACTIVE" => order[e.cmd].kind = "MOVESTOP"
  /\ e.status = "FILL" =>
       q = batch /\ Stream = batch /\ \E i \in 1..Len(batch) : batch[i] = e /\ \A j \in 1..i - 1 : Applied(batch[j])
  /\ e.cmd \in Commands /\ order[e.cmd].kind = "CANCEL" =>
       Of(WaitsIn(broker, due), Increases) = {} /\ \A i \in 1..Len(q) : ~Grows(q[i])
  /\ e.cmd \in WaitsIn(broker, due) => e.status \in {"ACK", "ACTIVE"}
  /\ \A i \in 1..Len(q) : q[i].cmd = e.cmd /\ e.cmd \in Commands => q[i] = e
  /\ Told(Stream) \subseteq Told(q) \cup {e.cmd}
  /\ EventsOK(q) /\ StreamOK(q, WaitsIn(broker, due), broker.answer) /\ RoomOK(broker, q, due)

\* What the event does to the trade.
TradeMoves(e) ==
  /\ trade.phase \in Finished => trade'.phase = trade.phase /\ trade'.qty = trade.qty
  /\ trade'.phase \in {"none", "ENTRY_PENDING"} => trade'.phase = trade.phase /\ trade'.rev = 0
  /\ trade'.qty > 0 => trade'.rev > 0
  /\ trade'.phase \in Manageable => trade'.qty > 0
  /\ trade'.phase \in Finished => trade'.qty = 0
  /\ trade'.phase = "REDUCING" => trade.phase = "REDUCING" \/ Reduces(e)
  /\ trade'.phase \in Finished =>
       \/ trade.phase \in Finished \/ Reduces(e)
       \/ e.status \in {"CANCEL", "REJECT"} /\ Kind(e.cmd) \in {"OPEN", "CANCEL"}
  /\ trade'.phase \in Live => trade.phase \in Live
  /\ trade.qty = 0 => trade'.qty = 0 \/ Grows(e)

LEMMA FillMoves ==
  ASSUME TypeInv, OutcomeInv, NEW e, NEW q, Handled(e, q), TradeReduced(e), e.status = "FILL"
  PROVE  TradeMoves(e)
<1> DEFINE kind == Kind(e.cmd)
           left == Left(e)
<1>1. /\ trade.phase \in Phases /\ trade.rev \in Nat /\ trade.qty \in Nat /\ e.qty \in Nat /\ e.qty > 0
  BY DEF TypeInv, TradeType, Handled, Reducible, AnswerType
<1>2. kind \in FillKinds
  BY KindIs DEF Handled
<1>3. /\ trade'.qty = left /\ trade'.phase = PhaseAfterFill(e, left)
      /\ trade'.rev = trade.rev + 1 \/ (trade'.rev = trade.rev /\ kind \notin Increases)
  BY DEF TradeReduced
<1>4. CASE kind \in Increases
  <2>1. Grows(e) /\ ~Past /\ e.cmd \in Commands
    BY <1>4, OwnIds DEF Grows, Handled, Kind, Increases, Reducible, AnswerType
  <2>2. trade.phase \notin Finished
    BY <2>1 DEF Past
  <2>3. left = trade.qty + e.qty
    BY <1>4 DEF Left
  <2>4. trade.phase # "none"
    BY <2>1 DEF Handled, Waiting, TypeInv, OrdersOK
  <2>5. trade'.phase = IF trade.phase = "REDUCING" THEN "REDUCING" ELSE IF kind = "OPEN" THEN "OPEN" ELSE "BUILDING"
    BY <1>3, <1>4 DEF PhaseAfterFill, Increases
  <2>6. trade'.qty > 0 /\ trade'.rev > 0
    BY <1>1, <1>3, <1>4, <2>3
  <2> HIDE DEF kind, left
  <2>7. trade'.phase \in Manageable /\ trade'.phase \notin Finished /\ trade'.phase \notin {"none", "ENTRY_PENDING"}
    BY <2>5 DEF Manageable, Finished
  <2>8. trade.phase \in Live
    BY <1>1, <2>2, <2>4 DEF Phases, Live
  <2>9. trade'.phase = "REDUCING" => trade.phase = "REDUCING"
    BY <2>5
  <2> QED
    BY <2>1, <2>2, <2>6, <2>7, <2>8, <2>9 DEF TradeMoves
<1>5. CASE kind \notin Increases
  <2>1. Reduces(e)
    BY <1>5 DEF Reduces
  <2>2. e.qty <= trade.qty /\ left = trade.qty - e.qty
    BY <1>5, <2>1 DEF Handled, Reducible, Held, Left
  <2>3. trade.qty > 0 /\ left \in Nat
    BY <1>1, <2>2
  <2>4. trade.rev > 0
    BY <2>3 DEF OutcomeInv, JournalOK
  <2>5. trade.phase \in Manageable
    BY <1>1, <2>3, <2>4 DEF OutcomeInv, JournalOK, Phases
  <2>6. kind \in {"CLOSE", "STOP", "REDUCE", "TARGET"}
    BY <1>2, <1>5 DEF FillKinds, Exits
  <2>7. trade'.phase = IF left = 0 THEN "CLOSED" ELSE IF kind \in {"REDUCE", "TARGET"} THEN "REDUCING" ELSE trade.phase
    BY <1>3, <2>3, <2>6 DEF PhaseAfterFill, Increases
  <2>8. trade'.qty = left /\ trade'.rev > 0
    BY <1>1, <1>3, <2>4
  <2> HIDE DEF kind, left
  <2>9. CASE left = 0
    BY <2>1, <2>3, <2>5, <2>7, <2>8, <2>9 DEF TradeMoves, Manageable, Finished, Live
  <2>10. CASE left # 0
    <3>1. trade'.phase \in Manageable /\ trade'.qty > 0
      BY <2>3, <2>5, <2>7, <2>8, <2>10 DEF Manageable
    <3>2. trade.phase \notin Finished /\ trade'.phase \notin Finished /\ trade.phase \in Live
          /\ trade'.phase \notin {"none", "ENTRY_PENDING"}
      BY <2>5, <3>1 DEF Manageable, Finished, Live
    <3> QED
      BY <2>1, <2>3, <2>8, <3>1, <3>2 DEF TradeMoves
  <2> QED
    BY <2>9, <2>10
<1> QED
  BY <1>4, <1>5

LEMMA HandledMoves ==
  ASSUME TypeInv, OutcomeInv, NEW e, NEW q, Handled(e, q), TradeReduced(e)
  PROVE  TradeMoves(e)
<1>1. trade.phase \in Phases /\ trade.rev \in Nat /\ trade.qty \in Nat
  BY DEF TypeInv, TradeType
<1>2. CASE trade' = trade
  BY <1>1, <1>2 DEF TradeMoves, OutcomeInv, JournalOK
<1>3. ASSUME e.status \in {"CANCEL", "REJECT"}, trade' # trade PROVE TradeMoves(e)
  <2>1. /\ trade.phase \notin Finished /\ trade'.phase \in {"REJECTED", "CANCELLED"}
        /\ trade'.rev = trade.rev + 1 /\ trade'.qty = trade.qty
        /\ \/ e.status = "REJECT" /\ Kind(e.cmd) = "OPEN"
           \/ Kind(e.cmd) \in {"OPEN", "CANCEL"} /\ trade.qty = 0
    BY <1>3 DEF TradeReduced
  <2>2. Kind(e.cmd) = "OPEN" => trade.qty = 0
    <3>1. e.cmd \in Commands
      BY <1>3 DEF Handled, Reducible
    <3>2. Kind(e.cmd) = order[e.cmd].kind
      BY <3>1, OwnIds DEF Kind
    <3> QED
      BY <3>1, <3>2 DEF Handled, OutcomeInv, JournalOK
  <2>3. trade.qty = 0
    BY <2>1, <2>2
  <2> QED
    BY <1>1, <1>3, <2>1, <2>3 DEF TradeMoves, Finished, Manageable, Live
<1>4. CASE e.status = "FILL"
  BY <1>4, FillMoves
<1> QED
  BY <1>2, <1>3, <1>4 DEF Handled, Reducible, AnswerType, TradeReduced

-----------------------------------------------------------------------------
(* A handled event keeps the invariant.                                    *)

\* What waits after an event waited before it.
LEMMA StillWaits ==
  ASSUME NEW e, NEW q, Handled(e, q), OrdersReduced(e), NEW c \in Commands, order'[c].status \in Waiting
  PROVE  /\ order[c].status \in Waiting /\ order'[c].filled = order[c].filled
         /\ c # e.cmd \/ e.status \in {"ACK", "ACTIVE"}
<1>1. c # e.cmd => order'[c].status = order[c].status /\ order'[c].filled = order[c].filled
  BY DEF OrdersReduced
<1>2. c = e.cmd => e.status \in {"ACK", "ACTIVE"}
  <2>1. e.status \in {"ACK", "ACTIVE", "FILL", "CANCEL", "REJECT"}
    BY DEF Handled, Reducible, AnswerType
  <2> QED
    BY <2>1 DEF OrdersReduced, Waiting
<1>3. c = e.cmd => order[c].status \in Waiting
  BY DEF Handled
<1>4. e.status \in {"ACK", "ACTIVE"} => order'[c].filled = order[c].filled
  BY DEF OrdersReduced
<1> QED
  BY <1>1, <1>2, <1>3, <1>4

LEMMA JournalHandled ==
  ASSUME TypeInv, OutcomeInv, NEW e, NEW q, Handled(e, q), OrdersReduced(e), TradeMoves(e),
         Ends(e) => trade'.phase \in Finished
  PROVE  JournalOK'
<1>1. \A c \in Commands : /\ order'[c].kind = order[c].kind /\ order'[c].size = order[c].size
                          /\ order'[c].outbox = order[c].outbox
  BY DEF OrdersReduced
<1>2. \A c \in Commands : order'[c].status \in Waiting =>
        /\ order[c].status \in Waiting /\ order'[c].filled = order[c].filled
        /\ c # e.cmd \/ e.status \in {"ACK", "ACTIVE"}
  BY StillWaits
<1>3. \A c \in Commands : order'[c].kind = "OPEN" /\ order'[c].status \in Waiting => trade'.qty = 0
  <2> SUFFICES ASSUME NEW c \in Commands, order[c].kind = "OPEN", order'[c].status \in Waiting, Grows(e)
               PROVE  FALSE
    BY <1>1, <1>2 DEF OutcomeInv, JournalOK, TradeMoves
  <2>1. order[c].status \in Waiting /\ c # e.cmd
    BY <1>2 DEF Grows
  <2>2. e.cmd \in Commands /\ Kind(e.cmd) = order[e.cmd].kind
    BY OwnIds DEF Grows, Handled, Reducible, AnswerType, Kind, Increases
  <2>3. order[e.cmd].kind \in {"OPEN", "ADD"}
    BY <2>2 DEF Grows, Increases
  <2> QED
    BY <2>1, <2>2, <2>3 DEF OutcomeInv, JournalOK
<1>4. \A c \in Of(Commands, Increases)' : order'[c].status \in Waiting =>
        order'[c].filled = 0 /\ (order'[c].reserved \/ trade'.phase \in Finished)
  <2> SUFFICES ASSUME NEW c \in Commands, order[c].kind \in Increases, order'[c].status \in Waiting
               PROVE  order'[c].filled = 0 /\ (order'[c].reserved \/ trade'.phase \in Finished)
    BY <1>1 DEF Of
  <2>1. order[c].status \in Waiting /\ order'[c].filled = order[c].filled
    BY <1>2
  <2>2. order[c].filled = 0 /\ (order[c].reserved \/ trade.phase \in Finished)
    BY <2>1 DEF OutcomeInv, JournalOK, Of
  <2>3. trade.phase \in Finished => trade'.phase \in Finished
    BY DEF TradeMoves
  <2>4. order[c].reserved => order'[c].reserved \/ Ends(e)
    BY DEF OrdersReduced
  <2> QED
    BY <2>1, <2>2, <2>3, <2>4
<1>5. \A c \in Commands : order'[c].kind \in {"ADD", "MOVESTOP"} \cup Exits =>
        trade'.phase \notin {"none", "ENTRY_PENDING"}
  BY <1>1 DEF OutcomeInv, JournalOK, TradeMoves
<1>6. \A c \in Commands : order'[c].kind = "CANCEL" => order'[c].status # "ACK"
  <2> SUFFICES ASSUME NEW c \in Commands, order[c].kind = "CANCEL", order'[c].status = "ACK"
               PROVE  FALSE
    BY <1>1
  <2>1. order[c].status # "ACK"
    BY DEF OutcomeInv, JournalOK
  <2>2. c = e.cmd /\ e.status \in {"ACK", "ACTIVE"}
    BY <1>2, <2>1 DEF OrdersReduced, Waiting
  <2> QED
    BY <2>2 DEF Handled
<1>7. /\ trade'.phase \in {"none", "ENTRY_PENDING"} => trade'.rev = 0
      /\ trade'.qty > 0 => trade'.rev > 0
      /\ trade'.phase \in Manageable => trade'.qty > 0
      /\ trade'.phase \in Finished => trade'.qty = 0
  BY DEF TradeMoves
<1>8. /\ \A c, d \in Commands : order'[c].kind = "OPEN" /\ order'[d].kind = "OPEN" => c = d
      /\ \A c, d \in Commands : order'[c].kind = "OPEN" /\ order'[d].kind = "ADD" => order'[c].status \notin Waiting
  BY <1>1, <1>2 DEF OutcomeInv, JournalOK
<1>9. \A c \in Commands : IF order'[c].kind = "none" THEN order'[c].outbox = "none" ELSE order'[c].size > 0
  BY <1>1 DEF OutcomeInv, JournalOK
<1> QED
  BY <1>3, <1>4, <1>5, <1>6, <1>7, <1>8, <1>9 DEF JournalOK

LEMMA AppliedHandled ==
  ASSUME TypeInv, OutcomeInv, NEW e, NEW q, Handled(e, q), OrdersReduced(e), Apply(e),
         \A c \in Commands : Confirms(c) => Confirms(c)', e.status = "ACTIVE" => Confirms(e.cmd)'
  PROVE  AppliedOK'
<1>1. \A c \in Commands : order'[c].kind = order[c].kind
                          /\ (order'[c].status \in Waiting => order[c].status \in Waiting)
  BY StillWaits DEF OrdersReduced
<1>2. ASSUME NEW x \in applied, x[1] \in Commands
      PROVE  /\ order'[x[1]].kind # "none"
             /\ x[2] \in {"FILL", "CANCEL", "REJECT"} => order'[x[1]].status \notin Waiting
             /\ x[2] = "ACTIVE" => Confirms(x[1])'
  <2> DEFINE c == x[1]
  <2>1. /\ order[c].kind # "none"
        /\ x[2] \in {"FILL", "CANCEL", "REJECT"} => order[c].status \notin Waiting
        /\ x[2] = "ACTIVE" => Confirms(c)
    BY <1>2 DEF OutcomeInv, AppliedOK
  <2>2. c \in Commands
    BY <1>2
  <2> HIDE DEF c
  <2>3. /\ order'[c].kind # "none"
        /\ x[2] \in {"FILL", "CANCEL", "REJECT"} => order'[c].status \notin Waiting
        /\ x[2] = "ACTIVE" => Confirms(c)'
    BY <1>1, <2>1, <2>2
  <2> QED
    BY <2>3 DEF c
<1>3. ASSUME e.cmd \in Commands
      PROVE  /\ order'[e.cmd].kind # "none"
             /\ e.status \in {"FILL", "CANCEL", "REJECT"} => order'[e.cmd].status \notin Waiting
             /\ e.status = "ACTIVE" => Confirms(e.cmd)'
  <2>1. order[e.cmd].kind # "none"
    BY <1>3 DEF Handled, Reducible, Kinds, Increases, Exits
  <2>2. e.status \in {"FILL", "CANCEL", "REJECT"} => order'[e.cmd].status \notin Waiting
    BY <1>3 DEF OrdersReduced, Waiting
  <2> QED
    BY <1>1, <1>3, <2>1, <2>2
<1>4. applied' = applied \cup {ExecutionId(e)}
  BY DEF Apply
<1>5. ExecutionId(e)[1] = e.cmd /\ ExecutionId(e)[2] = e.status
  BY DEF ExecutionId
<1> SUFFICES ASSUME NEW x \in applied', x[1] \in Commands
             PROVE  /\ order'[x[1]].kind # "none"
                    /\ x[2] \in {"FILL", "CANCEL", "REJECT"} => order'[x[1]].status \notin Waiting
                    /\ x[2] = "ACTIVE" => Confirms(x[1])'
  BY DEF AppliedOK
<1>6. CASE x \in applied
  BY <1>2, <1>6
<1>7. CASE x = ExecutionId(e)
  <2>1. x[1] = e.cmd /\ x[2] = e.status
    BY <1>5, <1>7
  <2> QED
    BY <1>3, <2>1
<1> QED
  BY <1>4, <1>6, <1>7

\* An event that ends the trade or begins to reduce it leaves no increase in the
\* broker, and none on its way that is not applied.
LEMMA PastHandled ==
  ASSUME TypeInv, OutcomeInv, NEW e, NEW q, Handled(e, q), TradeMoves(e), cut' = cut, Past'
  PROVE  /\ Of(WaitsIn(broker, due), Increases) = {}
         /\ \A i \in 1..Len(q) : Grows(q[i]) => Applied(q[i])
<1> DEFINE waits == WaitsIn(broker, due)
<1>0. /\ \A x \in Of(waits, Increases) : Room(q) /\ x \in Commands
      /\ \A i, j \in 1..Len(q) : Reduces(q[i]) /\ i < j => ~Grows(q[j])
      /\ Past => \A i \in 1..Len(q) : Grows(q[i]) => Applied(q[i])
      /\ \A i \in 1..Len(q) : q[i].cmd = e.cmd /\ e.cmd \in Commands => q[i] = e
  <2>1. waits \subseteq Commands
    BY StreamEvents DEF WaitsIn, BrokerType
  <2>2. RoomOK(broker, q, due) /\ StreamOK(q, waits, broker.answer)
    BY DEF Handled
  <2>3. \A i \in 1..Len(q) : q[i].cmd = e.cmd /\ e.cmd \in Commands => q[i] = e
    BY DEF Handled
  <2> QED
    BY <2>1, <2>2, <2>3 DEF RoomOK, StreamOK, Of
<1>1. CASE Past
  BY <1>0, <1>1 DEF Room
<1>2. CASE Reduces(e)
  <2>1. PICK k \in 1..Len(batch) : batch[k] = e /\ \A j \in 1..k - 1 : Applied(batch[j])
    BY <1>2 DEF Handled, Reduces
  <2>2. q = batch /\ Len(batch) \in Nat
    BY <1>2 DEF Handled, Reduces, TypeInv, BatchOK, EventsOK
  <2>3. Reduces(q[k])
    BY <1>2, <2>1, <2>2
  <2>4. Of(waits, Increases) = {}
    BY <1>0, <2>1, <2>2, <2>3 DEF Room
  <2>5. ASSUME NEW i \in 1..Len(q), Grows(q[i]) PROVE Applied(q[i])
    <3>1. ~(k < i) /\ i # k
      BY <1>0, <2>1, <2>2, <2>3, <2>5 DEF Grows, Reduces
    <3>2. i \in 1..k - 1
      BY <2>1, <2>2, <3>1
    <3> QED
      BY <2>1, <2>2, <3>2
  <2> QED
    BY <2>4, <2>5
<1>3. CASE e.status \in {"CANCEL", "REJECT"} /\ Kind(e.cmd) \in {"OPEN", "CANCEL"}
  <2>1. e.cmd \in Commands /\ Kind(e.cmd) = order[e.cmd].kind
    BY <1>3, OwnIds DEF Handled, Reducible, Kind
  <2>2. CASE order[e.cmd].kind = "CANCEL"
    BY <2>1, <2>2 DEF Handled
  <2>3. CASE order[e.cmd].kind = "OPEN"
    <3>1. \A x \in Commands : order[x].kind \in Increases => x = e.cmd
      BY <2>1, <2>3 DEF Handled, OutcomeInv, JournalOK, Increases
    <3>2. e.cmd \notin waits
      BY <1>3 DEF Handled
    <3>3. Of(waits, Increases) = {}
      BY <1>0, <3>1, <3>2 DEF Of
    <3>4. ASSUME NEW i \in 1..Len(q), Grows(q[i]) PROVE FALSE
      <4>1. q[i].cmd \in Commands \cup {StopHit, TargetHit}
        BY DEF Handled, EventsOK, EventOK, EventType
      <4>2. q[i].cmd \in Commands /\ order[q[i].cmd].kind \in Increases
        BY <3>4, <4>1, OwnIds DEF Grows, Kind, Increases
      <4>3. q[i] = e
        BY <1>0, <2>1, <3>1, <4>2
      <4> QED
        BY <1>3, <3>4, <4>3 DEF Grows
    <3> QED
      BY <3>3, <3>4
  <2> QED
    BY <1>3, <2>1, <2>2, <2>3
<1>4. Past \/ Reduces(e) \/ (e.status \in {"CANCEL", "REJECT"} /\ Kind(e.cmd) \in {"OPEN", "CANCEL"})
  BY DEF Past, TradeMoves
<1> QED
  BY <1>1, <1>2, <1>3, <1>4

\* What the reducer tells apart in an event does not change with it.
LEMMA EventsStay ==
  ASSUME TypeInv, NEW e, NEW q, EventsOK(q), OrdersReduced(e), Apply(e), NEW i \in 1..Len(q)
  PROVE  /\ (Reduces(q[i])' <=> Reduces(q[i])) /\ (Grows(q[i])' <=> Grows(q[i]))
         /\ Applied(q[i]) => Applied(q[i])'
         /\ q[i] = e => Applied(q[i])'
         /\ q[i].cmd \in Commands => /\ order'[q[i].cmd].kind = order[q[i].cmd].kind
                                     /\ q[i].cmd # e.cmd => order'[q[i].cmd].status = order[q[i].cmd].status
<1> DEFINE x == q[i]
<1>1. x.cmd \in Commands \cup {StopHit, TargetHit}
  BY DEF EventsOK, EventOK, EventType
<1>2. x.cmd \in Commands => /\ order'[x.cmd].kind = order[x.cmd].kind
                            /\ x.cmd # e.cmd => order'[x.cmd].status = order[x.cmd].status
  BY DEF OrdersReduced
<1> HIDE DEF x
<1>3. Kind(x.cmd)' = Kind(x.cmd)
  BY <1>1, <1>2, OwnIds DEF Kind
<1>4. (Reduces(x)' <=> Reduces(x)) /\ (Grows(x)' <=> Grows(x)) /\ ExecutionId(x)' = ExecutionId(x)
  BY <1>3 DEF Reduces, Grows, ExecutionId
<1>5. applied' = applied \cup {ExecutionId(e)}
  BY DEF Apply
<1>6. (Applied(x) => Applied(x)') /\ (x = e => Applied(x)')
  BY <1>4, <1>5 DEF Applied
<1> QED
  BY <1>2, <1>4, <1>6 DEF x

\* The broker's memory is as good as before, and so is the stream behind the event.
LEMMA MemoryHandled ==
  ASSUME TypeInv, OutcomeInv, NEW e, NEW q, Handled(e, q), OrdersReduced(e), broker' = broker, due' = due
  PROVE  MemoryOK(broker, due)'
<1>1. \A c \in Commands : order'[c].kind = order[c].kind /\ order'[c].outbox = order[c].outbox
  BY DEF OrdersReduced
<1>2. broker.sched \subseteq Commands /\ due \subseteq Commands
  BY StreamEvents DEF BrokerType
<1>3. \A c \in WaitsIn(broker, due) : order'[c].status \in Waiting
  <2> SUFFICES ASSUME NEW c \in WaitsIn(broker, due) PROVE order'[c].status \in Waiting
    OBVIOUS
  <2>1. c \in Commands /\ order[c].status \in Waiting
    BY <1>2 DEF OutcomeInv, MemoryOK, WaitsOK, WaitsIn
  <2>2. CASE c # e.cmd
    BY <2>1, <2>2 DEF OrdersReduced
  <2>3. CASE c = e.cmd
    <3>1. e.status \in {"ACK", "ACTIVE"}
      BY <2>3 DEF Handled
    <3> QED
      BY <2>1, <2>3, <3>1 DEF OrdersReduced, Waiting
  <2> QED
    BY <2>2, <2>3
<1>4. WaitsOK(broker, due)'
  BY <1>1, <1>2, <1>3 DEF OutcomeInv, MemoryOK, WaitsOK, WaitsIn
<1>5. SentOK(broker)'
  BY <1>1 DEF OutcomeInv, MemoryOK, SentOK
<1> QED
  BY <1>4, <1>5 DEF MemoryOK

LEMMA StreamHandled ==
  ASSUME TypeInv, OutcomeInv, NEW e, NEW q, Handled(e, q), OrdersReduced(e), Apply(e), TradeMoves(e),
         cut' = cut, broker' = broker, due' = due, Stream' = q
  PROVE  StreamOK(Stream, WaitsIn(broker, due), broker.answer)'
<1> DEFINE waits == WaitsIn(broker, due)
           answer == broker.answer
<1>1. /\ \A i, j \in 1..Len(q) : q[i].cmd = q[j].cmd /\ q[i].cmd \in Commands => i = j
      /\ \A i \in 1..Len(q) : q[i].cmd \in Commands =>
           /\ q[i].cmd \notin waits /\ answer[q[i].cmd] # "none"
           /\ order[q[i].cmd].kind # "CANCEL"
           /\ ~Applied(q[i]) => order[q[i].cmd].status \in Waiting
      /\ \A i, j \in 1..Len(q) : Reduces(q[i]) /\ i < j => ~Grows(q[j])
      /\ \A i \in 1..Len(q) : q[i].status = "FILL" => q[i].qty > 0
  BY DEF Handled, StreamOK
<1>2. \A i \in 1..Len(q) :
        /\ (Reduces(q[i])' <=> Reduces(q[i])) /\ (Grows(q[i])' <=> Grows(q[i]))
        /\ Applied(q[i]) => Applied(q[i])'
        /\ q[i] = e => Applied(q[i])'
        /\ q[i].cmd \in Commands => /\ order'[q[i].cmd].kind = order[q[i].cmd].kind
                                    /\ q[i].cmd # e.cmd => order'[q[i].cmd].status = order[q[i].cmd].status
  BY EventsStay DEF Handled
<1>3. Past' => \A i \in 1..Len(q) : Grows(q[i]) => Applied(q[i])
  BY PastHandled
<1>4. \A i \in 1..Len(q) : q[i].cmd = e.cmd /\ e.cmd \in Commands => q[i] = e
  BY DEF Handled
<1>5. waits' = waits /\ answer' = answer
  BY DEF WaitsIn
<1> HIDE DEF waits, answer
<1>6. \A i \in 1..Len(q) : q[i].cmd \in Commands =>
        /\ q[i].cmd \notin waits' /\ answer'[q[i].cmd] # "none"
        /\ order'[q[i].cmd].kind # "CANCEL"
        /\ ~Applied(q[i])' => order'[q[i].cmd].status \in Waiting
  BY <1>1, <1>2, <1>4, <1>5
<1>7. \A i, j \in 1..Len(q) : Reduces(q[i])' /\ i < j => ~Grows(q[j])'
  BY <1>1, <1>2
<1>8. Past' => \A i \in 1..Len(q) : Grows(q[i])' => Applied(q[i])'
  BY <1>2, <1>3
<1>9. StreamOK(q, waits, answer)'
  BY <1>1, <1>6, <1>7, <1>8 DEF StreamOK
<1> QED
  BY <1>9 DEF waits, answer

LEMMA RoomHandled ==
  ASSUME TypeInv, OutcomeInv, NEW e, NEW q, Handled(e, q), OrdersReduced(e), Apply(e), TradeMoves(e),
         cut' = cut, broker' = broker, due' = due, Stream' = q
  PROVE  RoomOK(broker, Stream, due)'
<1> DEFINE waits == WaitsIn(broker, due)
<1>1. waits \subseteq Commands /\ \A c \in Commands : order'[c].kind = order[c].kind
  BY StreamEvents DEF WaitsIn, BrokerType, OrdersReduced
<1>2. \A i \in 1..Len(q) : Reduces(q[i])' <=> Reduces(q[i])
  BY EventsStay DEF Handled
<1>3. \A c \in Of(waits, Increases) : Room(q) /\ (order[c].kind = "OPEN" => broker.rev = 0)
  BY DEF Handled, RoomOK
<1>4. Past' => Of(waits, Increases) = {}
  BY PastHandled
<1>5. waits' = waits
  BY DEF WaitsIn
<1> HIDE DEF waits
<1>6. \A c \in Of(waits, Increases) : Room(q)'
  BY <1>2, <1>3, <1>4 DEF Room
<1>7. \A c \in waits' : order'[c].kind \in Increases =>
        Room(q)' /\ (order'[c].kind = "OPEN" => broker'.rev = 0)
  BY <1>1, <1>3, <1>5, <1>6 DEF Of
<1> QED
  BY <1>7 DEF RoomOK, Of, waits

\* What the journal has seen accepted is looked after, after the event too.
LEMMA AttendedHandled ==
  ASSUME TypeInv, OutcomeInv, NEW e, NEW q, Handled(e, q), OrdersReduced(e), TradeMoves(e),
         pc # "down", broker' = broker, due' = due, Stream' = q,
         \A c \in Commands : Confirms(c) => Confirms(c)'
  PROVE  AttendedOK'
<1> DEFINE waits == WaitsIn(broker, due)
<1>1. waits' = waits
  BY DEF WaitsIn
<1> SUFFICES ASSUME trade'.phase \in Live, NEW c \in Commands, order'[c].status = "ACK", order'[c].outbox = "SENT"
             PROVE  c \in waits' \cup Told(Stream)' \/ (order'[c].kind = "MOVESTOP" /\ Confirms(c)')
  BY DEF AttendedOK, Accepted
<1>2. trade.phase \in Live
  BY DEF TradeMoves
<1>3. Told(Stream)' = Told(q)
  BY DEF Told
<1>4. order'[c].kind = order[c].kind /\ order'[c].outbox = order[c].outbox
  BY DEF OrdersReduced
<1>5. CASE c # e.cmd
  <2>1. c \in Accepted
    BY <1>4, <1>5 DEF Accepted, OrdersReduced
  <2>2. c \in waits \cup Told(Stream) \/ (order[c].kind = "MOVESTOP" /\ Confirms(c))
    BY <1>2, <2>1 DEF OutcomeInv, AttendedOK
  <2>3. Told(Stream) \subseteq Told(q) \cup {e.cmd}
    BY DEF Handled
  <2> HIDE DEF waits
  <2> QED
    BY <1>1, <1>3, <1>4, <1>5, <2>2, <2>3
<1>6. CASE c = e.cmd
  <2>1. e.status \in {"ACK", "ACTIVE"}
    BY <1>6, StillWaits DEF Waiting
  <2>2. c \in waits \cup Told(q)
    BY <1>6, <2>1 DEF Handled
  <2> HIDE DEF waits
  <2> QED
    BY <1>1, <1>3, <2>2
<1> QED
  BY <1>5, <1>6

\* In the first reduction's batch stands the outcome of every increase that was open.
LEMMA ReducingHandled ==
  ASSUME TypeInv, OutcomeInv, NEW e, NEW q, Handled(e, q), OrdersReduced(e), Apply(e), TradeMoves(e),
         pc # "down", cut' = cut, batch' = batch
  PROVE  ReducingOK'
<1> SUFFICES ASSUME trade'.phase = "REDUCING", "batch" \notin cut, NEW c \in Commands,
                    order'[c].status = "ACK", order'[c].outbox = "SENT", order'[c].kind \in Increases
             PROVE  c \in Told(batch)' /\ \E i \in 1..Len(batch) : batch[i].status = "FILL" /\ Applied(batch[i])'
  BY DEF ReducingOK, Accepted, Of
<1>1. Told(batch)' = Told(batch)
  BY DEF Told
<1>2. order[c].kind \in Increases /\ order[c].outbox = "SENT" /\ order[c].status \in Waiting
  BY StillWaits DEF OrdersReduced, Waiting
<1>3. EventsOK(batch)
  BY DEF TypeInv, BatchOK
<1>4. \A i \in 1..Len(batch) : (Applied(batch[i]) => Applied(batch[i])') /\ (batch[i] = e => Applied(batch[i])')
  <2>1. PICK r : r = batch
    OBVIOUS
  <2>2. \A i \in 1..Len(r) : (Applied(r[i]) => Applied(r[i])') /\ (r[i] = e => Applied(r[i])')
    BY <1>3, <2>1, EventsStay
  <2>3. \A i \in 1..Len(r) : batch'[i] = r[i]
    BY <2>1
  <2> QED
    BY <2>1, <2>2, <2>3 DEF Applied, ExecutionId, Kind
<1>5. c = e.cmd => e.status = "ACK"
  <2>1. c = e.cmd => e.status \in {"ACK", "ACTIVE"}
    BY StillWaits DEF Waiting
  <2> QED
    BY <1>2, <2>1 DEF Handled, Increases
<1>6. CASE trade.phase = "REDUCING"
  <2>1. Past
    BY <1>6 DEF Past
  <2>2. c # e.cmd
    BY <1>2, <1>5, <2>1 DEF Handled
  <2>3. c \in Of(Accepted, Increases)
    BY <1>2, <2>2 DEF Of, Accepted, OrdersReduced
  <2> QED
    BY <1>1, <1>4, <1>6, <2>3 DEF OutcomeInv, ReducingOK
<1>7. CASE Reduces(e)
  <2>1. PICK k \in 1..Len(batch) : batch[k] = e
    BY <1>7 DEF Handled, Reduces
  <2>2. q = batch /\ Stream = batch /\ e.status = "FILL"
    BY <1>7 DEF Handled, Reduces
  <2>3. c # e.cmd
    BY <1>5, <2>2
  <2>4. c \in Accepted
    BY <1>2, <2>3 DEF Accepted, OrdersReduced
  <2>5. trade.phase \in Live
    BY DEF TradeMoves, Live, Manageable
  <2>6. c \in WaitsIn(broker, due) \cup Told(batch)
    BY <1>2, <2>2, <2>4, <2>5 DEF OutcomeInv, AttendedOK, Increases
  <2>7. ~Room(q)
    BY <1>7, <2>1, <2>2 DEF Room
  <2>8. c \notin WaitsIn(broker, due)
    BY <1>2, <2>7 DEF Handled, RoomOK, Of
  <2>9. Applied(batch[k])' /\ batch[k].status = "FILL"
    BY <1>4, <2>1, <2>2
  <2> QED
    BY <1>1, <2>6, <2>8, <2>9
<1> QED
  BY <1>6, <1>7 DEF TradeMoves

\* The event is applied, and all parts of the invariant hold.
LEMMA HandledOutcome ==
  ASSUME TypeInv, OutcomeInv, NEW e, NEW q, Handled(e, q), Apply(e), pc # "down", cut' = cut,
         broker' = broker, due' = due, batch' = batch, Stream' = q, PlaceOK', FlightOK',
         \A c \in Commands : Confirms(c) => Confirms(c)', e.status = "ACTIVE" => Confirms(e.cmd)'
  PROVE  OutcomeInv' /\ OrdersReduced(e) /\ TradeMoves(e)
<1>1. Reducible(e)
  BY DEF Handled
<1>2. OrdersReduced(e) /\ TradeReduced(e)
  BY <1>1, OrdersReducedIs, TradeReducedIs
<1>3. TradeMoves(e)
  BY <1>2, HandledMoves
<1>4. Ends(e) => trade'.phase \in Finished
  BY DEF Ends, Apply
<1>5. JournalOK'
  BY <1>2, <1>3, <1>4, JournalHandled
<1>6. AppliedOK'
  BY <1>2, AppliedHandled
<1>7. MemoryOK(broker, due)'
  BY <1>2, MemoryHandled
<1>8. StreamOK(Stream, WaitsIn(broker, due), broker.answer)'
  BY <1>2, <1>3, StreamHandled
<1>9. RoomOK(broker, Stream, due)'
  BY <1>2, <1>3, RoomHandled
<1>10. AttendedOK'
  BY <1>2, <1>3, AttendedHandled
<1>11. ReducingOK'
  BY <1>2, <1>3, ReducingHandled
<1> QED
  BY <1>2, <1>3, <1>5, <1>6, <1>7, <1>8, <1>9, <1>10, <1>11 DEF OutcomeInv

-----------------------------------------------------------------------------
(* Steps that apply an event.                                              *)

\* What a step never does: reopen an outcome, or let the position grow once it
\* has begun to shrink.
KeepsOutcomes ==
  /\ trade.phase \in Finished => trade'.phase = trade.phase /\ trade'.qty = trade.qty
  /\ \A c \in Commands : order[c].status \in {"FILLED", "CANCEL", "REJECT"} =>
       order'[c].status = order[c].status
AddsNoMore == trade.phase = "REDUCING" /\ "batch" \notin cut => trade'.entered <= trade.entered

LEMMA EnteredIs ==
  ASSUME TypeInv, NEW e, Reducible(e), Apply(e), ~Grows(e)
  PROVE  trade'.entered = trade.entered
<1>1. trade' = TradeAfter(e) /\ trade \in TradeType
  BY DEF Apply, TypeInv
<1>2. CASE e.status \in {"ACK", "ACTIVE"}
  BY <1>1, <1>2, TradeAfterIs
<1>3. CASE e.status \in {"CANCEL", "REJECT"}
  <2>1. trade' = TradeAfterRefusal(e)
    BY <1>1, <1>3 DEF TradeAfter
  <2> QED
    BY <1>1, <2>1 DEF TradeAfterRefusal, TradeType
<1>4. CASE e.status = "FILL"
  <2> DEFINE kind == Kind(e.cmd)
             q == Left(e)
             phase == PhaseAfterFill(e, q)
             rev == IF kind \in {"CLOSE", "STOP"} /\ q > 0 THEN trade.rev ELSE trade.rev + 1
             entered == IF kind \in Increases THEN trade.entered + e.qty ELSE trade.entered
             taken == IF e.cmd = TargetHit THEN trade.taken + e.qty ELSE trade.taken
             basis == IF kind = "OPEN" THEN EntryStop ELSE AddStop
             stop == IF kind \in Increases THEN Larger(trade.stop, basis) ELSE trade.stop
             increased == IF kind \in Increases THEN e.bar ELSE trade.increased
             paid == IF kind \in Increases THEN e.price ELSE trade.paid
             executed == Larger(trade.executed, e.bar)
             after == [trade EXCEPT !.phase = phase, !.rev = rev, !.qty = q, !.entered = entered,
                                    !.taken = taken, !.stop = stop, !.increased = increased,
                                    !.paid = paid, !.executed = executed]
  <2>1. trade' = after
    BY <1>1, <1>4 DEF TradeAfter, TradeAfterFill
  <2>2. entered = trade.entered
    BY <1>4 DEF Grows
  <2> HIDE DEF q, phase, rev, entered, taken, stop, increased, paid, executed
  <2>3. after.entered = entered
    BY <1>1 DEF TradeType
  <2> HIDE DEF after
  <2> QED
    BY <2>1, <2>2, <2>3
<1> QED
  BY <1>2, <1>3, <1>4 DEF Reducible, AnswerType

LEMMA HandledKeeps ==
  ASSUME TypeInv, NEW e, NEW q, Handled(e, q), Apply(e), OrdersReduced(e), TradeMoves(e)
  PROVE  KeepsOutcomes /\ AddsNoMore
<1>1. KeepsOutcomes
  <2>1. \A c \in Commands : order[c].status \in {"FILLED", "CANCEL", "REJECT"} => c # e.cmd
    BY DEF Handled, Waiting
  <2> QED
    BY <2>1 DEF KeepsOutcomes, TradeMoves, OrdersReduced
<1>2. AddsNoMore
  <2> SUFFICES ASSUME trade.phase = "REDUCING", "batch" \notin cut PROVE trade'.entered <= trade.entered
    BY DEF AddsNoMore
  <2>1. ~Grows(e)
    BY DEF Past, Handled
  <2>2. trade'.entered = trade.entered
    BY <2>1, EnteredIs DEF Handled
  <2> QED
    BY <2>2 DEF TypeInv, TradeType
<1> QED
  BY <1>1, <1>2

LEMMA MovingStays ==
  ASSUME TypeInv, NEW e, Reducible(e), Apply(e), cut' = cut, pc # "confirm"
  PROVE  \A c \in Commands : Confirms(c) => Confirms(c)'
<1>1. trade'.moving = trade.moving
  BY TradeReducedIs DEF TradeReduced
<1> QED
  BY <1>1 DEF Confirms

LEMMA BatchStays ==
  ASSUME TypeInv, NEW e, Reducible(e), Apply(e), batch' = batch
  PROVE  \A i \in 1..Len(batch) : (Applied(batch[i]) => Applied(batch[i])') /\ (batch[i] = e => Applied(batch[i])')
<1>1. OrdersReduced(e) /\ EventsOK(batch)
  BY OrdersReducedIs DEF TypeInv, BatchOK
<1>2. PICK r : r = batch
  OBVIOUS
<1>3. \A i \in 1..Len(r) : (Applied(r[i]) => Applied(r[i])') /\ (r[i] = e => Applied(r[i])')
  BY <1>1, <1>2, EventsStay
<1>4. \A i \in 1..Len(r) : batch'[i] = r[i]
  BY <1>2
<1> QED
  BY <1>2, <1>3, <1>4 DEF Applied, ExecutionId, Kind

LEMMA WithdrawCancelOutcome ==
  ASSUME TypeInv, OutcomeInv, NEW c \in Commands, WithdrawCancel(c)
  PROVE  /\ OutcomeInv' /\ KeepsOutcomes /\ AddsNoMore
         /\ Handled(Event(c, "CANCEL", 0, 0, 0), Stream) /\ OrdersReduced(Event(c, "CANCEL", 0, 0, 0)) /\ TradeMoves(Event(c, "CANCEL", 0, 0, 0))
<1> USE DEF WithdrawCancel, memory
<1>1. PICK e : e = Event(c, "CANCEL", 0, 0, 0)
  OBVIOUS
<1>2. PICK q : q = Stream
  OBVIOUS
<1>3. /\ e.cmd = c /\ e.status = "CANCEL" /\ Apply(e) /\ Reducible(e)
  <2>1. Reducible(Event(c, "CANCEL", 0, 0, 0))
    BY CancelReducible DEF Undelivered, Of, Kinds
  <2> QED
    BY <1>1, <2>1 DEF Event
<1>4. order[c].kind \in Increases /\ order[c].status = "PENDING" /\ order[c].outbox = "UNDELIVERED"
  BY DEF Undelivered, Of
<1>5. broker.answer[c] = "none"
  BY <1>4 DEF OutcomeInv, MemoryOK, SentOK
<1>6. c \notin WaitsIn(broker, due)
  BY <1>5 DEF WaitsIn
<1>7. EventsOK(q) /\ StreamOK(q, WaitsIn(broker, due), broker.answer) /\ RoomOK(broker, q, due)
  BY <1>2, StreamEvents DEF OutcomeInv
<1>8. \A i \in 1..Len(q) : q[i].cmd # c
  BY <1>5, <1>7 DEF StreamOK
<1>9. Told(Stream) \subseteq Told(q) \cup {e.cmd}
  BY <1>2
<1>10. ~Grows(e) /\ order[c].kind # "CANCEL" /\ order[c].status \in Waiting
  BY <1>3, <1>4 DEF Grows, Waiting, Increases
<1>11. Handled(e, q)
  BY <1>3, <1>6, <1>7, <1>8, <1>9, <1>10 DEF Handled
<1>12. \A x \in Commands : Confirms(x) => Confirms(x)'
  BY <1>3, MovingStays
<1>13. PlaceOK'
  <2>1. \A i \in 1..done : Applied(batch[i])'
    BY <1>3, BatchStays DEF OutcomeInv, PlaceOK, TypeInv, BatchOK
  <2> QED
    BY <2>1 DEF OutcomeInv, PlaceOK, Simulating
<1>14. FlightOK'
  BY DEF FlightOK
<1>15. Stream' = q /\ cut' = cut /\ broker' = broker /\ due' = due /\ batch' = batch /\ pc # "down"
  BY <1>2 DEF Stream
<1>16. OutcomeInv' /\ OrdersReduced(e) /\ TradeMoves(e)
  BY <1>3, <1>11, <1>12, <1>13, <1>14, <1>15, HandledOutcome
<1> QED
  BY <1>1, <1>2, <1>3, <1>11, <1>16, HandledKeeps

LEMMA ConsumeOutcome ==
  ASSUME TypeInv, OutcomeInv, Consume
  PROVE  /\ OutcomeInv' /\ KeepsOutcomes /\ AddsNoMore
         /\ Handled(Upcoming, batch) /\ OrdersReduced(Upcoming) /\ TradeMoves(Upcoming)
<1> USE DEF Consume, HasNext
<1> DEFINE k == done + 1
<1>1. PICK e : e = Upcoming
  OBVIOUS
<1>2. PICK q : q = batch
  OBVIOUS
<1>3. EventOK(e) /\ k \in 1..Len(batch) /\ e = batch[k] /\ e = q[k] /\ Apply(e) /\ ~Applied(e) /\ Applicable(e)
  BY <1>1, <1>2, UpcomingOK DEF Upcoming
<1>4. Reducible(e)
  BY <1>3 DEF Reducible, EventOK, EventType, AnswerType, Applicable
<1>5. done \in Nat /\ 1..k - 1 = 1..done /\ \A i \in 1..done : Applied(batch[i])
  BY DEF OutcomeInv, PlaceOK, TypeInv, BatchOK
<1>6. Stream = batch /\ Told(Stream) = Told(q)
  BY <1>2, <1>3 DEF Stream, TypeInv, BatchOK, EventsOK
<1>7. EventsOK(q) /\ StreamOK(q, WaitsIn(broker, due), broker.answer) /\ RoomOK(broker, q, due)
  BY <1>2, <1>6, StreamEvents DEF OutcomeInv
<1>8. e.cmd \in Commands => /\ e.cmd \notin WaitsIn(broker, due)
                            /\ order[e.cmd].kind # "CANCEL" /\ order[e.cmd].status \in Waiting
                            /\ e.cmd \in Told(q)
  BY <1>2, <1>3, <1>7 DEF StreamOK, Told
<1>9. (e.status = "FILL" => e.qty > 0) /\ (Grows(e) => ~Past)
  BY <1>2, <1>3, <1>7 DEF StreamOK
<1>10. \A i \in 1..Len(q) : q[i].cmd = e.cmd /\ e.cmd \in Commands => q[i] = e
  BY <1>2, <1>3, <1>7 DEF StreamOK
<1>11. e.status # "ACK" /\ (e.status = "ACTIVE" => order[e.cmd].kind = "MOVESTOP" /\ e.cmd \in Commands)
  BY <1>3 DEF EventOK, EventType
<1>12. WaitsIn(broker, due) \subseteq Commands
  BY StreamEvents DEF WaitsIn, BrokerType
<1>13. \E i \in 1..Len(batch) : batch[i] = e /\ \A j \in 1..i - 1 : Applied(batch[j])
  BY <1>3, <1>5
<1> HIDE DEF k
<1>14. Handled(e, q)
  BY <1>2, <1>4, <1>6, <1>7, <1>8, <1>9, <1>10, <1>11, <1>12, <1>13 DEF Handled
<1>15. \A x \in Commands : Confirms(x) => Confirms(x)'
  BY <1>3, <1>4, MovingStays
<1>16. e.status = "ACTIVE" => Confirms(e.cmd)'
  BY <1>1, <1>3 DEF Confirms, k
<1>17. PlaceOK'
  <2>1. \A i \in 1..Len(batch) : (Applied(batch[i]) => Applied(batch[i])') /\ (batch[i] = e => Applied(batch[i])')
    BY <1>3, <1>4, BatchStays
  <2>2. \A i \in 1..done' : i = k \/ i \in 1..done
    BY <1>5 DEF k
  <2>3. \A i \in 1..done : i \in 1..Len(batch)
    BY DEF TypeInv, BatchOK
  <2>4. \A i \in 1..done' : Applied(batch[i])'
    BY <1>3, <1>5, <2>1, <2>2, <2>3
  <2> QED
    BY <2>4 DEF OutcomeInv, PlaceOK, Simulating
<1>18. FlightOK'
  BY DEF FlightOK
<1>19. Stream' = q /\ cut' = cut /\ broker' = broker /\ due' = due /\ batch' = batch /\ pc # "down"
  BY <1>2, <1>6 DEF Stream
<1>20. OutcomeInv' /\ OrdersReduced(e) /\ TradeMoves(e)
  BY <1>3, <1>14, <1>15, <1>16, <1>17, <1>18, <1>19, HandledOutcome
<1> QED
  BY <1>1, <1>2, <1>3, <1>14, <1>20, HandledKeeps

LEMMA ConsumeAnswerOutcome ==
  ASSUME TypeInv, OutcomeInv, ConsumeAnswer
  PROVE  /\ OutcomeInv' /\ KeepsOutcomes /\ AddsNoMore
         /\ Handled(inflight, queue) /\ OrdersReduced(inflight) /\ TradeMoves(inflight)
<1> USE DEF ConsumeAnswer
<1>1. PICK e : e = inflight
  OBVIOUS
<1>2. PICK q : q = queue
  OBVIOUS
<1>3. Reducible(e) /\ Apply(e) /\ e.cmd \in Commands /\ order[e.cmd].status \in Waiting
  BY <1>1, InflightReducible DEF TypeInv, InflightOK, Waiting
<1>4. batch = <<>> /\ due = {} /\ Stream = q /\ Stream' = q
  BY <1>2 DEF OutcomeInv, PlaceOK, Stream, Simulating
<1>5. EventsOK(q) /\ StreamOK(q, WaitsIn(broker, due), broker.answer) /\ RoomOK(broker, q, due)
  BY <1>4, StreamEvents DEF OutcomeInv
<1>6. \A i \in 1..Len(q) : q[i].status = "CANCEL"
  BY <1>2 DEF TypeInv, QueueOK, Simulating
<1>7. /\ e.cmd \notin Told(q) /\ broker.answer[e.cmd] = e.status
      /\ e.status \in {"ACK", "CANCEL", "REJECT"}
      /\ e.status = "ACK" => e.cmd \in broker.sched
      /\ order[e.cmd].kind = "CANCEL" => e.status # "ACK" /\ Of(broker.sched, Increases) = {}
      /\ order[e.cmd].kind \in Increases => ~Past
  BY <1>1, <1>2 DEF OutcomeInv, FlightOK
<1>8. e.status = "ACK" => e.cmd \in WaitsIn(broker, due)
  BY <1>7 DEF WaitsIn
<1>9. e.cmd \in WaitsIn(broker, due) => e.status = "ACK"
  BY <1>7 DEF WaitsIn
<1>10. Of(broker.sched, Increases) = {} => Of(WaitsIn(broker, due), Increases) = {}
  BY <1>4 DEF WaitsIn, Of
<1>11. ~Grows(e) /\ \A i \in 1..Len(q) : ~Grows(q[i])
  BY <1>6, <1>7 DEF Grows
<1>12. \A i \in 1..Len(q) : q[i].cmd # e.cmd
  BY <1>3, <1>7 DEF Told
<1>13. Told(Stream) \subseteq Told(q)
  BY <1>4
<1>14. Handled(e, q)
  BY <1>3, <1>5, <1>7, <1>8, <1>9, <1>10, <1>11, <1>12, <1>13 DEF Handled
<1>15. \A x \in Commands : Confirms(x) => Confirms(x)'
  BY <1>3, MovingStays
<1>16. PlaceOK'
  <2>1. \A i \in 1..done' : FALSE
    BY <1>4 DEF TypeInv, BatchOK
  <2> QED
    BY <1>4, <2>1 DEF OutcomeInv, PlaceOK, Simulating
<1>17. FlightOK'
  BY DEF FlightOK
<1>18. cut' = cut /\ broker' = broker /\ due' = due /\ batch' = batch /\ pc # "down" /\ e.status # "ACTIVE"
  BY <1>7
<1>19. OutcomeInv' /\ OrdersReduced(e) /\ TradeMoves(e)
  BY <1>3, <1>4, <1>14, <1>15, <1>16, <1>17, <1>18, HandledOutcome
<1> QED
  BY <1>1, <1>2, <1>3, <1>14, <1>19, HandledKeeps

LEMMA DrainQueueOutcome ==
  ASSUME TypeInv, OutcomeInv, DrainQueue
  PROVE  /\ OutcomeInv' /\ KeepsOutcomes /\ AddsNoMore
         /\ Handled(Head(queue), Tail(queue)) /\ OrdersReduced(Head(queue)) /\ TradeMoves(Head(queue))
<1> USE DEF DrainQueue, Decides
<1>1. PICK e : e = Head(queue)
  OBVIOUS
<1>2. PICK p : p = queue
  OBVIOUS
<1>3. PICK q : q = Tail(p)
  OBVIOUS
<1>4. Reducible(e) /\ e.status = "CANCEL" /\ Apply(e) /\ ~Applied(e)
  BY <1>1, HeadReducible DEF Simulating
<1>5. batch = <<>> /\ due = {} /\ Stream = p /\ Stream' = q
  BY <1>2, <1>3 DEF OutcomeInv, PlaceOK, Stream, Simulating
<1>6. EventsOK(p) /\ StreamOK(p, WaitsIn(broker, due), broker.answer) /\ RoomOK(broker, p, due)
  BY <1>5, StreamEvents DEF OutcomeInv
<1>7. p \in Seq(EventType) /\ p # <<>> /\ e = p[1] /\ 1 \in 1..Len(p)
  BY <1>1, <1>2, <1>6 DEF EventsOK
<1>8. /\ q \in Seq(EventType) /\ Len(q) = Len(p) - 1
      /\ \A i \in 1..Len(q) : i + 1 \in 1..Len(p) /\ q[i] = p[i + 1] /\ i + 1 # 1
  BY <1>3, <1>7
<1>9. e.cmd \in Commands /\ e.cmd \notin WaitsIn(broker, due) /\ order[e.cmd].kind # "CANCEL"
      /\ order[e.cmd].status \in Waiting
  BY <1>4, <1>6, <1>7 DEF Reducible, StreamOK
<1>10. \A i \in 1..Len(q) : q[i].cmd # e.cmd
  BY <1>6, <1>7, <1>8, <1>9 DEF StreamOK
<1>11. EventsOK(q)
  BY <1>6, <1>8 DEF EventsOK
<1>12. \A i, j \in 1..Len(q) : i < j => i + 1 < j + 1
  BY <1>8
<1>13. StreamOK(q, WaitsIn(broker, due), broker.answer)
  <2> DEFINE waits == WaitsIn(broker, due)
             answer == broker.answer
  <2>1. StreamOK(p, waits, answer)
    BY <1>6
  <2> HIDE DEF waits, answer
  <2>2. \A i, j \in 1..Len(q) : q[i].cmd = q[j].cmd /\ q[i].cmd \in Commands => i = j
    BY <1>8, <2>1 DEF StreamOK
  <2>3. \A i \in 1..Len(q) : q[i].cmd \in Commands =>
          /\ q[i].cmd \notin waits /\ answer[q[i].cmd] # "none"
          /\ order[q[i].cmd].kind # "CANCEL"
          /\ ~Applied(q[i]) => order[q[i].cmd].status \in Waiting
    BY <1>8, <2>1 DEF StreamOK
  <2>4. \A i, j \in 1..Len(q) : Reduces(q[i]) /\ i < j => ~Grows(q[j])
    BY <1>8, <1>12, <2>1 DEF StreamOK
  <2>5. \A i \in 1..Len(q) : q[i].status = "FILL" => q[i].qty > 0
    BY <1>8, <2>1 DEF StreamOK
  <2>6. Past => \A i \in 1..Len(q) : Grows(q[i]) => Applied(q[i])
    BY <1>8, <2>1 DEF StreamOK
  <2>7. StreamOK(q, waits, answer)
    BY <2>2, <2>3, <2>4, <2>5, <2>6 DEF StreamOK
  <2> QED
    BY <2>7 DEF waits, answer
<1>14. RoomOK(broker, q, due)
  BY <1>6, <1>8 DEF RoomOK, Room
<1>15. Told(Stream) \subseteq Told(q) \cup {e.cmd}
  <2> SUFFICES ASSUME NEW c \in Told(p), c # e.cmd PROVE c \in Told(q)
    BY <1>5
  <2>1. PICK i \in 1..Len(p) : p[i].cmd = c
    BY DEF Told
  <2>2. c \in Commands /\ i # 1
    BY <1>7, <2>1 DEF Told
  <2>3. i - 1 \in 1..Len(q) /\ i - 1 + 1 = i
    BY <1>7, <1>8, <2>1, <2>2
  <2>4. q[i - 1].cmd = c
    BY <1>8, <2>1, <2>3
  <2> QED
    BY <2>2, <2>3, <2>4 DEF Told
<1>16. ~Grows(e)
  BY <1>4 DEF Grows
<1>17. Handled(e, q)
  BY <1>4, <1>9, <1>10, <1>11, <1>13, <1>14, <1>15, <1>16 DEF Handled
<1>18. \A x \in Commands : Confirms(x) => Confirms(x)'
  BY <1>4, MovingStays
<1>19. PlaceOK'
  <2>1. \A i \in 1..done' : FALSE
    BY <1>5 DEF TypeInv, BatchOK
  <2> QED
    BY <1>5, <2>1 DEF OutcomeInv, PlaceOK, Simulating
<1>20. FlightOK'
  BY DEF FlightOK
<1>21. cut' = cut /\ broker' = broker /\ due' = due /\ batch' = batch /\ pc # "down" /\ e.status # "ACTIVE"
  BY <1>4
<1>22. OutcomeInv' /\ OrdersReduced(e) /\ TradeMoves(e)
  BY <1>4, <1>5, <1>17, <1>18, <1>19, <1>20, <1>21, HandledOutcome
<1> QED
  BY <1>1, <1>2, <1>3, <1>4, <1>17, <1>22, HandledKeeps

\* A stop is confirmed: the journal waits for none any more.
LEMMA ConfirmStopOutcome ==
  ASSUME TypeInv, OutcomeInv, ConfirmStop
  PROVE  OutcomeInv' /\ trade'.phase = trade.phase /\ trade'.qty = trade.qty /\ trade'.entered = trade.entered
<1> USE DEF ConfirmStop, memory
<1> DEFINE e == batch[done]
           stop == order[e.cmd].level
           executed == Larger(trade.executed, e.bar)
<1>1. trade' = [trade EXCEPT !.stop = stop, !.moving = 0, !.rev = @ + 1, !.executed = executed]
  OBVIOUS
<1> HIDE DEF stop, executed
<1>2. /\ trade'.phase = trade.phase /\ trade'.qty = trade.qty /\ trade'.entered = trade.entered
      /\ trade'.moving = 0 /\ trade'.rev = trade.rev + 1 /\ trade.rev \in Nat
  BY <1>1 DEF TypeInv, TradeType
<1>3. order' = order /\ applied' = applied /\ cut' = cut /\ broker' = broker /\ due' = due
      /\ batch' = batch /\ done' = done /\ queue' = queue /\ Stream' = Stream /\ pc = "confirm" /\ pc' = "commit"
  BY DEF Stream
<1>4. trade.phase \notin {"none", "ENTRY_PENDING"}
  <2>1. done \in 1..Len(batch) /\ batch[done].status = "ACTIVE" /\ EventsOK(batch)
    BY DEF TypeInv, BatchOK
  <2>2. EventOK(e) /\ e.status = "ACTIVE"
    BY <2>1 DEF EventsOK
  <2>3. e.cmd \in Commands /\ order[e.cmd].kind = "MOVESTOP"
    BY <2>2 DEF EventOK
  <2> QED
    BY <2>3 DEF OutcomeInv, JournalOK
<1>5. \A c \in Commands : Confirms(c)'
  BY <1>2 DEF Confirms, Commands
<1>6. OrdersKept /\ (Past' => Past)
  BY <1>2, <1>3 DEF OrdersKept, Past
<1>7. /\ EventsOK(Stream') /\ SentOK(broker)' /\ WaitsOK(broker', due') /\ RoomOK(broker', Stream', due')
      /\ StreamOK(Stream', WaitsIn(broker', due'), broker'.answer)
      /\ broker' \in BrokerType /\ due' \subseteq Commands
  BY <1>3, StreamEvents DEF OutcomeInv, MemoryOK, SentOK
<1>8. /\ AppliedOK' /\ MemoryOK(broker, due)'
      /\ StreamOK(Stream, WaitsIn(broker, due), broker.answer)' /\ RoomOK(broker, Stream, due)'
  BY <1>3, <1>5, <1>6, <1>7, OrdersMove
<1>9. JournalOK'
  BY <1>2, <1>3, <1>4 DEF OutcomeInv, JournalOK, Of
<1>10. AttendedOK' /\ ReducingOK'
  <2>1. Accepted' \subseteq Accepted
    BY <1>3 DEF Accepted
  <2>2. WaitsIn(broker, due) \cup Told(Stream) \subseteq WaitsIn(broker', due') \cup Told(Stream')
    BY <1>3
  <2> QED
    BY <1>2, <1>3, <1>5, <1>6, <2>1, <2>2, AttendedMove, ReducingMove
<1>11. PlaceOK' /\ FlightOK'
  BY <1>3 DEF OutcomeInv, PlaceOK, FlightOK, Applied, ExecutionId, Kind, Simulating
<1> QED
  BY <1>2, <1>8, <1>9, <1>10, <1>11 DEF OutcomeInv

-----------------------------------------------------------------------------
(* Every step.                                                             *)

LEMMA StutterOutcome ==
  ASSUME OutcomeInv, UNCHANGED vars
  PROVE  OutcomeInv'
<1> USE DEF vars, journal, memory
<1>1. SameJournal /\ cut \subseteq cut' /\ \A c \in Commands : Confirms(c) => Confirms(c)'
  BY DEF SameJournal, SameTrade, Confirms
<1>2. PlaceOK' /\ FlightOK'
  BY DEF OutcomeInv, PlaceOK, FlightOK, Applied, ExecutionId, Kind, Told, Of, Past
<1> QED
  BY <1>1, <1>2, QuietKeeps

LEMMA NextOutcome ==
  ASSUME TypeInv, OutcomeInv, OneOpenIncrease, Next
  PROVE  OutcomeInv'
<1>1. CASE \E b \in Bars : BarCloses(b)
  BY <1>1, BarClosesOutcome
<1>2. CASE StepBegins \/ WithdrawEnds \/ WithdrawFails \/ StepEnds
  BY <1>2, MovesOnOutcome
<1>3. CASE WithdrawMark \/ \E c \in Commands : WithdrawCancel(c)
  BY <1>3, WithdrawMarkOutcome, WithdrawCancelOutcome
<1>4. CASE TrackBegins \/ Simulation
  BY <1>4, TrackBeginsOutcome, OpeningOutcome, ProtectionOutcome, DrainOutcome, TakeMoveOutcome,
     TakeExitOutcome, FillAtOpenOutcome, LimitExpiresOutcome, LimitWaitsOutcome, FillAtLimitOutcome
     DEF Simulation
<1>5. CASE Journalling
  BY <1>5, ConsumeOutcome, CommitOutcome, ConfirmStopOutcome, CommitEndsOutcome DEF Journalling
<1>6. CASE Deciding
  BY <1>6, SubmitPlanOutcome, SubmitsOutcome DEF Deciding
<1>7. CASE Delivering
  BY <1>7, DeliverOutcome, MarkSentOutcome, ConsumeAnswerOutcome, AnswerFailsOutcome, DrainQueueOutcome
     DEF Delivering
<1>8. CASE Crash \/ Recover
  BY <1>8, CrashOutcome, RecoverOutcome
<1> QED
  BY <1>1, <1>2, <1>3, <1>4, <1>5, <1>6, <1>7, <1>8 DEF Next

LEMMA OutcomeInvCorrect == Spec => [](TypeInv /\ OutcomeInv)
<1>1. Init => OutcomeInv
  BY InitOutcome
<1>2. TypeInv /\ OneOpenIncrease /\ OutcomeInv /\ [Next]_vars => OutcomeInv'
  BY NextOutcome, StutterOutcome
<1> QED
  BY <1>1, <1>2, TypeInvCorrect, OneOpenIncreaseCorrect, PTL DEF Spec

\* A step that applies no event leaves outcomes and what was entered alone.
LEMMA QuietSteps ==
  ASSUME TypeInv, trade'.phase = trade.phase \/ trade.phase = "none",
         trade.phase = "none" \/ (trade'.qty = trade.qty /\ trade'.entered = trade.entered),
         \A c \in Commands : order[c].status # "none" => order'[c].status = order[c].status
  PROVE  KeepsOutcomes /\ AddsNoMore
<1>1. trade.entered \in Nat
  BY DEF TypeInv, TradeType
<1> QED
  BY <1>1 DEF KeepsOutcomes, AddsNoMore, Finished

LEMMA NextKeeps ==
  ASSUME TypeInv, OutcomeInv, OneOpenIncrease, [Next]_vars
  PROVE  KeepsOutcomes /\ AddsNoMore
<1> DEFINE Same == \A c \in Commands : order'[c].status = order[c].status
<1>1. CASE order' = order /\ trade' = trade
  BY <1>1, QuietSteps
<1>2. CASE trade' = trade /\ Same
  BY <1>2, QuietSteps
<1>3. CASE Consume \/ ConsumeAnswer \/ DrainQueue \/ \E c \in Commands : WithdrawCancel(c)
  BY <1>3, ConsumeOutcome, ConsumeAnswerOutcome, DrainQueueOutcome, WithdrawCancelOutcome
<1>4. CASE ConfirmStop
  <2>1. order' = order
    BY <1>4 DEF ConfirmStop
  <2> QED
    BY <1>4, <2>1, ConfirmStopOutcome, QuietSteps
<1>5. CASE CommitEnds
  <2>1. order' = order /\ trade'.phase = trade.phase /\ trade'.qty = trade.qty /\ trade'.entered = trade.entered
    BY <1>5 DEF CommitEnds, TypeInv, TradeType
  <2> QED
    BY <2>1, QuietSteps
<1>6. CASE WithdrawMark
  <2>1. Same /\ trade' = trade
    BY <1>6, WithdrawMarkOK DEF WithdrawMark
  <2> QED
    BY <1>2, <2>1
<1>7. CASE MarkSent
  <2>1. Same /\ trade' = trade
    BY <1>7, OutboxOK DEF MarkSent, TypeInv, InflightOK
  <2> QED
    BY <1>2, <2>1
<1>8. ASSUME NEW c \in Commands, NEW d \in Delays, Deliver(c, d) PROVE KeepsOutcomes /\ AddsNoMore
  <2>1. Same /\ trade' = trade
    BY <1>8, OutboxOK DEF Deliver
  <2> QED
    BY <1>2, <2>1
<1>9. CASE Recover
  <2>1. Same /\ trade' = trade
    BY <1>9, RecoverOrders DEF Recover
  <2> QED
    BY <1>2, <2>1
<1>10. CASE Deciding
  <2>1. PICK c \in Commands : \/ SubmitPlan(c) \/ SubmitAdd(c) \/ SubmitClose(c) \/ SubmitReduce(c)
                              \/ \E level \in StopLevels : SubmitMove(c, level)
                              \/ \E late \in BOOLEAN : SubmitCancel(c, late)
    BY <1>10 DEF Deciding
  <2>2. PICK kind, size, level, late : Insert(c, kind, size, level, late)
    BY <2>1 DEF SubmitPlan, SubmitAdd, SubmitClose, SubmitReduce, SubmitMove, SubmitCancel
  <2>3. Adds(c, kind, size)
    BY <2>2, InsertIs
  <2>4. \A x \in Commands : order[x].status # "none" => order'[x].status = order[x].status
    BY <2>3 DEF Adds, TypeInv, OrdersOK
  <2>5. SubmitPlan(c) => trade.phase = "none"
    BY DEF SubmitPlan
  <2>6. ~SubmitPlan(c) => trade' = trade \/ \E n : trade' = [trade EXCEPT !.moving = n]
    BY <2>1 DEF SubmitAdd, SubmitClose, SubmitReduce, SubmitMove, SubmitCancel
  <2>7. ~SubmitPlan(c) => trade'.phase = trade.phase /\ trade'.qty = trade.qty /\ trade'.entered = trade.entered
    BY <2>6 DEF TypeInv, TradeType
  <2> QED
    BY <2>4, <2>5, <2>7, QuietSteps
<1>11. CASE (\E b \in Bars : BarCloses(b)) \/ StepBegins \/ WithdrawEnds \/ WithdrawFails
            \/ TrackBegins \/ ConsumeAgain \/ Refused \/ CommitFails \/ AnswerFails \/ StepEnds \/ Crash
            \/ UNCHANGED vars
  BY <1>1, <1>11 DEF BarCloses, StepBegins, WithdrawEnds, WithdrawFails, TrackBegins, ConsumeAgain,
     Refused, CommitFails, AnswerFails, StepEnds, Crash, journal, vars
<1>12. CASE Simulation
  BY <1>1, <1>12 DEF Simulation, Opening, Protection, Drain, TakeMove, TakeExit, FillAtOpen,
     LimitExpires, LimitWaits, FillAtLimit, Simulates, journal
<1> QED
  BY <1>3, <1>4, <1>5, <1>6, <1>7, <1>8, <1>9, <1>10, <1>11, <1>12 DEF Next, Journalling, Delivering

\* No event, late, repeated after a failed write or simulated again after a
\* death, changes the phase or the quantity of a finished trade or the outcome of
\* an order (ExecutionReducer.apply with _update_terminal_outcome).
THEOREM OutcomesAreFinalCorrect == Spec => OutcomesAreFinal
<1>1. TypeInv /\ OutcomeInv /\ OneOpenIncrease /\ [Next]_vars =>
        [/\ trade.phase \in Finished => trade'.phase = trade.phase /\ trade'.qty = trade.qty
         /\ \A c \in Commands : order[c].status \in {"FILLED", "CANCEL", "REJECT"} =>
              order'[c].status = order[c].status]_vars
  BY NextKeeps DEF KeepsOutcomes
<1> QED
  BY <1>1, OutcomeInvCorrect, OneOpenIncreaseCorrect, PTL DEF Spec, OutcomesAreFinal

\* Once the journal has applied a reduction it applies no increase, whichever
\* bars are simulated again and whichever answers come late, unless a death or a
\* failed write tore the batch of that bar (JournalBroker._cancel_increases).
THEOREM AddsStopAtReductionCorrect == Spec => AddsStopAtReduction
<1>1. TypeInv /\ OutcomeInv /\ OneOpenIncrease /\ [Next]_vars =>
        [trade.phase = "REDUCING" /\ "batch" \notin cut => trade'.entered <= trade.entered]_vars
  BY NextKeeps DEF AddsNoMore
<1> QED
  BY <1>1, OutcomeInvCorrect, OneOpenIncreaseCorrect, PTL DEF Spec, AddsStopAtReduction

\* The broker can fill one increase at most, and every increase the journal waits
\* for keeps its risk reserved (_release_reservations_if_terminal, the schedule of
\* JournalBroker).
THEOREM IncreaseIsCoveredCorrect == Spec => []IncreaseIsCovered
<1>1. TypeInv /\ OutcomeInv /\ OneOpenIncrease => IncreaseIsCovered
  <2> SUFFICES ASSUME TypeInv, OutcomeInv, OneOpenIncrease PROVE IncreaseIsCovered
    OBVIOUS
  <2>1. ASSUME NEW c \in Of(broker.sched \cup due, Increases),
               broker.answer[c] \notin {"FILL", "CANCEL", "REJECT"}
        PROVE  c \in Of(Commands, Increases) /\ order[c].status \in Waiting
    <3>1. c \in Commands /\ order[c].kind \in Increases
      BY <2>1, StreamEvents DEF Of, BrokerType
    <3>2. broker.answer[c] = "ACK"
      BY <2>1 DEF Of, OutcomeInv, MemoryOK, WaitsOK
    <3>3. c \in WaitsIn(broker, due)
      BY <2>1, <3>2 DEF Of, WaitsIn
    <3> QED
      BY <3>1, <3>3 DEF Of, OutcomeInv, MemoryOK, WaitsOK
  <2>2. \A c, d \in Of(broker.sched \cup due, Increases) :
          {broker.answer[c], broker.answer[d]} \cap {"FILL", "CANCEL", "REJECT"} = {} => c = d
    BY <2>1 DEF OneOpenIncrease
  <2>3. \A c \in Of(Commands, Increases) :
          order[c].status \in Waiting /\ trade.phase \notin Finished => order[c].reserved
    BY DEF OutcomeInv, JournalOK
  <2> QED
    BY <2>2, <2>3 DEF IncreaseIsCovered
<1> QED
  BY <1>1, OutcomeInvCorrect, OneOpenIncreaseCorrect, PTL

\* What the broker accepted and the journal has seen accepted waits in the broker
\* whenever nothing is on its way between them, after any restart too
\* (load_trades, resume_trade); a stop waits there unless it is in force.
THEOREM AcceptedWaitsCorrect == Spec => []AcceptedWaits
<1>1. TypeInv /\ OutcomeInv => AcceptedWaits
  <2> SUFFICES ASSUME TypeInv, OutcomeInv, Settled, trade.phase \in Live,
                      NEW c \in Commands, order[c].status = "ACK", order[c].outbox = "SENT"
               PROVE  \/ c \in broker.sched
                      \/ order[c].kind = "MOVESTOP" /\ (trade.moving # c \/ "stop" \in cut)
    BY DEF AcceptedWaits
  <2>1. pc \in {"idle", "work"} /\ Stream = <<>> /\ due = {}
    BY DEF Settled, Stream, OutcomeInv, PlaceOK, Simulating
  <2>2. Told(Stream) = {}
    BY <2>1 DEF Told
  <2>3. c \in WaitsIn(broker, due) \cup Told(Stream) \/ (order[c].kind = "MOVESTOP" /\ Confirms(c))
    BY <2>1 DEF OutcomeInv, AttendedOK, Accepted
  <2> QED
    BY <2>1, <2>2, <2>3 DEF WaitsIn, Confirms
<1> QED
  BY <1>1, OutcomeInvCorrect, PTL
=============================================================================
