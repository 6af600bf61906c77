--------------------------- MODULE TradeBookProofs ---------------------------
(***************************************************************************)
(* The broker's book and the journal's agree, and the journal never takes  *)
(* more than it holds: theorems of TradeExecution for any number of        *)
(* commands, bars and faults, any bars, sizes and prices.                  *)
(*                                                                         *)
(* The events on their way are a road (RoadOK): a book for every place     *)
(* between them, from the journal's to the broker's, each turned into the  *)
(* next by the event that is still to be applied and kept by one that is   *)
(* not.  A death takes the broker's end of the road away, and the bar is  *)
(* simulated again from what was journalled of it.  An execution that was  *)
(* journalled before is not applied again (Applied), so the book it comes  *)
(* from must not expect it to be: TakenOK, AgainOK and TargetsIn say of    *)
(* the target, the one reduction that does not end the trade, that the     *)
(* second simulation finds nothing left to take, or makes an event the     *)
(* journal has not seen.                                                   *)
(*                                                                         *)
(* The bars the simulation looked at come last (GuardInv): behind the      *)
(* protection of a bar, and so of the last one observed, a position still  *)
(* open stands above its stop and has taken its share, unless it grew      *)
(* inside that very bar.                                                   *)
(***************************************************************************)
EXTENDS TradeExecutionProofs
-----------------------------------------------------------------------------
(* Two books and the events between them.                                  *)

\* What both sides keep of the position.
Books == [qty : Nat, entered : Nat, taken : Nat, stop : Nat, rev : Nat]
Book(x) == [qty |-> x.qty, entered |-> x.entered, taken |-> x.taken, stop |-> x.stop, rev |-> x.rev]

\* The stop and the revision are the same while no failure has come between.
StopKept == trade.phase \in Live /\ "stop" \notin cut
RevKept  == /\ trade.phase \in Live /\ cut \cap {"stop", "answer"} = {}
            /\ ~(pc \in {"sent", "answer"} /\ inflight.status = "CANCEL" /\ trade.qty = 0)
Alike(k, l) ==
  /\ k.qty = l.qty /\ k.entered = l.entered /\ k.taken = l.taken
  /\ StopKept => k.stop = l.stop
  /\ RevKept => k.rev = l.rev

\* What an event makes of a book, in the broker first and in the journal later.
Basis(c) == IF order[c].kind = "OPEN" THEN EntryStop ELSE AddStop
Turned(e, k) ==
  CASE Grows(e) -> [k EXCEPT !.qty = @ + e.qty, !.entered = @ + e.qty,
                             !.stop = Larger(@, Basis(e.cmd)), !.rev = @ + 1]
    [] Reduces(e) -> [k EXCEPT !.qty = @ - e.qty, !.taken = IF e.cmd = TargetHit THEN @ + e.qty ELSE @,
                               !.stop = IF e.qty = k.qty THEN 0 ELSE @, !.rev = @ + 1]
    [] e.status = "ACTIVE" -> [k EXCEPT !.stop = order[e.cmd].level, !.rev = @ + 1]
    [] OTHER -> k

\* A reduction takes what is there, a close all of it, the target its share.
Takes(e, k) ==
  Reduces(e) =>
    /\ e.qty <= k.qty
    /\ Kind(e.cmd) \in {"CLOSE", "STOP"} => e.qty = k.qty
    /\ e.cmd = TargetHit =>
         /\ k.taken + e.qty <= Share(k.entered)
         /\ k.taken + e.qty = Share(k.entered) \/ e.qty = k.qty

\* The events whose part in the journal is still to come.
Pending(q) == {i \in 1..Len(q) : ~Applied(q[i]) \/ (pc = "confirm" /\ i = done)}
Reached == IF pc = "confirm" THEN done - 1 ELSE done

\* p leads through the events q to the book b, which nothing reopens once it is empty.
Leads(p, q, b) ==
  /\ p \in [0..Len(q) -> Books] /\ Alike(p[Len(q)], b)
  /\ \A i \in 0..Reached : Alike(p[i], trade)
  /\ \A i \in 1..Len(q) :
       IF i \in Pending(q)
         THEN /\ Takes(q[i], p[i - 1]) /\ Alike(p[i], Turned(q[i], p[i - 1]))
              /\ Reduces(q[i]) /\ p[i].qty = 0 => b.qty = 0
         ELSE Alike(p[i], p[i - 1])

Outside == batch = <<>> /\ pc \notin Simulating
Behind == pc \in {"limits", "commit", "confirm"} \/ batch # <<>>
Before == ~Behind /\ pc # "down"
Road(b, q) == b.known => \E p \in [0..Len(q) -> Books] : Leads(p, q, b)
RoadOK == IF Outside THEN broker.known => Alike(trade, broker) ELSE Road(broker, Stream)

-----------------------------------------------------------------------------
(* Positions.                                                              *)

Zero(x) == x.qty = 0 /\ x.entered = 0 /\ x.taken = 0 /\ x.stop = 0 /\ x.rev = 0
Unopened == trade.phase \in {"none", "ENTRY_PENDING"}

\* An entry is in the broker alone only if this broker filled it.
HoldsOK(b, q) ==
  /\ ~b.known => Zero(b) /\ q = <<>>
  /\ trade.phase \in Finished => b.qty = 0
  /\ b.qty > 0 => b.stop > 0 /\ (trade.qty > 0 \/ \E c \in Of(Commands, {"OPEN"}) : b.answer[c] = "FILL")

RowsOK ==
  /\ Unopened => Zero(trade) /\ trade.executed = 0 /\ trade.observed = 0 /\ trade.increased = 0
  /\ trade.qty > 0 => trade.stop > 0
  /\ \A c \in Of(Commands, {"MOVESTOP"}) : order[c].level > 0
  /\ \A x \in applied :
       /\ x[1] = StopHit => trade.phase \in Finished
       /\ x[1] = TargetHit => ~Unopened /\ x[2] = "FILL" /\ x[3] \in 0..trade.executed
       /\ x[1] \in Commands /\ x[2] = "ACTIVE" => order[x[1]].kind = "MOVESTOP" /\ order[x[1]].status # "PENDING"

KnownOK ==
  /\ trade.phase \in Live /\ pc # "down" => broker.known
  /\ trade.phase = "none" => ~broker.known

\* The bar that a restart would begin with.
ClockOK ==
  /\ trade.increased <= trade.executed
  /\ {trade.executed, trade.observed, cursor} \subseteq 0..Len(bars)
  /\ trade.phase \in Manageable => trade.executed > 0 /\ (pc # "down" => cursor = Boundary)
  /\ pc \in Simulating \/ Behind => cursor < Len(bars)
  /\ pc # "down" => trade.executed <= cursor + 1
  /\ pc \in {"sent", "answer"} => cursor = Len(bars)

\* Executions are of the bar in hand, each of the broker's own closes comes once,
\* and what ends the entry or the position is the last of it.
OwnOK(b, q) ==
  /\ \A i \in 1..Len(q) : q[i].status \in {"FILL", "ACTIVE"} => q[i].bar = cursor + 1
  /\ \A i, j \in 1..Len(q) : q[i].cmd = q[j].cmd => i = j \/ q[i].cmd \in Commands
  /\ \A i \in 1..Len(q) : q[i].cmd = StopHit => b.qty = 0
  /\ \A i \in 1..Len(q) : q[i].status \in {"CANCEL", "REJECT"} /\ q[i].cmd \in Of(Commands, {"OPEN"}) => b.qty = 0
  /\ b.opened <= cursor + 1

-----------------------------------------------------------------------------
(* The target is taken once in a bar.                                      *)

\* An increase that cannot be filled at the open of t.
Blocked(c, since, t) == since > t \/ t >= since + Ttl \/ bars[t].open > Limit(c)
Taken(t) == <<TargetHit, "FILL", t>> \in applied

TakenOK(t) == Taken(t) =>
  /\ \/ trade.taken >= Share(trade.entered)
     \/ trade.increased = t /\ trade.paid # bars[t].open
  /\ \A c \in Of(Accepted, Increases) : Blocked(c, order[c].since, t)
TargetOK == trade.phase \in Manageable => TakenOK(Boundary + 1)

AgainOK(b, rest) == Taken(cursor + 1) /\ trade.phase \in Manageable =>
  \A c \in Of(WaitsIn(b, rest), Increases) : Blocked(c, b.since[c], cursor + 1)
TargetsIn(q) ==
  /\ Taken(cursor + 1) /\ trade.phase \in Manageable =>
       \A i \in 1..Len(q) : Grows(q[i]) /\ ~Applied(q[i]) => q[i].price # bars[cursor + 1].open
  /\ \A i \in 1..Len(q) : q[i].cmd = TargetHit =>
       \A c \in Of(Accepted, Increases) :
         Blocked(c, order[c].since, cursor + 1) \/ \E j \in 1..i - 1 : q[j].cmd = c

\* The broker remembers when what it holds was accepted.
SinceOK ==
  /\ \A c \in Of(Accepted, Increases) : c \in WaitsIn(broker, due) => broker.since[c] = order[c].since
  /\ pc \in {"sent", "answer"} /\ inflight.status = "ACK" => inflight.bar = broker.since[inflight.cmd]
  /\ pc \in Simulating => \A c \in due : broker.since[c] <= cursor + 1
  /\ \A c \in WaitsIn(broker, due) : (\E x \in applied : x[1] = c /\ x[2] = "ACTIVE") => "stop" \in cut

\* Until the protection of a bar.
BeforeOK(b, q) ==
  /\ \A i \in 1..Len(q) : q[i].cmd # TargetHit
  /\ b.known /\ (\A i \in 1..Len(q) : ~Grows(q[i])) =>
       /\ b.entered = trade.entered /\ b.taken = trade.taken
       /\ trade.phase \in Manageable /\ trade.increased = cursor + 1 =>
            b.opened = trade.increased /\ b.paid = trade.paid
  /\ Taken(cursor + 1) /\ trade.phase \in Manageable => \A i \in 1..Len(q) : ~Grows(q[i])
  /\ (b.opened <= cursor \/ b.opened = trade.increased)
StagesOK == Before => BeforeOK(broker, queue)
            /\ (pc \in Simulating => \A c \in broker.sched : broker.since[c] > cursor + 1)

BookInv ==
  /\ RoadOK /\ HoldsOK(broker, Stream) /\ RowsOK /\ KnownOK /\ ClockOK /\ OwnOK(broker, Stream)
  /\ TargetOK /\ AgainOK(broker, due) /\ TargetsIn(Stream) /\ SinceOK /\ StagesOK

-----------------------------------------------------------------------------
(* Events and books.                                                       *)

\* A fill either grows the position or reduces it; nothing else does.
LEMMA EventIs ==
  ASSUME TypeInv, NEW e, EventOK(e)
  PROVE  /\ e.qty \in Nat /\ e.bar \in Nat /\ Basis(e.cmd) \in Nat \ {0}
         /\ e.status = "FILL" <=> Grows(e) \/ Reduces(e)
         /\ ~(Grows(e) /\ Reduces(e))
         /\ Grows(e) => e.cmd \in Commands
         /\ e.cmd \notin Commands => Reduces(e)
         /\ e.status = "ACTIVE" => e.cmd \in Commands /\ order[e.cmd].kind = "MOVESTOP" /\ order[e.cmd].level \in Nat
         /\ e.status \in {"ACTIVE", "FILL", "CANCEL", "REJECT"}
<1>1. e \in EventType /\ (e.status # "FILL" => e.cmd \in Commands)
  BY DEF EventOK
<1>2. Basis(e.cmd) \in Nat \ {0}
  BY PricesAssumption DEF Basis
<1>3. e.status = "ACTIVE" => e.cmd \in Commands /\ order[e.cmd].kind = "MOVESTOP" /\ order[e.cmd].level \in Nat
  BY <1>1 DEF EventOK, TypeInv, OrdersOK, OrderType
<1>4. e.cmd \notin Commands => e.status = "FILL" /\ Kind(e.cmd) \in {"STOP", "TARGET"}
  BY <1>1 DEF EventType, Kind
<1>5. Kind(e.cmd) \in {"STOP", "TARGET"} => Kind(e.cmd) \notin Increases
  BY DEF Increases
<1> QED
  BY <1>1, <1>2, <1>3, <1>4, <1>5 DEF Grows, Reduces, EventType

LEMMA LargerIs ==
  ASSUME NEW a \in Nat, NEW b \in Nat
  PROVE  Larger(a, b) \in Nat /\ Larger(a, b) >= a /\ Larger(a, b) >= b
  BY DEF Larger

\* The fields of a turned book.
LEMMA TurnedIs ==
  ASSUME TypeInv, NEW e, EventOK(e), NEW k \in Books, Takes(e, k)
  PROVE  LET n == Turned(e, k) IN
         /\ n \in Books
         /\ Grows(e) => /\ n.qty = k.qty + e.qty /\ n.entered = k.entered + e.qty /\ n.taken = k.taken
                        /\ n.stop = Larger(k.stop, Basis(e.cmd)) /\ n.rev = k.rev + 1
         /\ Reduces(e) => /\ n.qty = k.qty - e.qty /\ n.entered = k.entered
                          /\ n.taken = IF e.cmd = TargetHit THEN k.taken + e.qty ELSE k.taken
                          /\ n.stop = IF e.qty = k.qty THEN 0 ELSE k.stop
                          /\ n.rev = k.rev + 1
         /\ e.status = "ACTIVE" => /\ n.qty = k.qty /\ n.entered = k.entered /\ n.taken = k.taken
                                   /\ n.stop = order[e.cmd].level /\ n.rev = k.rev + 1
         /\ e.status \in {"CANCEL", "REJECT"} => n = k
<1>0. /\ e.qty \in Nat /\ Basis(e.cmd) \in Nat /\ (e.status = "FILL" <=> Grows(e) \/ Reduces(e))
      /\ ~(Grows(e) /\ Reduces(e)) /\ e.status \in {"ACTIVE", "FILL", "CANCEL", "REJECT"}
      /\ (e.status = "ACTIVE" => order[e.cmd].level \in Nat)
  BY EventIs
<1>1. k.qty \in Nat /\ k.entered \in Nat /\ k.taken \in Nat /\ k.stop \in Nat /\ k.rev \in Nat
  BY DEF Books
<1>2. CASE Grows(e)
  <2> DEFINE qty == k.qty + e.qty
             entered == k.entered + e.qty
             stop == Larger(k.stop, Basis(e.cmd))
             rev == k.rev + 1
             n == [k EXCEPT !.qty = qty, !.entered = entered, !.stop = stop, !.rev = rev]
  <2>1. Turned(e, k) = n
    BY <1>0, <1>2 DEF Turned
  <2>2. stop \in Nat /\ qty \in Nat /\ entered \in Nat /\ rev \in Nat
    <3>1. Larger(k.stop, Basis(e.cmd)) \in Nat
      BY <1>0, <1>1, LargerIs
    <3>2. k.qty + e.qty \in Nat /\ k.entered + e.qty \in Nat /\ k.rev + 1 \in Nat
      BY <1>0, <1>1
    <3> QED
      BY <3>1, <3>2
  <2> HIDE DEF stop, qty, entered, rev
  <2>3. /\ n \in Books /\ n.qty = qty /\ n.entered = entered /\ n.taken = k.taken
        /\ n.stop = stop /\ n.rev = rev
    BY <2>2 DEF Books
  <2> HIDE DEF n
  <2> QED
    BY <1>0, <1>2, <2>1, <2>3 DEF stop, qty, entered, rev
<1>3. CASE Reduces(e)
  <2> DEFINE taken == IF e.cmd = TargetHit THEN k.taken + e.qty ELSE k.taken
             stop == IF e.qty = k.qty THEN 0 ELSE k.stop
             qty == k.qty - e.qty
             rev == k.rev + 1
             n == [k EXCEPT !.qty = qty, !.taken = taken, !.stop = stop, !.rev = rev]
  <2>1. Turned(e, k) = n
    BY <1>0, <1>3 DEF Turned
  <2>2. stop \in Nat /\ taken \in Nat /\ qty \in Nat /\ rev \in Nat
    BY <1>0, <1>1, <1>3 DEF Takes
  <2> HIDE DEF stop, taken, qty, rev
  <2>3. /\ n \in Books /\ n.qty = qty /\ n.entered = k.entered /\ n.taken = taken
        /\ n.stop = stop /\ n.rev = rev
    BY <2>2 DEF Books
  <2> HIDE DEF n
  <2> QED
    BY <1>0, <1>3, <2>1, <2>3 DEF stop, taken, qty, rev
<1>4. CASE e.status = "ACTIVE"
  <2> DEFINE level == order[e.cmd].level
             rev == k.rev + 1
             n == [k EXCEPT !.stop = level, !.rev = rev]
  <2>1. Turned(e, k) = n
    BY <1>0, <1>4 DEF Turned
  <2>2. level \in Nat /\ rev \in Nat
    BY <1>0, <1>1, <1>4
  <2> HIDE DEF level, rev
  <2>3. /\ n \in Books /\ n.qty = k.qty /\ n.entered = k.entered /\ n.taken = k.taken
        /\ n.stop = level /\ n.rev = rev
    BY <2>2 DEF Books
  <2> HIDE DEF n
  <2> QED
    BY <1>0, <1>4, <2>1, <2>3 DEF level, rev
<1>5. CASE e.status \in {"CANCEL", "REJECT"}
  <2>1. Turned(e, k) = k
    BY <1>0, <1>5 DEF Turned
  <2> QED
    BY <1>0, <1>5, <2>1
<1> QED
  BY <1>0, <1>2, <1>3, <1>4, <1>5

\* What turns one book turns another like it the same way.
LEMMA AlikeTurns ==
  ASSUME TypeInv, NEW e, EventOK(e), NEW k \in Books, NEW l \in Books, Alike(k, l), Takes(e, l)
  PROVE  Takes(e, k) /\ Alike(Turned(e, k), Turned(e, l))
<1>1. k.qty = l.qty /\ k.entered = l.entered /\ k.taken = l.taken
      /\ (StopKept => k.stop = l.stop) /\ (RevKept => k.rev = l.rev)
  BY DEF Alike
<1>2. Takes(e, k)
  BY <1>1 DEF Takes
<1> DEFINE m == Turned(e, k)
           n == Turned(e, l)
<1>3. CASE Grows(e)
  <2>1. /\ m.qty = k.qty + e.qty /\ m.entered = k.entered + e.qty /\ m.taken = k.taken
        /\ m.stop = Larger(k.stop, Basis(e.cmd)) /\ m.rev = k.rev + 1
    BY <1>2, <1>3, TurnedIs
  <2>2. /\ n.qty = l.qty + e.qty /\ n.entered = l.entered + e.qty /\ n.taken = l.taken
        /\ n.stop = Larger(l.stop, Basis(e.cmd)) /\ n.rev = l.rev + 1
    BY <1>3, TurnedIs
  <2> QED
    BY <1>1, <1>2, <2>1, <2>2 DEF Alike
<1>4. CASE Reduces(e)
  <2>1. /\ m.qty = k.qty - e.qty /\ m.entered = k.entered
        /\ m.taken = IF e.cmd = TargetHit THEN k.taken + e.qty ELSE k.taken
        /\ m.stop = IF e.qty = k.qty THEN 0 ELSE k.stop
        /\ m.rev = k.rev + 1
    BY <1>2, <1>4, TurnedIs
  <2>2. /\ n.qty = l.qty - e.qty /\ n.entered = l.entered
        /\ n.taken = IF e.cmd = TargetHit THEN l.taken + e.qty ELSE l.taken
        /\ n.stop = IF e.qty = l.qty THEN 0 ELSE l.stop
        /\ n.rev = l.rev + 1
    BY <1>4, TurnedIs
  <2> QED
    BY <1>1, <1>2, <2>1, <2>2 DEF Alike
<1>5. CASE e.status = "ACTIVE"
  <2>1. /\ m.qty = k.qty /\ m.entered = k.entered /\ m.taken = k.taken
        /\ m.stop = order[e.cmd].level /\ m.rev = k.rev + 1
    BY <1>2, <1>5, TurnedIs
  <2>2. /\ n.qty = l.qty /\ n.entered = l.entered /\ n.taken = l.taken
        /\ n.stop = order[e.cmd].level /\ n.rev = l.rev + 1
    BY <1>5, TurnedIs
  <2> QED
    BY <1>1, <1>2, <2>1, <2>2 DEF Alike
<1>6. CASE e.status \in {"CANCEL", "REJECT"}
  <2>1. m = k /\ n = l
    BY <1>2, <1>6, TurnedIs
  <2> QED
    BY <1>2, <2>1
<1> QED
  BY <1>3, <1>4, <1>5, <1>6, EventIs

LEMMA BookIs ==
  ASSUME NEW b \in BrokerType
  PROVE  /\ Book(b) \in Books
         /\ Book(b).qty = b.qty /\ Book(b).entered = b.entered /\ Book(b).taken = b.taken
         /\ Book(b).stop = b.stop /\ Book(b).rev = b.rev
  BY DEF Book, Books, BrokerType

-----------------------------------------------------------------------------
(* Books that are alike, and the events between them.                      *)

LEMMA AlikeIs ==
  ASSUME NEW k, NEW l, NEW m
  PROVE  /\ Alike(k, k)
         /\ Alike(k, l) => Alike(l, k)
         /\ Alike(k, l) /\ Alike(l, m) => Alike(k, m)
  BY DEF Alike

LEMMA AlikeBooks ==
  ASSUME NEW k, NEW b
  PROVE  (Alike(k, Book(b)) <=> Alike(k, b)) /\ (Alike(Book(b), k) <=> Alike(b, k))
<1>1. /\ Book(b).qty = b.qty /\ Book(b).entered = b.entered /\ Book(b).taken = b.taken
      /\ Book(b).stop = b.stop /\ Book(b).rev = b.rev
  BY DEF Book
<1> QED
  BY <1>1 DEF Alike

\* A failure, or the end of the trade, only lets the books differ more.
Looser == (StopKept' => StopKept) /\ (RevKept' => RevKept)

LEMMA AlikeStays ==
  ASSUME NEW k, NEW l, Alike(k, l), Looser
  PROVE  Alike(k, l)'
  BY DEF Alike, Looser

\* The orders keep what an event reads of them.
RowsSame == \A c \in Commands : order'[c].kind = order[c].kind /\ order'[c].level = order[c].level

LEMMA SameEvents ==
  ASSUME RowsSame, NEW e, EventOK(e)
  PROVE  /\ Kind(e.cmd)' = Kind(e.cmd) /\ (Grows(e)' <=> Grows(e)) /\ (Reduces(e)' <=> Reduces(e))
         /\ ExecutionId(e)' = ExecutionId(e)
         /\ \A k : Takes(e, k)' <=> Takes(e, k)
         /\ \A k : Turned(e, k)' = Turned(e, k)
<1>1. e.cmd \in Commands \cup {StopHit, TargetHit} /\ (e.status = "ACTIVE" => e.cmd \in Commands)
  BY DEF EventOK, EventType
<1>2. Kind(e.cmd)' = Kind(e.cmd)
  BY <1>1, OwnIds DEF Kind, RowsSame
<1>3. (Grows(e)' <=> Grows(e)) /\ (Reduces(e)' <=> Reduces(e)) /\ ExecutionId(e)' = ExecutionId(e)
  BY <1>2 DEF Grows, Reduces, ExecutionId
<1>4. \A k : Takes(e, k)' <=> Takes(e, k)
  BY <1>2, <1>3 DEF Takes
<1>5. Grows(e) => Basis(e.cmd)' = Basis(e.cmd)
  <2>1. Grows(e) => e.cmd \in Commands
    BY <1>1, OwnIds DEF Grows, Kind, Increases
  <2> QED
    BY <2>1 DEF Basis, RowsSame
<1>6. e.status = "ACTIVE" => order'[e.cmd].level = order[e.cmd].level
  BY <1>1 DEF RowsSame
<1>7. ASSUME NEW k PROVE Turned(e, k)' = Turned(e, k)
  <2>1. CASE Grows(e)
    <3>1. PICK s : s = Basis(e.cmd)
      OBVIOUS
    <3>2. Basis(e.cmd)' = s /\ Grows(e)' /\ ~Reduces(e) /\ ~Reduces(e)' /\ e.status # "ACTIVE"
      BY <1>3, <1>5, <2>1, <3>1 DEF Grows, Reduces
    <3>3. Turned(e, k) = [k EXCEPT !.qty = @ + e.qty, !.entered = @ + e.qty, !.stop = Larger(@, s), !.rev = @ + 1]
      BY <2>1, <3>1, <3>2 DEF Turned
    <3>4. Turned(e, k)' = [k EXCEPT !.qty = @ + e.qty, !.entered = @ + e.qty, !.stop = Larger(@, s), !.rev = @ + 1]
      BY <3>2 DEF Turned
    <3> QED
      BY <3>3, <3>4
  <2>2. CASE ~Grows(e) /\ Reduces(e)
    <3> DEFINE taken == IF e.cmd = TargetHit THEN k.taken + e.qty ELSE k.taken
               stop == IF e.qty = k.qty THEN 0 ELSE k.stop
               n == [k EXCEPT !.qty = k.qty - e.qty, !.taken = taken, !.stop = stop, !.rev = k.rev + 1]
    <3>1. ~Grows(e)' /\ Reduces(e)' /\ e.status # "ACTIVE"
      BY <1>3, <2>2 DEF Reduces
    <3>2. Turned(e, k) = n
      BY <2>2, <3>1 DEF Turned
    <3>3. Turned(e, k)' = n
      BY <3>1 DEF Turned
    <3> QED
      BY <3>2, <3>3
  <2>3. CASE ~Grows(e) /\ ~Reduces(e) /\ e.status = "ACTIVE"
    <3>1. PICK s : s = order[e.cmd].level
      OBVIOUS
    <3>2. order'[e.cmd].level = s /\ ~Grows(e)' /\ ~Reduces(e)'
      BY <1>3, <1>6, <2>3, <3>1
    <3>3. Turned(e, k) = [k EXCEPT !.stop = s, !.rev = @ + 1]
      BY <2>3, <3>1 DEF Turned
    <3>4. Turned(e, k)' = [k EXCEPT !.stop = s, !.rev = @ + 1]
      BY <2>3, <3>2 DEF Turned
    <3> QED
      BY <3>3, <3>4
  <2>4. CASE ~Grows(e) /\ ~Reduces(e) /\ e.status # "ACTIVE"
    BY <1>3, <2>4 DEF Turned
  <2> QED
    BY <2>1, <2>2, <2>3, <2>4
<1> QED
  BY <1>2, <1>3, <1>4, <1>7

\* A path stays one when what leaves the pending events made no difference.
LEMMA LeadsStays ==
  ASSUME NEW p, NEW q, NEW b, Leads(p, q, b), EventsOK(q), RowsSame, Looser,
         Pending(q)' \subseteq Pending(q),
         \A i \in Pending(q) \ Pending(q)' : Alike(p[i], p[i - 1])',
         \A i \in 0..Reached' : Alike(p[i], trade)'
  PROVE  Leads(p, q, b)'
<1> USE DEF Leads
<1>1. Alike(p[Len(q)], b)'
  BY AlikeStays
<1>2. ASSUME NEW i \in 1..Len(q)
      PROVE  IF i \in Pending(q)'
               THEN /\ Takes(q[i], p[i - 1])' /\ Alike(p[i], Turned(q[i], p[i - 1]))'
                    /\ Reduces(q[i])' /\ p[i].qty = 0 => b.qty = 0
               ELSE Alike(p[i], p[i - 1])'
  <2> DEFINE e == q[i]
             k == p[i - 1]
             l == p[i]
  <2>0. EventOK(e)
    BY DEF EventsOK
  <2>1. CASE i \in Pending(q)'
    <3>1. Takes(e, k) /\ Alike(l, Turned(e, k)) /\ (Reduces(e) /\ l.qty = 0 => b.qty = 0)
      BY <2>1
    <3> HIDE DEF e, k, l
    <3>2. PICK n : n = Turned(e, k)
      OBVIOUS
    <3>3. (Reduces(e)' <=> Reduces(e)) /\ (Takes(e, k)' <=> Takes(e, k)) /\ Turned(e, k)' = n
      BY <2>0, <3>2, SameEvents
    <3>4. Alike(l, n)'
      BY <3>1, <3>2, AlikeStays
    <3>5. Alike(l, Turned(e, k))'
      BY <3>3, <3>4
    <3> QED
      BY <2>1, <3>1, <3>3, <3>5 DEF e, k, l
  <2>2. CASE i \notin Pending(q)' /\ i \in Pending(q)
    BY <2>2
  <2>3. CASE i \notin Pending(q)' /\ i \notin Pending(q)
    <3>1. Alike(l, k)
      BY <2>3
    <3> HIDE DEF k, l
    <3>2. Alike(l, k)'
      BY <3>1, AlikeStays
    <3> QED
      BY <2>3, <3>2 DEF k, l
  <2> QED
    BY <2>1, <2>2, <2>3
<1> QED
  BY <1>1, <1>2

-----------------------------------------------------------------------------
(* A path grows by an event, and its beginning is walked.                  *)

\* An event that is applied already leaves the books alike.
LEMMA AppliedTurns ==
  ASSUME TypeInv, NEW e, EventOK(e), NEW k \in Books, Takes(e, k),
         e.status # "FILL", e.status = "ACTIVE" => "stop" \in cut
  PROVE  Alike(Turned(e, k), k)
<1>1. CASE e.status = "ACTIVE"
  <2>1. LET n == Turned(e, k) IN n.qty = k.qty /\ n.entered = k.entered /\ n.taken = k.taken
    BY <1>1, TurnedIs
  <2>2. ~StopKept /\ ~RevKept
    BY <1>1 DEF StopKept, RevKept
  <2> QED
    BY <2>1, <2>2 DEF Alike
<1>2. CASE e.status \in {"CANCEL", "REJECT"}
  BY <1>2, TurnedIs, AlikeIs
<1> QED
  BY <1>1, <1>2, EventIs

LEMMA LeadsAppend ==
  ASSUME TypeInv, NEW q, NEW b \in BrokerType, NEW p, Leads(p, q, b), EventsOK(q), pc # "confirm", done = 0,
         NEW e, EventOK(e), NEW n \in BrokerType, Takes(e, Book(b)), Book(n) = Turned(e, Book(b)),
         Applied(e) => e.status # "FILL" /\ (e.status = "ACTIVE" => "stop" \in cut),
         Grows(e) => \A i \in 1..Len(q) : ~Reduces(q[i])
  PROVE  \E x \in [0..Len(Append(q, e)) -> Books] : Leads(x, Append(q, e), n)
<1> DEFINE m == Len(q) + 1
           r == Append(q, e)
           new == Turned(e, p[Len(q)])
           x == [i \in 0..m |-> IF i = m THEN new ELSE p[i]]
<1>1. /\ q \in Seq(EventType) /\ e \in EventType /\ Len(q) \in Nat
      /\ Len(r) = m /\ r[m] = e /\ \A i \in 1..Len(q) : r[i] = q[i]
  BY DEF EventsOK, EventOK
<1>2. /\ p \in [0..Len(q) -> Books] /\ Alike(p[Len(q)], b) /\ Alike(p[0], trade)
      /\ \A i \in 1..Len(q) :
           IF i \in Pending(q)
             THEN /\ Takes(q[i], p[i - 1]) /\ Alike(p[i], Turned(q[i], p[i - 1]))
                  /\ Reduces(q[i]) /\ p[i].qty = 0 => b.qty = 0
             ELSE Alike(p[i], p[i - 1])
  BY DEF Leads, Reached
<1>3. p[Len(q)] \in Books /\ Book(b) \in Books /\ Book(b).qty = b.qty /\ Book(n).qty = n.qty
  BY <1>1, <1>2, BookIs
<1>4. Takes(e, p[Len(q)]) /\ Alike(new, Book(n))
  BY <1>2, <1>3, AlikeTurns, AlikeBooks
<1>5. new \in Books /\ Alike(new, n) /\ new.qty = n.qty
  BY <1>3, <1>4, TurnedIs, AlikeBooks DEF Alike
<1>6. Applied(e) => Alike(new, p[Len(q)])
  BY <1>3, <1>4, AppliedTurns
<1>7. b.qty = 0 /\ ~Grows(e) => n.qty = 0
  <2> SUFFICES ASSUME b.qty = 0, ~Grows(e) PROVE Turned(e, Book(b)).qty = 0
    BY <1>3
  <2>1. e.qty \in Nat /\ (e.status = "FILL" <=> Grows(e) \/ Reduces(e)) /\ e.status \in {"ACTIVE", "FILL", "CANCEL", "REJECT"}
    BY EventIs
  <2>2. Reduces(e) => e.qty = 0
    BY <1>3, <2>1 DEF Takes
  <2> QED
    BY <1>3, <2>1, <2>2, TurnedIs
<1> HIDE DEF new
<1>8. x \in [0..m -> Books] /\ x[m] = new /\ x[m - 1] = p[Len(q)] /\ \A i \in 0..Len(q) : x[i] = p[i]
  BY <1>1, <1>2, <1>5
<1> HIDE DEF x
<1>9. ASSUME NEW i \in 1..m
      PROVE  IF i \in Pending(r)
               THEN /\ Takes(r[i], x[i - 1]) /\ Alike(x[i], Turned(r[i], x[i - 1]))
                    /\ Reduces(r[i]) /\ x[i].qty = 0 => n.qty = 0
               ELSE Alike(x[i], x[i - 1])
  <2>1. CASE i = m
    <3>1. i \in Pending(r) <=> ~Applied(e)
      BY <1>1, <2>1 DEF Pending
    <3>2. r[i] = e /\ x[i] = new /\ x[i - 1] = p[Len(q)]
      BY <1>1, <1>8, <2>1
    <3>3. Alike(new, Turned(e, p[Len(q)]))
      BY AlikeIs DEF new
    <3> QED
      BY <1>4, <1>5, <1>6, <3>1, <3>2, <3>3
  <2>2. CASE i # m
    <3>1. i \in 1..Len(q) /\ r[i] = q[i] /\ x[i] = p[i] /\ x[i - 1] = p[i - 1]
      BY <1>1, <1>8, <2>2
    <3>2. i \in Pending(r) <=> i \in Pending(q)
      BY <1>1, <3>1 DEF Pending
    <3>3. Reduces(q[i]) => ~Grows(e)
      BY <3>1
    <3> QED
      BY <1>2, <1>7, <3>1, <3>2, <3>3
  <2> QED
    BY <2>1, <2>2
<1>10. Alike(x[m], n) /\ \A i \in 0..Reached : Alike(x[i], trade)
  BY <1>1, <1>2, <1>5, <1>8 DEF Reached
<1>11. Leads(x, r, n)
  BY <1>1, <1>8, <1>9, <1>10 DEF Leads
<1> QED
  BY <1>1, <1>8, <1>11

\* The path of a bar that begins: nothing but cancellations is on its way.
LEMMA LeadsFirst ==
  ASSUME TypeInv, NEW q, EventsOK(q), NEW b \in BrokerType, Alike(trade, b), pc # "confirm", done = 0,
         \A i \in 1..Len(q) : q[i].status = "CANCEL"
  PROVE  \E p \in [0..Len(q) -> Books] : Leads(p, q, b)
<1> DEFINE k == Book(b)
           p == [i \in 0..Len(q) |-> k]
<1>1. k \in Books /\ Alike(k, b) /\ Alike(k, k) /\ Alike(k, trade)
  BY BookIs, AlikeBooks, AlikeIs
<1> HIDE DEF k
<1>2. Len(q) \in Nat /\ p \in [0..Len(q) -> Books] /\ \A i \in 0..Len(q) : p[i] = k
  BY <1>1 DEF EventsOK
<1> HIDE DEF p
<1>3. ASSUME NEW i \in 1..Len(q)
      PROVE  Takes(q[i], k) /\ Turned(q[i], k) = k /\ ~Reduces(q[i]) /\ p[i] = k /\ p[i - 1] = k
  <2>1. EventOK(q[i]) /\ q[i].status = "CANCEL"
    BY DEF EventsOK
  <2>2. ~Reduces(q[i]) /\ Takes(q[i], k)
    BY <2>1 DEF Reduces, Takes
  <2>3. Turned(q[i], k) = k
    BY <1>1, <2>1, <2>2, TurnedIs
  <2> QED
    BY <1>2, <2>2, <2>3
<1>4. Reached = 0 /\ 0 \in 0..Len(q) /\ Len(q) \in 0..Len(q)
  BY <1>2 DEF Reached
<1>5. Leads(p, q, b)
  <2>1. Alike(p[Len(q)], b) /\ \A i \in 0..Reached : Alike(p[i], trade)
    BY <1>1, <1>2, <1>4
  <2>2. ASSUME NEW i \in 1..Len(q)
        PROVE  IF i \in Pending(q)
                 THEN /\ Takes(q[i], p[i - 1]) /\ Alike(p[i], Turned(q[i], p[i - 1]))
                      /\ Reduces(q[i]) /\ p[i].qty = 0 => b.qty = 0
                 ELSE Alike(p[i], p[i - 1])
    BY <1>1, <1>3
  <2> QED
    BY <1>2, <2>1, <2>2 DEF Leads
<1> QED
  BY <1>2, <1>5

-----------------------------------------------------------------------------
(* A fill, or the confirmation of a stop, takes the journal one book on.   *)

LEMMA LeadsWalks ==
  ASSUME NEW q, NEW b, NEW p, Leads(p, q, b), EventsOK(q), RowsSame, Looser,
         NEW m \in 1..Len(q), Reached' = m, Pending(q)' = Pending(q) \ (1..m), Alike(p[m], trade)'
  PROVE  \E x \in [0..Len(q) -> Books] : Leads(x, q, b)'
<1> DEFINE x == [i \in 0..Len(q) |-> IF i <= m THEN p[m] ELSE p[i]]
<1>1. /\ p \in [0..Len(q) -> Books] /\ Alike(p[Len(q)], b) /\ Len(q) \in Nat
      /\ \A i \in 1..Len(q) :
           IF i \in Pending(q)
             THEN /\ Takes(q[i], p[i - 1]) /\ Alike(p[i], Turned(q[i], p[i - 1]))
                  /\ Reduces(q[i]) /\ p[i].qty = 0 => b.qty = 0
             ELSE Alike(p[i], p[i - 1])
  BY DEF Leads, EventsOK
<1>2. /\ x \in [0..Len(q) -> Books] /\ \A i \in 0..m : x[i] = p[m]
      /\ \A i \in m..Len(q) : x[i] = p[i]
  BY <1>1
<1> HIDE DEF x
<1>3. ASSUME NEW i \in 1..Len(q)
      PROVE  IF i \in Pending(q)'
               THEN /\ Takes(q[i], x[i - 1])' /\ Alike(x[i], Turned(q[i], x[i - 1]))'
                    /\ Reduces(q[i])' /\ x[i].qty = 0 => b.qty = 0
               ELSE Alike(x[i], x[i - 1])'
  <2>1. CASE i <= m
    <3>1. i \notin Pending(q)' /\ x[i] = p[m] /\ x[i - 1] = p[m]
      BY <1>2, <2>1
    <3>2. PICK k : k = p[m]
      OBVIOUS
    <3>3. Alike(k, k)'
      BY AlikeIs DEF Alike
    <3> QED
      BY <3>1, <3>2, <3>3
  <2>2. CASE ~(i <= m)
    <3> DEFINE e == q[i]
               k == p[i - 1]
               l == p[i]
    <3>1. x[i] = l /\ x[i - 1] = k /\ (i \in Pending(q)' <=> i \in Pending(q)) /\ EventOK(e)
      BY <1>1, <1>2, <2>2 DEF EventsOK
    <3>2. IF i \in Pending(q)
            THEN Takes(e, k) /\ Alike(l, Turned(e, k)) /\ (Reduces(e) /\ l.qty = 0 => b.qty = 0)
            ELSE Alike(l, k)
      BY <1>1
    <3> HIDE DEF e, k, l
    <3>3. PICK n : n = Turned(e, k)
      OBVIOUS
    <3>4. (Reduces(e)' <=> Reduces(e)) /\ (Takes(e, k)' <=> Takes(e, k)) /\ Turned(e, k)' = n
      BY <3>1, <3>3, SameEvents
    <3>5. i \in Pending(q) => Alike(l, n)'
      BY <3>2, <3>3, AlikeStays
    <3>6. i \in Pending(q) => Alike(l, Turned(e, k))'
      BY <3>4, <3>5
    <3>7. i \notin Pending(q) => Alike(l, k)'
      BY <3>2, AlikeStays
    <3>8. IF i \in Pending(q)'
            THEN Takes(e, k)' /\ Alike(l, Turned(e, k))' /\ (Reduces(e)' /\ l.qty = 0 => b.qty = 0)
            ELSE Alike(l, k)'
      BY <3>1, <3>2, <3>4, <3>6, <3>7
    <3>9. IF i \in Pending(q)'
            THEN Takes(e, x[i - 1])' /\ Alike(x[i], Turned(e, x[i - 1]))' /\ (Reduces(e)' /\ x[i].qty = 0 => b.qty = 0)
            ELSE Alike(x[i], x[i - 1])'
      BY <3>1, <3>8
    <3> QED
      BY <3>9 DEF e
  <2> QED
    BY <2>1, <2>2
<1>4. Alike(x[Len(q)], b)'
  <2>1. PICK k : k = p[Len(q)]
    OBVIOUS
  <2>2. Alike(k, b)'
    BY <1>1, <2>1, AlikeStays
  <2>3. x[Len(q)] = k
    BY <1>1, <1>2, <2>1
  <2> QED
    BY <2>2, <2>3
<1>5. \A i \in 0..Reached' : Alike(x[i], trade)'
  BY <1>2
<1>6. Leads(x, q, b)'
  BY <1>2, <1>3, <1>4, <1>5 DEF Leads
<1> QED
  BY <1>2, <1>6

-----------------------------------------------------------------------------
(* Steps that leave the books, the events and the bar in hand alone.       *)

\* The rows of the orders but for what became of their delivery.
RowsStay ==
  /\ \A c \in Commands : /\ order'[c].kind = order[c].kind /\ order'[c].level = order[c].level
                         /\ order'[c].status = order[c].status /\ order'[c].since = order[c].since
  /\ Accepted' \subseteq Accepted

BarsKept == Len(bars') >= Len(bars) /\ \A t \in 1..Len(bars) : bars'[t] = bars[t]

\* Of the journal, the memory and the step, what the books depend on.
Quiet ==
  /\ trade' = trade /\ applied' = applied /\ RowsStay /\ BarsKept
  /\ broker' = broker /\ queue' = queue /\ due' = due /\ batch' = batch /\ cursor' = cursor
  /\ pc \notin Simulating /\ pc' \notin Simulating /\ (pc' = "down" <=> pc = "down")
  /\ (Behind' <=> Behind) /\ cut \subseteq cut'
  /\ pc' \in {"sent", "answer"} => pc \in {"sent", "answer"} /\ inflight' = inflight /\ bars' = bars

LEMMA StreamIs ==
  ASSUME TypeInv, OutcomeInv
  PROVE  /\ EventsOK(Stream) /\ broker \in BrokerType /\ Len(Stream) \in Nat /\ cursor \in Nat
         /\ Outside => Stream = queue /\ \A i \in 1..Len(Stream) : Stream[i].status = "CANCEL" /\ Stream[i].cmd \in Commands
         /\ done \in 0..Len(batch)
<1>1. EventsOK(Stream) /\ broker \in BrokerType
  BY StreamEvents
<1>2. EventsOK(queue) /\ (pc \notin Simulating => \A i \in 1..Len(queue) : queue[i].status = "CANCEL")
  BY DEF TypeInv, QueueOK
<1>3. Outside => Stream = queue /\ \A i \in 1..Len(Stream) : Stream[i].status = "CANCEL" /\ Stream[i].cmd \in Commands
  BY <1>2 DEF Outside, Stream, EventsOK, EventOK
<1> QED
  BY <1>1, <1>3 DEF EventsOK, TypeInv, BatchOK

\* The boundary of a live trade is its journal's.
RestartAt(x) == IF x.executed > x.observed THEN x.executed - 1 ELSE x.observed
LEMMA LiveBoundary ==
  ASSUME trade \in TradeType
  PROVE  Boundary = IF trade.phase \in Live THEN RestartAt(trade) ELSE Len(bars)
<1>1. trade.executed \in Nat /\ trade.observed \in Nat
  BY DEF TradeType
<1>2. CASE trade.phase \in Live /\ trade.executed > trade.observed
  BY <1>1, <1>2 DEF Boundary, RestartAt
<1>3. CASE trade.phase \in Live /\ ~(trade.executed > trade.observed)
  BY <1>1, <1>3 DEF Boundary, RestartAt
<1>4. CASE trade.phase \notin Live
  BY <1>4 DEF Boundary
<1> QED
  BY <1>2, <1>3, <1>4

LEMMA NextBoundary ==
  ASSUME trade' \in TradeType
  PROVE  Boundary' = IF trade'.phase \in Live THEN RestartAt(trade') ELSE Len(bars')
<1>1. trade'.executed \in Nat /\ trade'.observed \in Nat
  BY DEF TradeType
<1>2. CASE trade'.phase \in Live /\ trade'.executed > trade'.observed
  BY <1>1, <1>2 DEF Boundary, RestartAt
<1>3. CASE trade'.phase \in Live /\ ~(trade'.executed > trade'.observed)
  BY <1>1, <1>3 DEF Boundary, RestartAt
<1>4. CASE trade'.phase \notin Live
  BY <1>4 DEF Boundary
<1> QED
  BY <1>2, <1>3, <1>4

LEMMA ClockIs ==
  ASSUME TypeInv, ClockOK
  PROVE  /\ trade.executed \in Nat /\ trade.observed \in Nat /\ trade.increased \in Nat /\ Len(bars) \in Nat /\ cursor \in Nat
         /\ trade.executed <= Len(bars) /\ trade.observed <= Len(bars) /\ cursor <= Len(bars)
         /\ trade.increased <= trade.executed
         /\ trade.phase \in Manageable => trade.executed > 0
         /\ pc # "down" => trade.executed <= cursor + 1
<1>1. trade.executed \in Nat /\ trade.observed \in Nat /\ trade.increased \in Nat /\ Len(bars) \in Nat /\ cursor \in Nat
  BY DEF TypeInv, TradeType
<1>2. trade.executed \in 0..Len(bars) /\ trade.observed \in 0..Len(bars) /\ cursor \in 0..Len(bars)
  BY DEF ClockOK
<1> QED
  BY <1>1, <1>2 DEF ClockOK

\* A target that was taken is in a bar that is closed.
LEMMA TakenIs ==
  ASSUME TypeInv, RowsOK, ClockOK, NEW t \in Nat, Taken(t)
  PROVE  t <= trade.executed /\ t <= Len(bars) /\ ~Unopened
<1>1. t <= trade.executed /\ ~Unopened
  <2>1. PICK x : x = <<TargetHit, "FILL", t>>
    OBVIOUS
  <2>2. x \in applied /\ x[1] = TargetHit /\ x[3] = t
    BY <2>1 DEF Taken
  <2> QED
    BY <2>2 DEF RowsOK
<1>2. trade.executed \in Nat /\ Len(bars) \in Nat /\ trade.executed <= Len(bars)
  BY DEF ClockOK, TypeInv, TradeType
<1> QED
  BY <1>1, <1>2

\* Executions of a bar are of one that is closed.
LEMMA InHand ==
  ASSUME TypeInv, OutcomeInv, ClockOK, NEW i \in 1..Len(Stream), Stream[i].status # "CANCEL"
  PROVE  cursor < Len(bars) /\ ~Outside
<1>1. ~Outside
  BY StreamIs
<1>2. pc \in Simulating \/ Behind
  BY <1>1 DEF Outside, Behind
<1> QED
  BY <1>1, <1>2 DEF ClockOK

\* Of what the broker holds, the journal's rows say the same after a quiet step.
LEMMA QuietBook ==
  ASSUME TypeInv, OutcomeInv, BookInv, Quiet, RoadOK', TypeInv'
  PROVE  BookInv'
<1> USE DEF Quiet
<1>0. /\ RowsOK /\ KnownOK /\ ClockOK /\ OwnOK(broker, Stream) /\ HoldsOK(broker, Stream)
      /\ TargetOK /\ AgainOK(broker, due) /\ TargetsIn(Stream) /\ SinceOK /\ StagesOK
  BY DEF BookInv
<1>1. /\ Stream' = Stream /\ RowsSame
      /\ \A S, K : Of(S, K)' \cap Commands = Of(S, K) \cap Commands
  BY DEF Stream, RowsStay, RowsSame, Of
<1>2. \A K : Of(Commands, K)' = Of(Commands, K)
  BY DEF Of, RowsStay
<1>3. HoldsOK(broker, Stream)'
  <2>1. HoldsOK(broker, Stream)
    BY <1>0
  <2> QED
    BY <1>1, <1>2, <2>1 DEF HoldsOK, Zero
<1>4. RowsOK'
  BY <1>0, <1>2 DEF RowsOK, Zero, Unopened, RowsStay, Of
<1>5. KnownOK'
  BY <1>0 DEF KnownOK
<1>6. ClockOK'
  <2>1. Len(bars) \in Nat /\ Len(bars') \in Int
    BY DEF TypeInv
  <2>2. trade.phase \in Live => Boundary' = Boundary
    BY LiveBoundary, NextBoundary DEF TypeInv
  <2>3. trade.phase \in Manageable => trade.phase \in Live
    BY DEF Live
  <2>4. pc' \in {"sent", "answer"} => Len(bars') = Len(bars)
    OBVIOUS
  <2> QED
    BY <1>0, <2>1, <2>2, <2>3, <2>4 DEF ClockOK, BarsKept, TypeInv, TradeType
<1>7. OwnOK(broker, Stream)'
  BY <1>0, <1>1, <1>2 DEF OwnOK
<1>8. trade.phase \in Manageable => Boundary' = Boundary /\ Boundary + 1 \in Nat
  BY LiveBoundary, NextBoundary, BoundaryIs DEF TypeInv, Live
<1>9. \A t \in Nat : t > 0 /\ Taken(t) => bars'[t] = bars[t]
  <2> SUFFICES ASSUME NEW t \in Nat, t > 0, Taken(t) PROVE bars'[t] = bars[t]
    OBVIOUS
  <2>1. t <= Len(bars) /\ Len(bars) \in Nat
    BY <1>0, TakenIs DEF TypeInv
  <2> QED
    BY <2>1 DEF BarsKept
<1>10. ASSUME NEW c \in Commands, NEW s, NEW t, bars'[t] = bars[t]
       PROVE  Blocked(c, s, t)' <=> Blocked(c, s, t)
  BY <1>10 DEF Blocked, Limit, RowsStay
<1>11. /\ \A c \in Of(Accepted, Increases)' : c \in Of(Accepted, Increases) /\ c \in Commands /\ order'[c].since = order[c].since
       /\ \A t : Taken(t)' <=> Taken(t)
  BY DEF Of, Accepted, RowsStay, Taken
<1>12. TargetOK'
  <2>1. PICK t : t = Boundary + 1
    OBVIOUS
  <2> SUFFICES ASSUME trade.phase \in Manageable, Taken(t) PROVE TakenOK(t)'
    BY <1>8, <1>11, <2>1 DEF TargetOK, TakenOK
  <2>2. TakenOK(t) /\ bars'[t] = bars[t]
    BY <1>0, <1>8, <1>9, <2>1, BoundaryIs DEF TargetOK
  <2>3. ASSUME NEW c \in Of(Accepted, Increases)' PROVE Blocked(c, order[c].since, t)'
    <3>1. PICK s : s = order[c].since
      OBVIOUS
    <3>2. Blocked(c, s, t) /\ c \in Commands /\ order'[c].since = s
      BY <1>11, <2>2, <3>1 DEF TakenOK
    <3>3. Blocked(c, s, t)'
      BY <1>10, <2>2, <3>2
    <3> QED
      BY <3>2, <3>3
  <2> QED
    BY <2>2, <2>3 DEF TakenOK
<1>13. /\ EventsOK(Stream) /\ Len(Stream) \in Nat /\ broker \in BrokerType /\ cursor + 1 \in Nat /\ cursor + 1 > 0
       /\ WaitsIn(broker, due) \subseteq Commands
  <2>1. EventsOK(Stream) /\ Len(Stream) \in Nat /\ broker \in BrokerType /\ cursor \in Nat
    BY StreamIs, Zenon
  <2>2. broker.sched \subseteq Commands /\ due \subseteq Commands
    BY <2>1 DEF BrokerType, TypeInv
  <2>3. WaitsIn(broker, due) \subseteq Commands
    BY <2>2 DEF WaitsIn
  <2>4. cursor + 1 \in Nat /\ cursor + 1 > 0
    BY <2>1
  <2> QED
    BY <2>1, <2>3, <2>4
<1>14. \A i \in 1..Len(Stream) : /\ Applied(Stream[i])' <=> Applied(Stream[i])
                                 /\ Grows(Stream[i])' <=> Grows(Stream[i])
  <2> SUFFICES ASSUME NEW i \in 1..Len(Stream)
               PROVE  (Applied(Stream[i])' <=> Applied(Stream[i])) /\ (Grows(Stream[i])' <=> Grows(Stream[i]))
    OBVIOUS
  <2>1. PICK e : e = Stream[i]
    OBVIOUS
  <2>2. EventOK(e)
    BY <1>13, <2>1 DEF EventsOK
  <2>3. ExecutionId(e)' = ExecutionId(e) /\ (Grows(e)' <=> Grows(e))
    BY <1>1, <2>2, SameEvents
  <2>4. Stream'[i] = e
    BY <1>1, <2>1
  <2> QED
    BY <2>1, <2>3, <2>4 DEF Applied, ExecutionId, Grows, Kind
<1>15. PICK t : t = cursor + 1
  OBVIOUS
<1>16. AgainOK(broker, due)'
  <2> SUFFICES ASSUME trade.phase \in Manageable, Taken(t), NEW c \in Of(WaitsIn(broker, due), Increases)
               PROVE  Blocked(c, broker.since[c], t)'
    BY <1>1, <1>11, <1>15, <1>13 DEF AgainOK, Of, RowsStay
  <2>1. PICK s : s = broker.since[c]
    OBVIOUS
  <2>2. Blocked(c, s, t) /\ bars'[t] = bars[t] /\ c \in Commands
    BY <1>0, <1>9, <1>13, <1>15, <2>1 DEF AgainOK, Of
  <2>3. Blocked(c, s, t)'
    BY <1>10, <2>2
  <2> QED
    BY <2>1, <2>3
<1>17. TargetsIn(Stream)'
  <2>1. ASSUME trade.phase \in Manageable, Taken(t), NEW i \in 1..Len(Stream), Grows(Stream[i]), ~Applied(Stream[i])
        PROVE  Stream[i].price # bars'[t].open
    <3>1. bars'[t] = bars[t]
      BY <1>9, <1>13, <1>15, <2>1
    <3> QED
      BY <1>0, <1>15, <2>1, <3>1 DEF TargetsIn
  <2>2. ASSUME NEW i \in 1..Len(Stream), Stream[i].cmd = TargetHit, NEW c \in Of(Accepted, Increases)'
        PROVE  Blocked(c, order[c].since, t)' \/ \E j \in 1..i - 1 : Stream[j].cmd = c
    <3>1. Stream[i].status # "CANCEL"
      BY <1>13, <2>2, OwnIds DEF EventsOK, EventOK
    <3>2. bars'[t] = bars[t]
      <4>1. cursor < Len(bars) /\ Len(bars) \in Nat
        BY <1>0, <3>1, InHand DEF TypeInv
      <4> QED
        BY <1>13, <1>15, <4>1 DEF BarsKept, TypeInv
    <3>3. PICK s : s = order[c].since
      OBVIOUS
    <3>4. c \in Commands /\ order'[c].since = s /\ c \in Of(Accepted, Increases)
      BY <1>11, <2>2, <3>3
    <3>5. Blocked(c, s, t) \/ \E j \in 1..i - 1 : Stream[j].cmd = c
      BY <1>0, <1>15, <2>2, <3>3, <3>4 DEF TargetsIn
    <3>6. Blocked(c, s, t) => Blocked(c, s, t)'
      BY <1>10, <3>2, <3>4
    <3> QED
      BY <3>4, <3>5, <3>6
  <2> QED
    BY <1>1, <1>11, <1>14, <1>15, <2>1, <2>2 DEF TargetsIn
<1>18. SinceOK'
  <2>1. WaitsIn(broker, due)' = WaitsIn(broker, due)
    BY DEF WaitsIn
  <2> QED
    BY <1>0, <1>11, <2>1 DEF SinceOK
<1>19. StagesOK'
  <2>1. Before' => Before
    BY DEF Before
  <2>2. BeforeOK(broker, Stream) => BeforeOK(broker, Stream)'
    BY <1>1, <1>11, <1>14, <1>15 DEF BeforeOK
  <2>3. Before => Stream = queue
    BY DEF Before, Behind, Stream
  <2>4. Stream' = Stream /\ queue' = queue
    BY <1>1
  <2> QED
    BY <1>0, <2>1, <2>2, <2>3, <2>4 DEF StagesOK, BeforeOK
<1> QED
  BY <1>3, <1>4, <1>5, <1>6, <1>7, <1>12, <1>16, <1>17, <1>18, <1>19 DEF BookInv

-----------------------------------------------------------------------------
(* The quiet steps.                                                        *)

LEMMA RoadStays ==
  ASSUME TypeInv, OutcomeInv, RoadOK, Quiet, Looser, ~Outside => Pending(Stream)' \subseteq Pending(Stream),
         \A p : Leads(p, Stream, broker) /\ ~Outside =>
                  /\ \A i \in Pending(Stream) \ Pending(Stream)' : Alike(p[i], p[i - 1])'
                  /\ \A i \in 0..Reached' : Alike(p[i], trade)'
  PROVE  RoadOK'
<1> USE DEF Quiet
<1>1. PICK q, b : q = Stream /\ b = broker
  OBVIOUS
<1>2. /\ Stream' = q /\ broker' = b /\ EventsOK(q) /\ RowsSame /\ (Outside' <=> Outside)
  BY <1>1, StreamIs DEF Stream, RowsStay, RowsSame, Outside
<1>3. CASE Outside
  <2>1. PICK k : k = trade
    OBVIOUS
  <2>2. b.known => Alike(k, b)
    BY <1>1, <1>3, <2>1 DEF RoadOK
  <2>3. b.known => Alike(k, b)'
    BY <2>2, AlikeStays
  <2> QED
    BY <1>2, <1>3, <2>1, <2>3 DEF RoadOK
<1>4. CASE ~Outside
  <2> SUFFICES ASSUME b.known PROVE \E p \in [0..Len(q) -> Books] : Leads(p, q, b)'
    BY <1>2, <1>4 DEF RoadOK, Road
  <2>1. PICK p \in [0..Len(q) -> Books] : Leads(p, q, b)
    BY <1>1, <1>4 DEF RoadOK, Road
  <2>2. Pending(q)' \subseteq Pending(q)
    BY <1>1, <1>2, <1>4
  <2>3. /\ \A i \in Pending(q) \ Pending(q)' : Alike(p[i], p[i - 1])'
        /\ \A i \in 0..Reached' : Alike(p[i], trade)'
    BY <1>1, <1>2, <1>4, <2>1
  <2>4. Leads(p, q, b)'
    BY <1>2, <2>1, <2>2, <2>3, LeadsStays
  <2> QED
    BY <2>1, <2>4
<1> QED
  BY <1>3, <1>4

\* The same place in the same batch.
LEMMA SamePlace ==
  ASSUME TypeInv, OutcomeInv, RoadOK, Quiet, Looser, done' = done, (pc' = "confirm" <=> pc = "confirm")
  PROVE  RoadOK'
<1>1. PICK q : q = Stream
  OBVIOUS
<1>2. Stream' = q /\ RowsSame /\ EventsOK(q) /\ applied' = applied /\ Len(q) \in Nat /\ done \in Nat
  BY <1>1, StreamIs DEF Quiet, Stream, RowsStay, RowsSame
<1>3. \A i \in 1..Len(q) : Applied(q[i])' <=> Applied(q[i])
  <2> SUFFICES ASSUME NEW i \in 1..Len(q) PROVE Applied(q[i])' <=> Applied(q[i])
    OBVIOUS
  <2>1. PICK e : e = q[i]
    OBVIOUS
  <2>2. ExecutionId(e)' = ExecutionId(e)
    BY <1>2, <2>1, SameEvents DEF EventsOK
  <2> QED
    BY <1>2, <2>1, <2>2 DEF Applied
<1>4. Pending(q)' = Pending(q)
  BY <1>3 DEF Pending
<1>5. Pending(Stream)' = Pending(Stream) /\ Reached' = Reached
  BY <1>1, <1>2, <1>4 DEF Reached
<1>6. ASSUME NEW p, Leads(p, Stream, broker), NEW i \in 0..Reached
      PROVE  Alike(p[i], trade)'
  <2>1. PICK k : k = trade
    OBVIOUS
  <2>2. Alike(p[i], k)
    BY <1>6, <2>1 DEF Leads
  <2>3. Alike(p[i], k)'
    BY <2>2, AlikeStays
  <2> QED
    BY <2>1, <2>3 DEF Quiet
<1> QED
  BY <1>5, <1>6, RoadStays

LEMMA LooserIs ==
  ASSUME cut \subseteq cut', trade'.phase \in Live => trade.phase \in Live,
         pc \in {"sent", "answer"} /\ inflight.status = "CANCEL" /\ trade.qty = 0 =>
           \/ pc' \in {"sent", "answer"} /\ inflight'.status = "CANCEL" /\ trade'.qty = 0
           \/ "answer" \in cut' \/ trade'.phase \notin Live
  PROVE  Looser
  BY DEF Looser, StopKept, RevKept

LEMMA BookStays ==
  ASSUME TypeInv, OutcomeInv, BookInv, TypeInv', Quiet, Looser, done' = done, (pc' = "confirm" <=> pc = "confirm")
  PROVE  BookInv'
<1>1. RoadOK
  BY DEF BookInv
<1>2. RoadOK'
  BY <1>1, SamePlace
<1> QED
  BY <1>2, QuietBook

LEMMA NoCut == cut' = cut => cut \subseteq cut'
  OBVIOUS

LEMMA RowsAsWere ==
  ASSUME order' = order /\ bars' = bars
  PROVE  RowsStay /\ BarsKept
<1>1. RowsStay
  BY DEF RowsStay, Accepted
<1>2. BarsKept
  <2> SUFFICES Len(bars) >= Len(bars)
    BY DEF BarsKept
  <2> QED
    OBVIOUS
<1> QED
  BY <1>1, <1>2

LEMMA StepsOnBook ==
  ASSUME TypeInv, OutcomeInv, BookInv, TypeInv', StepBegins \/ WithdrawEnds \/ WithdrawFails \/ StepEnds
  PROVE  BookInv'
<1>1. /\ UNCHANGED <<bars, trade, order, applied, broker, queue, due, batch, done, cursor, inflight, cut>>
      /\ pc \in {"idle", "withdraw", "work"} /\ pc' \in {"idle", "withdraw", Executes}
      /\ pc = "work" => batch = <<>> /\ pc' = "idle"
  BY DEF StepBegins, WithdrawEnds, WithdrawFails, StepEnds, journal, memory, OutcomeInv, PlaceOK, Decides
<1>2. RowsStay /\ BarsKept /\ Looser
  BY <1>1, RowsAsWere, LooserIs
<1>3. Behind' <=> Behind
  BY <1>1 DEF Behind, Executes
<1>4. pc' \notin Simulating \cup {"down", "confirm", "sent", "answer"} /\ pc \notin Simulating
  BY <1>1 DEF Simulating, Executes
<1>5. Quiet
  BY <1>1, <1>2, <1>3, <1>4 DEF Quiet
<1> QED
  BY <1>1, <1>2, <1>4, <1>5, BookStays

LEMMA BarClosesBook ==
  ASSUME TypeInv, OutcomeInv, BookInv, TypeInv', NEW b, BarCloses(b)
  PROVE  BookInv'
<1> USE DEF BarCloses, journal, memory
<1>1. bars \in Seq(Bars) /\ bars' \in Seq(Bars)
  BY DEF TypeInv
<1>2. BarsKept
  BY <1>1 DEF BarsKept
<1>3. RowsStay
  BY DEF RowsStay, Accepted
<1>4. Looser
  BY LooserIs
<1>5. Quiet
  BY <1>2, <1>3 DEF Quiet, Simulating, Behind
<1> QED
  BY <1>4, <1>5, BookStays

LEMMA MarksBook ==
  ASSUME TypeInv, OutcomeInv, BookInv, TypeInv', WithdrawMark \/ MarkSent
  PROVE  BookInv'
<1>1. order \in [Commands -> OrderType]
  BY DEF TypeInv, OrdersOK
<1>2. RowsStay
  <2>1. CASE WithdrawMark
    <3>1. order' = [c \in Commands |->
                      IF c \in Undelivered THEN [order[c] EXCEPT !.outbox = "UNDELIVERED"] ELSE order[c]]
      BY <2>1 DEF WithdrawMark
    <3>2. \A c \in Commands : /\ order'[c].kind = order[c].kind /\ order'[c].level = order[c].level
                              /\ order'[c].status = order[c].status /\ order'[c].since = order[c].since
                              /\ order'[c].outbox # order[c].outbox => order[c].status = "PENDING"
      BY <1>1, <3>1 DEF OrderType, Undelivered
    <3> QED
      BY <3>2 DEF RowsStay, Accepted
  <2>2. CASE MarkSent
    <3>1. order' = [order EXCEPT ![inflight.cmd].outbox = "SENT"]
          /\ inflight.cmd \in Commands /\ order[inflight.cmd].status = "PENDING"
      BY <2>2 DEF MarkSent, TypeInv, InflightOK
    <3>2. \A c \in Commands : /\ order'[c].kind = order[c].kind /\ order'[c].level = order[c].level
                              /\ order'[c].status = order[c].status /\ order'[c].since = order[c].since
                              /\ order'[c].outbox # order[c].outbox => order[c].status = "PENDING"
      BY <1>1, <3>1 DEF OrderType
    <3> QED
      BY <3>2 DEF RowsStay, Accepted
  <2> QED
    BY <2>1, <2>2
<1>3. /\ UNCHANGED <<bars, trade, applied, broker, queue, due, batch, done, cursor, inflight, cut>>
      /\ (pc' = pc /\ pc = "withdraw") \/ (pc = "sent" /\ pc' = "answer")
  BY DEF WithdrawMark, MarkSent, memory
<1>4. BarsKept
  BY <1>3 DEF BarsKept
<1>5. Looser
  BY <1>3, LooserIs
<1>6. Quiet
  BY <1>2, <1>3, <1>4 DEF Quiet, Simulating, Behind
<1> QED
  BY <1>3, <1>5, <1>6, BookStays

LEMMA AnswerFailsBook ==
  ASSUME TypeInv, OutcomeInv, BookInv, TypeInv', AnswerFails
  PROVE  BookInv'
<1> USE DEF AnswerFails, Fails, journal
<1>1. RowsStay /\ BarsKept
  BY RowsAsWere
<1>2. Looser
  BY LooserIs
<1>3. Quiet
  BY <1>1 DEF Quiet, Simulating, Behind
<1> QED
  BY <1>2, <1>3, BookStays

\* What a failure leaves begins again, and a stop between its transactions is half done.
LEMMA RestartsBook ==
  ASSUME TypeInv, OutcomeInv, BookInv, TypeInv', Refused \/ CommitFails
  PROVE  BookInv'
<1>1. /\ UNCHANGED <<bars, trade, order, applied, broker, queue, due, batch, cursor, inflight>>
      /\ pc \in {"commit", "confirm"} /\ pc' = "idle" /\ done' = 0
      /\ pc = "confirm" \/ done < Len(batch)
      /\ cut' = IF pc = "confirm" THEN cut \cup {"stop"} ELSE cut
  BY DEF Refused, CommitFails, HasNext, Gap, journal
<1>0. batch # <<>>
  <2>1. EventsOK(batch) /\ done \in 0..Len(batch) /\ (pc = "confirm" => done > 0)
    BY DEF TypeInv, BatchOK
  <2>2. Len(batch) > 0
    BY <1>1, <2>1 DEF EventsOK
  <2> QED
    BY <2>2
<1>2. RowsStay /\ BarsKept /\ Looser
  BY <1>1, RowsAsWere, LooserIs
<1>3. Quiet
  BY <1>0, <1>1, <1>2 DEF Quiet, Simulating, Behind
<1>4. PICK q : q = Stream
  OBVIOUS
<1>5. /\ Stream' = q /\ q = batch /\ RowsSame /\ EventsOK(q) /\ Len(q) \in Nat /\ done \in 0..Len(q) /\ ~Outside
      /\ pc = "confirm" => done \in 1..Len(q) /\ q[done].status = "ACTIVE"
  BY <1>0, <1>1, <1>2, <1>4, StreamIs DEF Stream, RowsStay, RowsSame, Outside, TypeInv, BatchOK
<1>6. \A i \in 1..Len(q) : Applied(q[i])' <=> Applied(q[i])
  <2> SUFFICES ASSUME NEW i \in 1..Len(q) PROVE Applied(q[i])' <=> Applied(q[i])
    OBVIOUS
  <2>1. PICK e : e = q[i]
    OBVIOUS
  <2>2. ExecutionId(e)' = ExecutionId(e)
    BY <1>5, <2>1, SameEvents DEF EventsOK
  <2> QED
    BY <1>1, <2>1, <2>2 DEF Applied
<1>7. Pending(q)' \subseteq Pending(q) /\ \A i \in Pending(q) \ Pending(q)' : pc = "confirm" /\ i = done /\ i \in 1..Len(q)
  BY <1>1, <1>6 DEF Pending
<1>8. ASSUME NEW p, Leads(p, q, broker)
      PROVE  /\ \A i \in Pending(q) \ Pending(q)' : Alike(p[i], p[i - 1])'
             /\ \A i \in 0..Reached' : Alike(p[i], trade)'
  <2>1. ASSUME NEW i \in Pending(q) \ Pending(q)' PROVE Alike(p[i], p[i - 1])'
    <3>1. pc = "confirm" /\ i = done /\ i \in 1..Len(q) /\ i \in Pending(q) /\ EventOK(q[i]) /\ q[i].status = "ACTIVE"
      BY <1>5, <1>7, <2>1 DEF EventsOK
    <3>2. p[i - 1] \in Books /\ p[i] \in Books /\ Takes(q[i], p[i - 1]) /\ Alike(p[i], Turned(q[i], p[i - 1]))
      BY <1>5, <1>8, <3>1 DEF Leads
    <3>3. PICK k, l : k = p[i - 1] /\ l = p[i]
      OBVIOUS
    <3>4. l.qty = k.qty /\ l.entered = k.entered /\ l.taken = k.taken
      BY <3>1, <3>2, <3>3, TurnedIs DEF Alike
    <3>5. ~StopKept' /\ ~RevKept'
      BY <1>1, <3>1 DEF StopKept, RevKept
    <3>6. Alike(l, k)'
      BY <3>4, <3>5 DEF Alike
    <3> QED
      BY <3>3, <3>6
  <2>2. Reached' = 0
    BY <1>1 DEF Reached
  <2>3. Alike(p[0], trade)'
    <3>1. PICK k : k = trade
      OBVIOUS
    <3>2. 0 \in 0..Reached
      BY <1>5 DEF Reached
    <3>3. Alike(p[0], k)
      BY <1>8, <3>1, <3>2 DEF Leads
    <3>4. Alike(p[0], k)'
      BY <1>2, <3>3, AlikeStays
    <3> QED
      BY <1>1, <3>1, <3>4
  <2> QED
    BY <2>1, <2>2, <2>3
<1>9. RoadOK'
  BY <1>2, <1>3, <1>4, <1>5, <1>7, <1>8, RoadStays DEF BookInv
<1> QED
  BY <1>3, <1>9, QuietBook

LEMMA ConsumeAgainBook ==
  ASSUME TypeInv, OutcomeInv, BookInv, TypeInv', ConsumeAgain
  PROVE  BookInv'
<1> USE DEF ConsumeAgain, journal, HasNext
<1>1. RowsStay /\ BarsKept
  BY RowsAsWere
<1>2. Looser
  BY LooserIs
<1>3. Quiet
  BY <1>1 DEF Quiet, Simulating, Behind
<1>4. PICK q : q = Stream
  OBVIOUS
<1>5. /\ Stream' = q /\ q = batch /\ RowsSame /\ EventsOK(q) /\ Len(q) \in Nat /\ done \in Nat /\ done + 1 \in 1..Len(q)
      /\ ~Outside
  BY <1>1, <1>4, StreamIs DEF Stream, RowsStay, RowsSame, Outside, TypeInv, BatchOK
<1>6. \A i \in 1..Len(q) : Applied(q[i])' <=> Applied(q[i])
  <2> SUFFICES ASSUME NEW i \in 1..Len(q) PROVE Applied(q[i])' <=> Applied(q[i])
    OBVIOUS
  <2>1. PICK e : e = q[i]
    OBVIOUS
  <2>2. ExecutionId(e)' = ExecutionId(e)
    BY <1>5, <2>1, SameEvents DEF EventsOK
  <2> QED
    BY <2>1, <2>2 DEF Applied
<1>7. Pending(q)' = Pending(q)
  BY <1>6 DEF Pending
<1>8. ASSUME NEW p, Leads(p, q, broker)
      PROVE  \A i \in 0..Reached' : Alike(p[i], trade)'
  <2> SUFFICES ASSUME NEW i \in 0..done + 1 PROVE Alike(p[i], trade)'
    BY DEF Reached
  <2>1. PICK k : k = trade
    OBVIOUS
  <2>2. \A j \in 0..done : Alike(p[j], k)
    BY <1>8, <2>1 DEF Leads, Reached
  <2>3. Alike(p[done + 1], p[done])
    <3>1. Applied(q[done + 1])
      BY <1>5 DEF Upcoming
    <3>2. done + 1 \notin Pending(q) /\ done + 1 - 1 = done
      BY <1>5, <3>1 DEF Pending
    <3> QED
      BY <1>5, <1>8, <3>2 DEF Leads
  <2>4. Alike(p[done + 1], k)
    BY <1>5, <2>2, <2>3, AlikeIs
  <2>5. i \in 0..done \/ i = done + 1
    BY <1>5
  <2>6. Alike(p[i], k)
    BY <2>2, <2>4, <2>5
  <2>7. Alike(p[i], k)'
    BY <1>2, <2>6, AlikeStays
  <2> QED
    BY <2>1, <2>7
<1>9. RoadOK'
  BY <1>2, <1>3, <1>4, <1>5, <1>7, <1>8, RoadStays DEF BookInv
<1> QED
  BY <1>3, <1>9, QuietBook

-----------------------------------------------------------------------------
(* The first state, and a death.                                           *)

LEMMA InitBook ==
  ASSUME Init
  PROVE  BookInv
<1> USE DEF Init, NoTrade, NoBroker
<1>1. /\ trade.phase = "none" /\ Zero(trade) /\ Zero(broker) /\ ~broker.known /\ broker.sched = {} /\ broker.opened = 0
      /\ Stream = <<>> /\ Outside /\ Len(Stream) = 0 /\ WaitsIn(broker, due) = {}
      /\ trade.executed = 0 /\ trade.observed = 0 /\ trade.increased = 0
  BY DEF Zero, Stream, Outside, Simulating, WaitsIn
<1>2. \A K : Of(Commands, K) \subseteq Commands /\ \A c \in Commands : order[c].kind = "none" /\ order[c].status = "none"
  BY DEF Of, NoOrder
<1>3. RoadOK /\ HoldsOK(broker, Stream)
  BY <1>1 DEF RoadOK, HoldsOK, Finished
<1>4. RowsOK
  BY <1>1, <1>2 DEF RowsOK, Zero, Of
<1>5. KnownOK /\ TargetOK
  BY <1>1 DEF KnownOK, TargetOK, Live, Manageable
<1>6. ClockOK
  BY <1>1 DEF ClockOK, Manageable, Simulating, Behind
<1>7. OwnOK(broker, Stream)
  BY <1>1 DEF OwnOK
<1>8. AgainOK(broker, due) /\ TargetsIn(Stream)
  BY <1>1 DEF AgainOK, TargetsIn, Manageable
<1>10. SinceOK
  BY <1>1 DEF SinceOK, Of, Simulating
<1>9. StagesOK
  BY <1>1 DEF StagesOK, BeforeOK, Simulating, Manageable
<1> QED
  BY <1>3, <1>4, <1>5, <1>6, <1>7, <1>8, <1>9, <1>10 DEF BookInv

LEMMA CrashBook ==
  ASSUME TypeInv, OutcomeInv, BookInv, TypeInv', Crash
  PROVE  BookInv'
<1> USE DEF Crash, journal, Fails
<1>0. RowsOK /\ KnownOK /\ ClockOK /\ TargetOK
  BY DEF BookInv
<1>1. /\ trade' = trade /\ order' = order /\ applied' = applied /\ bars' = bars
      /\ broker' = NoBroker /\ queue' = <<>> /\ batch' = <<>> /\ pc' = "down" /\ cursor' = 0 /\ due' = {}
  OBVIOUS
<1>2. /\ NoBroker.qty = 0 /\ NoBroker.entered = 0 /\ NoBroker.taken = 0 /\ NoBroker.stop = 0 /\ NoBroker.rev = 0
      /\ ~NoBroker.known /\ NoBroker.sched = {} /\ NoBroker.opened = 0
  BY DEF NoBroker
<1>3. Zero(broker)' /\ ~broker'.known /\ WaitsIn(broker, due)' = {} /\ Stream' = <<>> /\ Outside' /\ Len(Stream') = 0
  BY <1>1, <1>2 DEF Zero, Stream, Outside, Simulating, WaitsIn
<1>4. RoadOK' /\ HoldsOK(broker, Stream)'
  BY <1>1, <1>2, <1>3 DEF RoadOK, HoldsOK
<1>5. RowsOK' /\ KnownOK'
  BY <1>0, <1>1, <1>3 DEF RowsOK, KnownOK, Zero, Unopened, Of
<1>6. ClockOK'
  BY <1>0, <1>1 DEF ClockOK, Simulating, Behind, TypeInv
<1>7. OwnOK(broker, Stream)'
  BY <1>1, <1>2, <1>3 DEF OwnOK
<1>8. TargetOK'
  <2>1. Boundary' = Boundary
    BY <1>1 DEF Boundary
  <2> QED
    BY <1>0, <1>1, <2>1 DEF TargetOK, TakenOK, Taken, Blocked, Limit, Of, Accepted
<1>9. AgainOK(broker, due)' /\ TargetsIn(Stream)'
  BY <1>3 DEF AgainOK, TargetsIn, Of
<1>10. SinceOK'
  BY <1>1, <1>3 DEF SinceOK, Of, Simulating
<1>11. StagesOK'
  BY <1>1 DEF StagesOK, Before
<1> QED
  BY <1>4, <1>5, <1>6, <1>7, <1>8, <1>9, <1>10, <1>11 DEF BookInv

-----------------------------------------------------------------------------
(* A bar is done: every event of it is in the journal.                     *)

LEMMA CommitEndsBook ==
  ASSUME TypeInv, OutcomeInv, BookInv, TypeInv', CommitEnds
  PROVE  BookInv'
<1> USE DEF CommitEnds
<1> DEFINE observed == IF trade.qty > 0 \/ trade.executed = cursor + 1 THEN cursor + 1 ELSE trade.observed
<1>0. RowsOK /\ KnownOK /\ ClockOK /\ TargetOK /\ OwnOK(broker, Stream) /\ HoldsOK(broker, Stream) /\ RoadOK /\ SinceOK
  BY DEF BookInv
<1>1. /\ trade' = [trade EXCEPT !.observed = observed] /\ trade \in TradeType /\ cursor \in Nat /\ Len(bars) \in Nat
      /\ order' = order /\ applied' = applied /\ bars' = bars /\ broker' = broker /\ queue' = queue /\ due' = due
      /\ cut' = cut /\ pc = "commit" /\ pc' = "work" /\ cursor' = cursor + 1 /\ batch' = <<>> /\ queue = <<>>
      /\ inflight' = inflight /\ done = Len(batch) /\ trade' \in TradeType
  BY DEF OutcomeInv, PlaceOK, TypeInv
<1> HIDE DEF observed
<1>2. /\ trade'.phase = trade.phase /\ trade'.rev = trade.rev /\ trade'.qty = trade.qty /\ trade'.entered = trade.entered
      /\ trade'.taken = trade.taken /\ trade'.stop = trade.stop /\ trade'.increased = trade.increased
      /\ trade'.paid = trade.paid /\ trade'.executed = trade.executed /\ trade'.observed = observed
  BY <1>1 DEF TradeType
<1>3. Stream' = <<>> /\ Len(Stream') = 0 /\ Outside' /\ ~Behind'
  BY <1>1 DEF Stream, Outside, Behind, Simulating
<1>4. cursor < Len(bars)
  BY <1>0, <1>1 DEF ClockOK, Behind
<1>5. broker.known => Alike(trade, broker)
  <2>1. CASE batch = <<>>
    <3>1. Outside
      BY <1>1, <2>1 DEF Outside, Simulating
    <3> QED
      BY <1>0, <3>1 DEF RoadOK
  <2>2. CASE batch # <<>>
    <3> SUFFICES ASSUME broker.known PROVE Alike(trade, broker)
      OBVIOUS
    <3>1. Stream = batch /\ ~Outside /\ Len(batch) \in Nat
      BY <2>2, StreamIs DEF Stream, Outside
    <3>2. PICK p : Leads(p, batch, broker)
      BY <1>0, <3>1 DEF RoadOK, Road
    <3>3. Len(batch) \in 0..Reached
      BY <1>1, <3>1 DEF Reached
    <3>4. Alike(p[Len(batch)], broker) /\ Alike(p[Len(batch)], trade)
      BY <3>2, <3>3 DEF Leads
    <3> QED
      BY <3>4, AlikeIs
  <2> QED
    BY <2>1, <2>2
<1>6. RoadOK'
  <2>1. Looser
    BY <1>1, <1>2, LooserIs
  <2>2. PICK k, b : k = trade /\ b = broker
    OBVIOUS
  <2>3. b.known => Alike(k, b)'
    BY <1>5, <2>1, <2>2, AlikeStays
  <2>4. b.known => Alike(trade, b)'
    BY <1>2, <2>2, <2>3 DEF Alike
  <2> QED
    BY <1>1, <1>3, <2>2, <2>4 DEF RoadOK
<1>7. HoldsOK(broker, Stream)'
  <2>1. /\ ~broker.known => Zero(broker)
        /\ trade.phase \in Finished => broker.qty = 0
        /\ broker.qty > 0 => broker.stop > 0 /\ (trade.qty > 0 \/ \E c \in Of(Commands, {"OPEN"}) : broker.answer[c] = "FILL")
    BY <1>0 DEF HoldsOK
  <2>2. Of(Commands, {"OPEN"})' = Of(Commands, {"OPEN"})
    BY <1>1 DEF Of
  <2> QED
    BY <1>1, <1>2, <1>3, <2>1, <2>2 DEF HoldsOK, Zero
<1>8. observed \in Nat /\ (observed = trade.observed \/ observed = cursor + 1)
  BY <1>1 DEF observed, TradeType
<1>9. RowsOK'
  <2>1. Unopened => trade.qty = 0 /\ trade.executed = 0 /\ trade.observed = 0
    BY <1>0 DEF RowsOK, Zero
  <2>2. Unopened => observed = 0
    BY <1>1, <2>1 DEF observed
  <2>3. Unopened' <=> Unopened
    BY <1>2 DEF Unopened
  <2>4. Zero(trade)' <=> Zero(trade)
    BY <1>2 DEF Zero
  <2>5. Of(Commands, {"MOVESTOP"})' = Of(Commands, {"MOVESTOP"})
    BY <1>1 DEF Of
  <2> QED
    BY <1>0, <1>1, <1>2, <2>2, <2>3, <2>4, <2>5 DEF RowsOK
<1>10. KnownOK'
  BY <1>0, <1>1, <1>2 DEF KnownOK
<1>11. trade.phase \in Manageable => observed = cursor + 1 /\ Boundary' = cursor + 1
  <2> SUFFICES ASSUME trade.phase \in Manageable PROVE observed = cursor + 1 /\ Boundary' = cursor + 1
    OBVIOUS
  <2>1. observed = cursor + 1
    BY DEF OutcomeInv, JournalOK, observed
  <2>2. trade.executed <= cursor + 1 /\ trade.executed \in Nat
    BY <1>0, <1>1 DEF ClockOK, TradeType
  <2> QED
    BY <1>1, <1>2, <2>1, <2>2, NextBoundary DEF Live, RestartAt
<1>12. ClockOK'
  <2>1. /\ trade.increased <= trade.executed
        /\ trade.executed \in 0..Len(bars) /\ trade.observed \in 0..Len(bars) /\ cursor \in 0..Len(bars)
        /\ trade.phase \in Manageable => trade.executed > 0
        /\ trade.executed <= cursor + 1
    BY <1>0, <1>1 DEF ClockOK
  <2>2. cursor + 1 \in 0..Len(bars) /\ trade.executed <= cursor + 1 + 1
    BY <1>1, <1>4, <2>1
  <2>3. {trade.executed, observed, cursor + 1} \subseteq 0..Len(bars)
    BY <1>8, <2>1, <2>2
  <2>4. pc' \notin Simulating /\ ~Behind' /\ pc' \notin {"sent", "answer", "down"}
    BY <1>1, <1>3 DEF Simulating
  <2> QED
    BY <1>1, <1>2, <1>11, <2>1, <2>2, <2>3, <2>4 DEF ClockOK
<1>13. broker.opened <= cursor + 1 /\ trade.increased <= cursor + 1
       /\ broker.opened \in Nat /\ trade.increased \in Nat /\ trade.executed <= cursor + 1 /\ trade.executed \in Nat
  <2>1. broker.opened <= cursor + 1 /\ trade.increased <= trade.executed /\ trade.executed <= cursor + 1
    BY <1>0, <1>1 DEF OwnOK, ClockOK
  <2>2. trade.increased \in Nat /\ trade.executed \in Nat
    BY <1>1 DEF TradeType
  <2>3. broker.opened \in Nat
    BY StreamIs DEF BrokerType
  <2> QED
    BY <1>1, <2>1, <2>2, <2>3
<1>14. OwnOK(broker, Stream)'
  <2>1. broker'.opened <= cursor' + 1
    BY <1>1, <1>13
  <2> QED
    BY <1>3, <2>1 DEF OwnOK
<1>15. PICK t : t = cursor + 2
  OBVIOUS
<1>16. cursor' + 1 = t /\ ~Taken(t) /\ ~Taken(t)'
  <2>1. t \in Nat /\ ~(t <= trade.executed) /\ cursor' + 1 = t
    BY <1>1, <1>13, <1>15
  <2>2. ~Taken(t)
    BY <1>0, <2>1, TakenIs
  <2> QED
    BY <1>1, <2>1, <2>2 DEF Taken
<1>17. TargetOK'
  <2>1. trade'.phase \in Manageable => Boundary' + 1 = t
    BY <1>1, <1>2, <1>11, <1>15
  <2> QED
    BY <1>1, <1>16, <2>1 DEF TargetOK, TakenOK, Taken
<1>18. AgainOK(broker, due)' /\ TargetsIn(Stream)'
  BY <1>1, <1>3, <1>16 DEF AgainOK, TargetsIn, Taken
<1>19. SinceOK'
  BY <1>0, <1>1 DEF SinceOK, Of, Accepted, WaitsIn, Simulating
<1>20. StagesOK'
  <2>1. pc' \notin Simulating
    BY <1>1 DEF Simulating
  <2>2. broker.known => broker.entered = trade.entered /\ broker.taken = trade.taken
    BY <1>5 DEF Alike
  <2>3. trade'.increased # cursor' + 1 /\ broker'.opened <= cursor'
    BY <1>1, <1>2, <1>13
  <2>4. Len(queue') = 0
    BY <1>1
  <2> QED
    BY <1>1, <1>2, <1>16, <2>1, <2>2, <2>3, <2>4 DEF StagesOK, BeforeOK, Taken
<1> QED
  BY <1>6, <1>7, <1>9, <1>10, <1>12, <1>14, <1>17, <1>18, <1>19, <1>20 DEF BookInv

-----------------------------------------------------------------------------
(* A bar in the broker: the journal waits.                                 *)

\* The journal, the market and the clock stay as they are.
BarRuns ==
  /\ trade' = trade /\ order' = order /\ applied' = applied /\ bars' = bars /\ cut' = cut /\ cursor' = cursor
  /\ cursor < Len(bars) /\ {pc, pc'} \cap {"sent", "answer", "down"} = {}

\* What the bar leaves: b with the events q, and `rest` still due.
BarLeaves(b, q, rest) ==
  /\ HoldsOK(b, q) /\ OwnOK(b, q) /\ TargetsIn(q)
  /\ b.known = broker.known /\ b.since = broker.since /\ WaitsIn(b, rest) \subseteq WaitsIn(broker, due)

LEMMA BarMoves ==
  ASSUME TypeInv, OutcomeInv, BookInv, TypeInv', BarRuns, RoadOK',
         NEW b, NEW q, NEW rest, broker' = b, Stream' = q, due' = rest, BarLeaves(b, q, rest),
         pc' \in Simulating => \A c \in rest : b.since[c] <= cursor + 1,
         Before' => /\ queue' = q /\ BeforeOK(b, q)
                    /\ pc' \in Simulating => \A c \in b.sched : b.since[c] > cursor + 1
  PROVE  BookInv'
<1> USE DEF BarRuns, BarLeaves
<1>0. RowsOK /\ KnownOK /\ ClockOK /\ TargetOK /\ SinceOK /\ AgainOK(broker, due)
  BY DEF BookInv
<1>1. /\ trade' = trade /\ order' = order /\ applied' = applied /\ bars' = bars /\ cut' = cut /\ cursor' = cursor
      /\ pc \notin {"sent", "answer", "down"} /\ pc' \notin {"sent", "answer", "down"}
  OBVIOUS
<1>2. HoldsOK(b, q)' /\ OwnOK(b, q)'
  BY <1>1 DEF HoldsOK, OwnOK, Zero, Of
<1>3. \A c, s, t : Blocked(c, s, t)' <=> Blocked(c, s, t)
  BY <1>1 DEF Blocked, Limit
<1>4. \A e : (Grows(e)' <=> Grows(e)) /\ (Applied(e)' <=> Applied(e))
  BY <1>1 DEF Grows, Applied, ExecutionId, Kind
<1>5. Accepted' = Accepted /\ \A t : Taken(t)' <=> Taken(t)
  BY <1>1 DEF Accepted, Taken
<1>6. TargetsIn(q)'
  BY <1>1, <1>3, <1>4, <1>5 DEF TargetsIn, Of
<1>7. RowsOK' /\ KnownOK'
  BY <1>0, <1>1 DEF RowsOK, KnownOK, Zero, Unopened, Of
<1>8. Boundary' = Boundary
  BY <1>1 DEF Boundary
<1>9. ClockOK'
  BY <1>0, <1>1, <1>8 DEF ClockOK
<1>10. TargetOK'
  BY <1>0, <1>1, <1>3, <1>5, <1>8 DEF TargetOK, TakenOK, Of
<1>11. AgainOK(b, rest)'
  BY <1>0, <1>1, <1>3, <1>5 DEF AgainOK, Of, WaitsIn
<1>12. SinceOK'
  <2>1. WaitsIn(broker, due)' \subseteq WaitsIn(broker, due)
    BY DEF WaitsIn
  <2> QED
    BY <1>0, <1>1, <1>5, <2>1 DEF SinceOK, Of
<1>13. StagesOK'
  <2>1. BeforeOK(b, q) => BeforeOK(b, q)'
    BY <1>1, <1>4, <1>5 DEF BeforeOK
  <2> QED
    BY <1>1, <2>1 DEF StagesOK
<1>14. HoldsOK(broker, Stream)' /\ OwnOK(broker, Stream)' /\ TargetsIn(Stream)' /\ AgainOK(broker, due)'
  BY <1>2, <1>6, <1>11
<1> QED
  BY <1>7, <1>9, <1>10, <1>12, <1>13, <1>14 DEF BookInv

\* Nothing but the schedule moves when a bar begins.
LEMMA TrackBeginsBook ==
  ASSUME TypeInv, OutcomeInv, BookInv, TypeInv', TrackBegins
  PROVE  BookInv'
<1> USE DEF journal
<1> DEFINE taken == {c \in broker.sched : broker.since[c] <= cursor + 1}
           sched == broker.sched \ taken
<1>0. HoldsOK(broker, Stream) /\ OwnOK(broker, Stream) /\ RoadOK /\ TargetsIn(Stream) /\ StagesOK
  BY DEF BookInv
<1>1. /\ trade' = trade /\ order' = order /\ applied' = applied /\ bars' = bars /\ queue' = queue /\ batch' = batch
      /\ cut' = cut /\ cursor' = cursor /\ inflight' = inflight /\ done' = done
      /\ pc = "work" /\ pc' = "moves" /\ cursor < Len(bars)
      /\ broker' = [broker EXCEPT !.sched = sched] /\ due' = taken
  BY DEF TrackBegins
<1>2. batch = <<>> /\ due = {} /\ done = 0 /\ Outside /\ ~Outside' /\ Stream' = Stream /\ Stream = queue /\ Before
      /\ pc' \in Simulating
  BY <1>1 DEF OutcomeInv, PlaceOK, Simulating, Outside, Stream, Before, Behind, TypeInv, BatchOK
<1>3. broker \in BrokerType /\ cursor \in Nat
  BY DEF TypeInv, BrokerOK
<1>4. PICK b, q, rest : b = broker' /\ q = queue /\ rest = taken
  OBVIOUS
<1> HIDE DEF sched
<1>5. /\ b.known = broker.known /\ b.rev = broker.rev /\ b.qty = broker.qty
      /\ b.entered = broker.entered /\ b.taken = broker.taken /\ b.stop = broker.stop
      /\ b.opened = broker.opened /\ b.paid = broker.paid /\ b.since = broker.since
      /\ b.answer = broker.answer /\ b.sched = sched
  BY <1>1, <1>3, <1>4 DEF BrokerType
<1>6. WaitsIn(b, rest) = WaitsIn(broker, due)
  <2>1. sched \cup rest = broker.sched \cup due
    BY <1>2, <1>4 DEF sched
  <2> QED
    BY <1>5, <2>1 DEF WaitsIn
<1>7. HoldsOK(b, q) /\ OwnOK(b, q) /\ TargetsIn(q) /\ BeforeOK(b, q)
  <2>1. HoldsOK(broker, q) /\ OwnOK(broker, q) /\ TargetsIn(q) /\ BeforeOK(broker, q)
    BY <1>0, <1>2, <1>4 DEF StagesOK
  <2>2. HoldsOK(b, q)
    BY <1>5, <2>1 DEF HoldsOK, Zero
  <2>3. OwnOK(b, q) /\ BeforeOK(b, q)
    BY <1>5, <2>1 DEF OwnOK, BeforeOK
  <2> QED
    BY <2>1, <2>2, <2>3
<1>8. \A c \in rest : b.since[c] <= cursor + 1
  BY <1>4, <1>5
<1>9. \A c \in b.sched : b.since[c] > cursor + 1
  <2> SUFFICES ASSUME NEW c \in sched PROVE broker.since[c] > cursor + 1
    BY <1>5
  <2>1. c \in broker.sched /\ ~(broker.since[c] <= cursor + 1)
    BY DEF sched
  <2>2. broker.since[c] \in Nat
    BY <1>3, <2>1 DEF BrokerType
  <2> QED
    BY <1>3, <2>1, <2>2
<1> HIDE DEF taken
<1>10. RoadOK'
  <2>1. b.known => \E p \in [0..Len(q) -> Books] : Leads(p, q, b)'
    <3> SUFFICES ASSUME b.known PROVE \E p \in [0..Len(q) -> Books] : Leads(p, q, b)'
      OBVIOUS
    <3>1. Alike(trade, b)
      BY <1>0, <1>2, <1>5 DEF RoadOK, Alike
    <3>2. EventsOK(q) /\ \A i \in 1..Len(q) : q[i].status = "CANCEL"
      BY <1>2, <1>4, StreamIs
    <3>3. b \in BrokerType
      BY <1>4 DEF TypeInv, BrokerOK
    <3>4. PICK p \in [0..Len(q) -> Books] : Leads(p, q, b)
      BY <1>1, <1>2, <3>1, <3>2, <3>3, LeadsFirst
    <3>5. RowsSame /\ Looser
      BY <1>1, LooserIs DEF RowsSame
    <3>6. Pending(q)' = Pending(q) /\ Reached' = Reached
      BY <1>1 DEF Pending, Reached, Applied, ExecutionId, Kind
    <3>7. \A i \in 0..Reached' : Alike(p[i], trade)'
      <4>1. PICK k : k = trade
        OBVIOUS
      <4>2. \A i \in 0..Reached : Alike(p[i], k)
        BY <3>4, <4>1 DEF Leads
      <4>3. \A i \in 0..Reached : Alike(p[i], k)'
        BY <3>5, <4>2, AlikeStays
      <4> QED
        BY <1>1, <3>6, <4>1, <4>3
    <3>8. Leads(p, q, b)'
      BY <3>2, <3>4, <3>5, <3>6, <3>7, LeadsStays
    <3> QED
      BY <3>8
  <2> QED
    BY <1>1, <1>2, <1>4, <2>1 DEF RoadOK, Road
<1>11. BarRuns
  BY <1>1 DEF BarRuns
<1>12. BarLeaves(b, q, rest)
  BY <1>5, <1>6, <1>7 DEF BarLeaves
<1>13. broker' = b /\ Stream' = q /\ due' = rest /\ queue' = q
  BY <1>1, <1>2, <1>4
<1> QED
  BY <1>7, <1>8, <1>9, <1>10, <1>11, <1>12, <1>13, BarMoves

\* The road a stage finds is the road it leaves, when nothing but the stage moves on.
LEMMA RoadOn ==
  ASSUME TypeInv, OutcomeInv, BarRuns, pc # "confirm", pc' # "confirm", done = 0, done' = 0,
         NEW b, NEW q, EventsOK(q), Road(b, q)
  PROVE  Road(b, q)'
<1>1. /\ trade' = trade /\ order' = order /\ applied' = applied /\ cut' = cut
      /\ pc \notin {"sent", "answer"} /\ pc' \notin {"sent", "answer"}
  BY DEF BarRuns
<1> SUFFICES ASSUME b.known PROVE \E p \in [0..Len(q) -> Books] : Leads(p, q, b)'
  BY DEF Road
<1>2. PICK p \in [0..Len(q) -> Books] : Leads(p, q, b)
  BY DEF Road
<1>3. RowsSame /\ Looser
  BY <1>1, LooserIs DEF RowsSame
<1>4. Pending(q)' = Pending(q) /\ Reached' = Reached
  BY <1>1 DEF Pending, Reached, Applied, ExecutionId, Kind
<1>5. \A i \in 0..Reached' : Alike(p[i], trade)'
  <2>1. PICK k : k = trade
    OBVIOUS
  <2>2. \A i \in 0..Reached : Alike(p[i], k)
    BY <1>2, <2>1 DEF Leads
  <2>3. \A i \in 0..Reached : Alike(p[i], k)'
    BY <1>3, <2>2, AlikeStays
  <2> QED
    BY <1>1, <1>4, <2>1, <2>3
<1>6. Leads(p, q, b)'
  BY <1>2, <1>3, <1>4, <1>5, LeadsStays
<1> QED
  BY <1>2, <1>6

\* A road of no events.
LEMMA RoadEnds ==
  ASSUME NEW b, Road(b, <<>>), b.known, done = 0, pc # "confirm"
  PROVE  Alike(trade, b)
<1>1. PICK p : Leads(p, <<>>, b)
  BY DEF Road
<1>2. Alike(p[0], b) /\ Alike(p[0], trade)
  BY <1>1 DEF Leads, Reached
<1> QED
  BY <1>2, AlikeIs

LEMMA DrainBook ==
  ASSUME TypeInv, OutcomeInv, BookInv, TypeInv', Drain
  PROVE  BookInv'
<1> USE DEF journal
<1>0. HoldsOK(broker, Stream) /\ OwnOK(broker, Stream) /\ RoadOK /\ TargetsIn(Stream) /\ ClockOK
  BY DEF BookInv
<1>1. /\ trade' = trade /\ order' = order /\ applied' = applied /\ bars' = bars /\ cut' = cut /\ cursor' = cursor
      /\ broker' = broker /\ pc = "limits" /\ pc' = "commit" /\ batch' = queue /\ queue' = <<>> /\ done' = 0 /\ due' = {}
  BY DEF Drain
<1>2. batch = <<>> /\ done = 0 /\ ~Outside /\ Stream = queue /\ Stream' = queue /\ ~Before'
  BY <1>1 DEF OutcomeInv, PlaceOK, Simulating, Outside, Stream, Before, Behind, TypeInv, BatchOK
<1>3. PICK b, q, rest : b = broker /\ q = queue /\ rest = {}
  OBVIOUS
<1>4. BarRuns
  BY <1>0, <1>1 DEF BarRuns, ClockOK, Simulating
<1>5. BarLeaves(b, q, rest)
  BY <1>0, <1>2, <1>3 DEF BarLeaves, WaitsIn
<1>6. Road(b, q) /\ EventsOK(q)
  BY <1>0, <1>2, <1>3, StreamIs DEF RoadOK
<1>7. Road(b, q)'
  BY <1>1, <1>2, <1>4, <1>6, RoadOn
<1>8. RoadOK'
  <2>1. CASE q # <<>>
    <3>1. ~Outside'
      BY <1>1, <1>3, <2>1 DEF Outside
    <3> QED
      BY <1>1, <1>2, <1>3, <1>7, <3>1 DEF RoadOK
  <2>2. CASE q = <<>>
    <3>1. Outside'
      BY <1>1, <1>3, <2>2 DEF Outside, Simulating
    <3>2. b.known => Alike(trade, b)
      BY <1>1, <1>2, <1>6, <2>2, RoadEnds
    <3>3. Looser
      BY <1>1, LooserIs
    <3>4. PICK k : k = trade
      OBVIOUS
    <3>5. b.known => Alike(k, b)'
      BY <3>2, <3>3, <3>4, AlikeStays
    <3> QED
      BY <1>1, <1>3, <3>1, <3>4, <3>5 DEF RoadOK
  <2> QED
    BY <2>1, <2>2
<1>9. broker' = b /\ Stream' = q /\ due' = rest /\ (pc' \in Simulating => \A c \in rest : b.since[c] <= cursor + 1)
  BY <1>1, <1>2, <1>3
<1> QED
  BY <1>2, <1>4, <1>5, <1>8, <1>9, BarMoves

-----------------------------------------------------------------------------
(* The restart.                                                            *)

\* The book that a restart opens.
LEMMA RestoredBook ==
  ASSUME TypeInv, OutcomeInv, RowsOK
  PROVE  /\ trade.phase \in Live <=> Restored.known
         /\ trade.phase \notin Live => Zero(Restored) /\ Restored.opened = 0 /\ Restored.sched = {}
         /\ trade.phase \in Live =>
              /\ Restored.qty = trade.qty /\ Restored.entered = trade.entered /\ Restored.taken = trade.taken
              /\ Restored.stop = trade.stop /\ Restored.rev = trade.rev /\ Restored.opened = trade.increased
              /\ trade.phase \in Manageable => Restored.paid = trade.paid
              /\ Restored.sched = Resumed
              /\ \A c \in Resumed : Restored.since[c] = order[c].since
<1> DEFINE since == [c \in Commands |-> IF c \in Resumed THEN order[c].since ELSE 0]
           answer == [c \in Commands |-> IF c \in Resumed THEN "ACK" ELSE "none"]
           idle == [NoBroker EXCEPT !.known = TRUE, !.sched = Resumed, !.since = since, !.answer = answer]
           held == [idle EXCEPT !.rev = trade.rev, !.qty = trade.qty, !.entered = trade.entered,
                                !.taken = trade.taken, !.stop = trade.stop,
                                !.opened = trade.increased, !.paid = trade.paid]
<1>1. Resumed \subseteq Commands /\ \A c \in Resumed : since[c] = order[c].since
  BY DEF Resumed
<1> HIDE DEF since, answer
<1>2. /\ idle.known /\ idle.sched = Resumed /\ idle.since = since /\ Zero(idle) /\ idle.opened = 0
      /\ held.known /\ held.sched = Resumed /\ held.since = since
      /\ held.qty = trade.qty /\ held.entered = trade.entered /\ held.taken = trade.taken /\ held.stop = trade.stop
      /\ held.rev = trade.rev /\ held.opened = trade.increased /\ held.paid = trade.paid
  BY DEF NoBroker, Zero
<1>3. trade.qty \in Nat
  BY DEF TypeInv, TradeType
<1>4. CASE trade.phase \notin Live
  <2>1. Restored = NoBroker
    BY <1>4 DEF Restored
  <2> QED
    BY <1>4, <2>1 DEF NoBroker, Zero
<1>5. CASE trade.phase \in Live /\ trade.qty = 0
  <2>1. Restored = idle
    BY <1>5 DEF Restored, since, answer
  <2>2. trade.phase \notin Manageable /\ Unopened
    BY <1>3, <1>5 DEF OutcomeInv, JournalOK, Live, Unopened
  <2>3. Zero(trade) /\ trade.increased = 0
    BY <2>2 DEF RowsOK
  <2> HIDE DEF idle, held
  <2> QED
    BY <1>1, <1>2, <1>5, <2>1, <2>2, <2>3 DEF Zero
<1>6. CASE trade.phase \in Live /\ trade.qty > 0
  <2>1. Restored = held
    BY <1>6 DEF Restored, since, answer
  <2> HIDE DEF idle, held
  <2> QED
    BY <1>1, <1>2, <1>6, <2>1
<1> QED
  BY <1>3, <1>4, <1>5, <1>6

LEMMA RecoverBook ==
  ASSUME TypeInv, OutcomeInv, BookInv, TypeInv', Recover
  PROVE  BookInv'
<1>0. RowsOK /\ KnownOK /\ ClockOK /\ TargetOK
  BY DEF BookInv
<1>1. /\ trade' = trade /\ applied' = applied /\ bars' = bars /\ cut' = cut /\ cursor' = Boundary
      /\ pc = "down" /\ pc' = "idle" /\ broker' = Restored /\ due' = {} /\ batch' = <<>> /\ queue' = <<>>
  BY DEF Recover, OutcomeInv, PlaceOK, Simulating
<1>2. \A c \in Commands : /\ order'[c].kind = order[c].kind /\ order'[c].level = order[c].level
                          /\ order'[c].status = order[c].status /\ order'[c].since = order[c].since
                          /\ order'[c].outbox = "SENT" <=> order[c].outbox = "SENT"
  <2> SUFFICES ASSUME NEW c \in Commands
               PROVE  /\ order'[c].kind = order[c].kind /\ order'[c].level = order[c].level
                      /\ order'[c].status = order[c].status /\ order'[c].since = order[c].since
                      /\ order'[c].outbox = "SENT" <=> order[c].outbox = "SENT"
    OBVIOUS
  <2> DEFINE outbox == IF order[c].outbox = "CLAIMED" THEN "PENDING" ELSE order[c].outbox
             reserved == order[c].reserved /\ trade.phase \notin Finished
             o == [order[c] EXCEPT !.outbox = outbox, !.reserved = reserved]
  <2>1. order[c] \in OrderType
    BY DEF TypeInv, OrdersOK
  <2>2. order'[c] = o
    BY DEF Recover
  <2>3. outbox = "SENT" <=> order[c].outbox = "SENT"
    OBVIOUS
  <2> HIDE DEF reserved, outbox
  <2>4. o.kind = order[c].kind /\ o.level = order[c].level /\ o.status = order[c].status
        /\ o.since = order[c].since /\ o.outbox = outbox
    BY <2>1 DEF OrderType
  <2> HIDE DEF o
  <2> QED
    BY <2>2, <2>3, <2>4
<1>3. PICK b : b = Restored
  OBVIOUS
<1>4. broker' = b /\ Stream' = <<>> /\ Len(Stream') = 0 /\ Outside' /\ ~Behind' /\ pc' \notin Simulating
  BY <1>1, <1>3 DEF Stream, Outside, Behind, Simulating
<1>5. /\ trade.phase \in Live <=> b.known
      /\ trade.phase \notin Live => Zero(b) /\ b.opened = 0 /\ b.sched = {}
      /\ trade.phase \in Live =>
           /\ b.qty = trade.qty /\ b.entered = trade.entered /\ b.taken = trade.taken
           /\ b.stop = trade.stop /\ b.rev = trade.rev /\ b.opened = trade.increased
           /\ trade.phase \in Manageable => b.paid = trade.paid
           /\ b.sched = Resumed /\ \A c \in Resumed : b.since[c] = order[c].since
  BY <1>0, <1>3, RestoredBook
<1>6. RoadOK'
  <2>1. b.known => Alike(trade, b)'
    BY <1>1, <1>5 DEF Alike
  <2> QED
    BY <1>4, <2>1 DEF RoadOK
<1>7. HoldsOK(broker, Stream)'
  <2>1. trade.qty > 0 => trade.stop > 0
    BY <1>0 DEF RowsOK
  <2>2. trade.phase \in Finished => trade.phase \notin Live
    BY DEF Finished, Live, Manageable
  <2>3. (~b.known => Zero(b)) /\ (trade.phase \in Finished => b.qty = 0) /\ (b.qty > 0 => b.stop > 0 /\ trade.qty > 0)
    BY <1>5, <2>1, <2>2 DEF Zero
  <2> QED
    BY <1>1, <1>4, <2>3 DEF HoldsOK, Zero
<1>8. RowsOK'
  BY <1>0, <1>1, <1>2 DEF RowsOK, Zero, Unopened, Of
<1>9. KnownOK'
  BY <1>0, <1>1, <1>4, <1>5 DEF KnownOK, Live, Manageable
<1>10. Boundary' = Boundary /\ Boundary \in Nat
  BY <1>1, BoundaryIs DEF Boundary
<1>11. /\ trade.executed \in Nat /\ trade.observed \in Nat /\ trade.increased \in Nat /\ Len(bars) \in Nat
       /\ trade.executed <= Len(bars) /\ trade.observed <= Len(bars) /\ trade.increased <= trade.executed
       /\ trade.phase \in Manageable => trade.executed > 0
  BY <1>0, ClockIs
<1>12. Boundary <= Len(bars) /\ trade.executed <= Boundary + 1
  BY <1>11, LiveBoundary DEF TypeInv, RestartAt
<1>13. ClockOK'
  <2>1. pc' \notin Simulating \cup {"sent", "answer", "down"}
    BY <1>1 DEF Simulating
  <2> QED
    BY <1>1, <1>4, <1>10, <1>11, <1>12, <2>1 DEF ClockOK
<1>14. OwnOK(broker, Stream)'
  <2>1. b.opened <= Boundary + 1
    BY <1>5, <1>10, <1>11, <1>12
  <2> QED
    BY <1>1, <1>4, <2>1 DEF OwnOK
<1>15. /\ \A s, t : \A c \in Commands : Blocked(c, s, t)' <=> Blocked(c, s, t)
       /\ \A t : Taken(t)' <=> Taken(t)
       /\ Accepted' = Accepted
  BY <1>1, <1>2 DEF Blocked, Limit, Taken, Accepted
<1>16. PICK t : t = Boundary + 1
  OBVIOUS
<1>17. trade.phase \in Manageable => TakenOK(t) /\ TakenOK(t)'
  <2> SUFFICES ASSUME trade.phase \in Manageable PROVE TakenOK(t) /\ TakenOK(t)'
    OBVIOUS
  <2>1. TakenOK(t)
    BY <1>0, <1>16 DEF TargetOK
  <2>2. \A c \in Of(Accepted, Increases)' : c \in Of(Accepted, Increases) /\ c \in Commands /\ order'[c].since = order[c].since
    BY <1>2, <1>15 DEF Of, Accepted
  <2> QED
    BY <1>1, <1>15, <2>1, <2>2 DEF TakenOK
<1>18. TargetOK'
  BY <1>1, <1>10, <1>16, <1>17 DEF TargetOK
<1>19. Resumed \subseteq Accepted /\ Accepted \subseteq Commands
  BY DEF Resumed, Accepted
<1>20. \A c \in WaitsIn(broker, due)' : trade.phase \in Live /\ c \in Resumed /\ c \in Accepted /\ b.since[c] = order[c].since
  BY <1>1, <1>4, <1>5, <1>19 DEF WaitsIn
<1>21. AgainOK(broker, due)'
  <2> SUFFICES ASSUME Taken(t), trade.phase \in Manageable,
                      NEW c \in WaitsIn(broker, due)', order'[c].kind \in Increases
               PROVE  Blocked(c, b.since[c], t)'
    BY <1>1, <1>4, <1>15, <1>16 DEF AgainOK, Of
  <2>1. c \in Commands /\ c \in Of(Accepted, Increases) /\ b.since[c] = order[c].since
    BY <1>2, <1>19, <1>20 DEF Of
  <2>2. Blocked(c, b.since[c], t)
    BY <1>17, <2>1 DEF TakenOK
  <2> QED
    BY <1>15, <2>1, <2>2
<1>22. TargetsIn(Stream)'
  <2>1. \A i \in 1..Len(Stream') : FALSE
    BY <1>4
  <2> QED
    BY <2>1 DEF TargetsIn
<1>23. SinceOK'
  <2>1. \A c \in Of(Accepted, Increases)' : c \in WaitsIn(broker, due)' => broker'.since[c] = order'[c].since
    BY <1>2, <1>4, <1>19, <1>20
  <2>2. ASSUME NEW c \in WaitsIn(broker, due)', NEW x \in applied, x[1] = c, x[2] = "ACTIVE"
        PROVE  "stop" \in cut
    <3>1. c \in Commands /\ c \in Resumed
      BY <1>19, <1>20, <2>2
    <3>2. order[c].kind = "MOVESTOP"
      BY <1>0, <2>2, <3>1 DEF RowsOK
    <3>3. trade.moving = c
      BY <3>1, <3>2 DEF Resumed, Increases, Exits
    <3>4. Confirms(c)
      BY <2>2, <3>1 DEF OutcomeInv, AppliedOK
    <3> QED
      BY <1>1, <3>3, <3>4 DEF Confirms
  <2> QED
    BY <1>1, <1>4, <2>1, <2>2 DEF SinceOK
<1>24. StagesOK'
  <2>1. b.known => b.entered = trade.entered /\ b.taken = trade.taken /\ b.opened = trade.increased
                   /\ (trade.phase \in Manageable => b.paid = trade.paid)
    BY <1>5
  <2>2. b.opened <= Boundary \/ b.opened = trade.increased
    BY <1>5, <1>10
  <2>3. trade.phase \in Manageable => b.known
    BY <1>5 DEF Live
  <2>4. \A i \in 1..Len(queue') : FALSE
    BY <1>1
  <2> QED
    BY <1>1, <1>4, <2>1, <2>2, <2>3, <2>4 DEF StagesOK, BeforeOK
<1> QED
  BY <1>6, <1>7, <1>8, <1>9, <1>13, <1>14, <1>18, <1>21, <1>22, <1>23, <1>24 DEF BookInv

-----------------------------------------------------------------------------
(* Decisions: a new order is in neither book.                              *)

LEMMA DecidesBook ==
  ASSUME TypeInv, OutcomeInv, BookInv, TypeInv', NEW c \in Commands, NEW kind, NEW size, NEW level, NEW late,
         Insert(c, kind, size, level, late), kind = "MOVESTOP" => level > 0,
         trade'.rev = trade.rev, trade'.qty = trade.qty, trade'.entered = trade.entered, trade'.taken = trade.taken,
         trade'.stop = trade.stop, trade'.increased = trade.increased, trade'.paid = trade.paid,
         trade'.executed = trade.executed, trade'.observed = trade.observed,
         \/ trade'.phase = trade.phase /\ broker' = broker
         \/ trade.phase = "none" /\ trade'.phase = "ENTRY_PENDING" /\ broker' = [broker EXCEPT !.known = TRUE]
  PROVE  BookInv'
<1>0. /\ RowsOK /\ KnownOK /\ ClockOK /\ OwnOK(broker, Stream) /\ HoldsOK(broker, Stream)
      /\ TargetOK /\ AgainOK(broker, due) /\ TargetsIn(Stream) /\ SinceOK /\ StagesOK /\ RoadOK
  BY DEF BookInv
<1>1. /\ bars' = bars /\ applied' = applied /\ queue' = queue /\ due' = due /\ batch' = batch /\ cursor' = cursor
      /\ inflight' = inflight /\ pc' = pc /\ cut' = cut /\ pc = "work" /\ batch = <<>> /\ due = {}
  BY DEF Insert, Decides, OutcomeInv, PlaceOK, Simulating
<1>2. /\ order[c].kind = "none" /\ order[c].status = "none"
      /\ order'[c].kind = kind /\ order'[c].status = "PENDING" /\ order'[c].level = level
      /\ \A x \in Commands : x # c => order'[x] = order[x]
  <2> DEFINE o == [NoOrder EXCEPT !.kind = kind, !.status = "PENDING", !.outbox = "PENDING",
                                  !.rev = trade.rev, !.size = size, !.level = level,
                                  !.reserved = (kind \in Increases), !.late = late]
  <2>1. order' = [order EXCEPT ![c] = o] /\ order \in [Commands -> OrderType]
    BY DEF Insert, TypeInv, OrdersOK
  <2>2. o.level = level
    BY DEF NoOrder
  <2> HIDE DEF o
  <2>3. order'[c] = o
    BY <2>1
  <2> QED
    BY <2>2, <2>3, InsertIs DEF Adds
<1>3. /\ broker \in BrokerType /\ broker.answer[c] = "none" /\ c \notin broker.sched /\ c \notin WaitsIn(broker, due)
      /\ WaitsIn(broker, due) \subseteq Commands
  <2>1. broker.answer[c] = "none"
    BY <1>2, StreamIs DEF OutcomeInv, MemoryOK, SentOK, JournalOK, BrokerType
  <2> QED
    BY <1>1, <2>1, StreamIs DEF OutcomeInv, MemoryOK, WaitsOK, WaitsIn, BrokerType
<1>4. /\ broker'.qty = broker.qty /\ broker'.entered = broker.entered /\ broker'.taken = broker.taken
      /\ broker'.stop = broker.stop /\ broker'.rev = broker.rev /\ broker'.opened = broker.opened
      /\ broker'.paid = broker.paid /\ broker'.sched = broker.sched /\ broker'.since = broker.since
      /\ broker'.answer = broker.answer
  BY <1>3 DEF BrokerType
<1>5. Outside /\ Outside' /\ Stream = queue /\ Stream' = queue /\ ~Behind /\ ~Behind' /\ WaitsIn(broker, due)' = WaitsIn(broker, due)
  BY <1>1, <1>4 DEF Outside, Stream, Behind, Simulating, WaitsIn
<1>6. \A i \in 1..Len(queue) : queue[i].status = "CANCEL" /\ queue[i].cmd \in Commands /\ queue[i].cmd # c
  <2>1. \A i \in 1..Len(queue) : EventOK(queue[i]) /\ queue[i].status = "CANCEL" /\ queue[i].cmd \in Commands
    BY <1>5, StreamIs DEF EventsOK
  <2> QED
    BY <1>2, <2>1 DEF EventOK, Kinds, Increases, Exits
<1>7. ASSUME trade'.phase = trade.phase, broker' = broker
      PROVE  RoadOK' /\ HoldsOK(broker, Stream)' /\ TargetOK' /\ AgainOK(broker, due)' /\ KnownOK' /\ StagesOK'
  <2>1. RoadOK'
    <3>1. Looser
      BY <1>1, <1>7, LooserIs
    <3>2. PICK k, b : k = trade /\ b = broker
      OBVIOUS
    <3>3. b.known => Alike(k, b)'
      BY <1>0, <1>5, <3>1, <3>2, AlikeStays DEF RoadOK
    <3>4. b.known => Alike(trade, b)'
      BY <3>2, <3>3 DEF Alike
    <3> QED
      BY <1>5, <1>7, <3>2, <3>4 DEF RoadOK
  <2>2. HoldsOK(broker, Stream)'
    <3>1. Of(Commands, {"OPEN"}) \subseteq Of(Commands, {"OPEN"})'
      BY <1>2 DEF Of
    <3> QED
      BY <1>0, <1>5, <1>7, <3>1 DEF HoldsOK, Zero
  <2>3. TargetOK'
    <3>1. trade.phase \in Manageable => Boundary' = Boundary
      BY <1>7, LiveBoundary, NextBoundary DEF TypeInv, Live, RestartAt
    <3>2. \A x \in Of(Accepted, Increases)' : x \in Of(Accepted, Increases) /\ x \in Commands /\ x # c /\ order'[x] = order[x]
      BY <1>2 DEF Accepted, Of
    <3>3. PICK t : t = Boundary + 1
      OBVIOUS
    <3>4. trade.phase \in Manageable /\ TakenOK(t) => TakenOK(t)'
      BY <1>1, <3>2 DEF TakenOK, Taken, Blocked, Limit
    <3> QED
      BY <1>0, <1>7, <3>1, <3>3, <3>4 DEF TargetOK
  <2>4. AgainOK(broker, due)'
    <3>1. \A x \in Of(WaitsIn(broker, due), Increases)' :
             x \in Of(WaitsIn(broker, due), Increases) /\ x \in Commands /\ x # c /\ order'[x] = order[x]
      BY <1>2, <1>3, <1>5 DEF Of
    <3> QED
      BY <1>0, <1>1, <1>4, <1>5, <1>7, <3>1 DEF AgainOK, Taken, Blocked, Limit
  <2>5. KnownOK'
    BY <1>0, <1>1, <1>7 DEF KnownOK
  <2>6. StagesOK'
    BY <1>0, <1>1, <1>5, <1>6, <1>7 DEF StagesOK, BeforeOK, Before, Behind, Simulating, Taken, Grows
  <2> QED
    BY <2>1, <2>2, <2>3, <2>4, <2>5, <2>6
<1>8. ASSUME trade.phase = "none", trade'.phase = "ENTRY_PENDING", broker' = [broker EXCEPT !.known = TRUE]
      PROVE  RoadOK' /\ HoldsOK(broker, Stream)' /\ TargetOK' /\ AgainOK(broker, due)' /\ KnownOK' /\ StagesOK'
  <2>1. broker'.known /\ Zero(broker) /\ Zero(trade) /\ queue = <<>>
    BY <1>0, <1>3, <1>5, <1>8 DEF KnownOK, HoldsOK, RowsOK, Unopened, BrokerType
  <2>2. RoadOK'
    BY <1>4, <1>5, <2>1 DEF RoadOK, Alike, Zero
  <2>3. HoldsOK(broker, Stream)'
    BY <1>4, <1>8, <2>1 DEF HoldsOK, Zero, Finished
  <2>4. TargetOK' /\ AgainOK(broker, due)'
    BY <1>8 DEF TargetOK, AgainOK, Manageable
  <2>5. KnownOK'
    BY <1>8, <2>1 DEF KnownOK
  <2>6. StagesOK'
    <3>1. /\ broker'.entered = trade'.entered /\ broker'.taken = trade'.taken /\ trade'.phase \notin Manageable
          /\ broker'.opened <= cursor' \/ broker'.opened = trade'.increased
      BY <1>0, <1>1, <1>4, <1>5, <1>8, <2>1 DEF StagesOK, BeforeOK, Before, Zero, Manageable
    <3>2. pc' \notin Simulating /\ queue' = <<>>
      BY <1>1, <2>1 DEF Simulating
    <3> QED
      BY <3>1, <3>2 DEF StagesOK, BeforeOK
  <2> QED
    BY <2>2, <2>3, <2>4, <2>5, <2>6
<1>9. RoadOK' /\ HoldsOK(broker, Stream)' /\ TargetOK' /\ AgainOK(broker, due)' /\ KnownOK' /\ StagesOK'
  BY <1>7, <1>8
<1>10. Unopened' => Unopened
  BY DEF Unopened
<1>11. trade'.phase \in Manageable \cup Finished => trade'.phase = trade.phase
  BY DEF Manageable, Finished
<1>12. RowsOK'
  <2>1. Unopened' => Zero(trade)' /\ trade'.executed = 0 /\ trade'.observed = 0 /\ trade'.increased = 0
    BY <1>0, <1>10 DEF RowsOK, Zero
  <2>2. trade'.qty > 0 => trade'.stop > 0
    BY <1>0 DEF RowsOK
  <2>3. \A x \in Of(Commands, {"MOVESTOP"})' : order'[x].level > 0
    BY <1>0, <1>2 DEF RowsOK, Of
  <2>4. ASSUME NEW x \in applied
        PROVE  /\ x[1] = StopHit => trade'.phase \in Finished
               /\ x[1] = TargetHit => ~Unopened' /\ x[2] = "FILL" /\ x[3] \in 0..trade'.executed
               /\ x[1] \in Commands /\ x[2] = "ACTIVE" => order'[x[1]].kind = "MOVESTOP" /\ order'[x[1]].status # "PENDING"
    <3>1. x[1] = StopHit => trade'.phase \in Finished
      BY <1>0 DEF RowsOK, Finished
    <3>2. x[1] = TargetHit => ~Unopened' /\ x[2] = "FILL" /\ x[3] \in 0..trade'.executed
      BY <1>0, <1>10 DEF RowsOK
    <3>3. x[1] \in Commands => order'[x[1]] = order[x[1]]
      BY <1>2 DEF OutcomeInv, AppliedOK
    <3> QED
      BY <1>0, <3>1, <3>2, <3>3 DEF RowsOK
  <2> QED
    BY <1>1, <2>1, <2>2, <2>3, <2>4 DEF RowsOK
<1>13. ClockOK'
  <2>1. trade'.phase \in Manageable => Boundary' = Boundary
    BY <1>11, LiveBoundary, NextBoundary DEF TypeInv, Live, RestartAt
  <2> QED
    BY <1>0, <1>1, <1>5, <1>11, <2>1 DEF ClockOK, Simulating
<1>14. OwnOK(broker, Stream)'
  <2>1. \A i \in 1..Len(queue) : queue[i].cmd \in Of(Commands, {"OPEN"})' => queue[i].cmd \in Of(Commands, {"OPEN"})
    BY <1>2, <1>6 DEF Of
  <2> QED
    BY <1>0, <1>1, <1>4, <1>5, <2>1 DEF OwnOK
<1>15. TargetsIn(Stream)'
  <2>1. PICK q : q = queue
    OBVIOUS
  <2>2. \A i \in 1..Len(q) : ~Grows(q[i])' /\ q[i].cmd # TargetHit
    BY <1>6, <2>1, OwnIds DEF Grows
  <2>3. TargetsIn(q)'
    BY <2>2 DEF TargetsIn
  <2> QED
    BY <1>5, <2>1, <2>3
<1>16. SinceOK'
  <2>1. \A x \in Of(Accepted, Increases)' : x \in Of(Accepted, Increases) /\ x \in Commands /\ x # c /\ order'[x] = order[x]
    BY <1>2 DEF Accepted, Of
  <2> QED
    BY <1>0, <1>1, <1>4, <1>5, <2>1 DEF SinceOK, Simulating
<1> QED
  BY <1>9, <1>12, <1>13, <1>14, <1>15, <1>16 DEF BookInv

LEMMA SubmitsBook ==
  ASSUME TypeInv, OutcomeInv, BookInv, TypeInv', NEW c \in Commands,
         \/ SubmitPlan(c) \/ SubmitAdd(c) \/ SubmitClose(c) \/ SubmitReduce(c)
         \/ \E level \in StopLevels : SubmitMove(c, level)
         \/ \E late \in BOOLEAN : SubmitCancel(c, late)
  PROVE  BookInv'
<1>1. CASE SubmitPlan(c)
  <2>1. /\ trade'.phase = "ENTRY_PENDING" /\ trade'.rev = trade.rev /\ trade'.qty = trade.qty
        /\ trade'.entered = trade.entered /\ trade'.taken = trade.taken /\ trade'.stop = trade.stop
        /\ trade'.increased = trade.increased /\ trade'.paid = trade.paid
        /\ trade'.executed = trade.executed /\ trade'.observed = trade.observed
    BY <1>1 DEF SubmitPlan, TypeInv, TradeType
  <2>2. /\ Insert(c, "OPEN", EntrySize, 0, FALSE) /\ trade.phase = "none" /\ broker' = [broker EXCEPT !.known = TRUE]
    BY <1>1 DEF SubmitPlan
  <2> QED
    BY <2>1, <2>2, DecidesBook
<1>2. ASSUME NEW kind, NEW size, NEW late, kind # "MOVESTOP", Insert(c, kind, size, 0, late), trade' = trade, broker' = broker
      PROVE  BookInv'
  BY <1>2, DecidesBook
<1>3. CASE SubmitAdd(c)
  BY <1>2, <1>3 DEF SubmitAdd
<1>4. CASE SubmitClose(c)
  BY <1>2, <1>4 DEF SubmitClose
<1>5. CASE SubmitReduce(c)
  BY <1>2, <1>5 DEF SubmitReduce
<1>6. ASSUME NEW level \in StopLevels, SubmitMove(c, level) PROVE BookInv'
  <2>1. /\ trade'.phase = trade.phase /\ trade'.rev = trade.rev /\ trade'.qty = trade.qty
        /\ trade'.entered = trade.entered /\ trade'.taken = trade.taken /\ trade'.stop = trade.stop
        /\ trade'.increased = trade.increased /\ trade'.paid = trade.paid
        /\ trade'.executed = trade.executed /\ trade'.observed = trade.observed
    BY <1>6 DEF SubmitMove, TypeInv, TradeType
  <2>2. Insert(c, "MOVESTOP", 1, level, FALSE) /\ broker' = broker
    BY <1>6 DEF SubmitMove
  <2>3. level \in Nat \ {0}
    BY PricesAssumption
  <2>4. level > 0
    BY <2>3
  <2> QED
    BY <2>1, <2>2, <2>4, DecidesBook
<1>7. ASSUME NEW late \in BOOLEAN, SubmitCancel(c, late) PROVE BookInv'
  BY <1>2, <1>7 DEF SubmitCancel
<1> QED
  BY <1>1, <1>3, <1>4, <1>5, <1>6, <1>7

-----------------------------------------------------------------------------
(* A cancellation of the increases leaves the position as it is.           *)

SameHolding(b, n) ==
  /\ n.known = b.known /\ n.qty = b.qty /\ n.entered = b.entered /\ n.taken = b.taken /\ n.stop = b.stop
  /\ n.rev = b.rev /\ n.opened = b.opened /\ n.paid = b.paid /\ n.since = b.since

LEMMA AnsweredBook ==
  ASSUME NEW s, SimOK(s), NEW e, EventOK(e), e.cmd \in Commands
  PROVE  SameHolding(s.b, Answered(s, e).b)
<1> DEFINE a == IF e.status = "ACTIVE" THEN "ACK" ELSE e.status
           b == [s.b EXCEPT !.answer[e.cmd] = a]
<1>1. s.b \in BrokerType
  BY FieldsAre
<1>2. Answered(s, e).b = b
  BY DEF Answered
<1> HIDE DEF a
<1>3. SameHolding(s.b, b)
  BY <1>1 DEF BrokerType, SameHolding
<1> QED
  BY <1>2, <1>3

LEMMA CancelledBook ==
  ASSUME NEW s, SimOK(s), NEW rest \in SUBSET Commands, NEW t \in Nat, BarOK(s, rest)
  PROVE  LET n == Cancelled(s, rest, t) IN
         /\ SameHolding(s.b, n.b) /\ n.b.sched \subseteq s.b.sched
         /\ \/ n.q = s.q /\ n.b.answer = s.b.answer
            \/ \E x \in Of(WaitsIn(s.b, rest), Increases) :
                 /\ n.q = Append(s.q, Event(x, "CANCEL", 0, t, 0)) /\ n.b.answer[x] = "CANCEL"
                 /\ \A c \in Commands : c # x => n.b.answer[c] = s.b.answer[c]
<1> DEFINE open == {c \in Of(s.b.sched \cup rest, Increases) : s.b.answer[c] \notin {"FILL", "CANCEL", "REJECT"}}
           x == CHOOSE c \in open : TRUE
           e == Event(x, "CANCEL", 0, t, 0)
           out == IF open = {} THEN s ELSE Answered(s, e)
           kept == out.b.sched \ Of(out.b.sched, Increases)
           n == [out EXCEPT !.b.sched = kept]
<1>1. s = [b |-> s.b, q |-> s.q] /\ s.b \in BrokerType /\ EventsOK(s.q) /\ s.b.sched \subseteq Commands
  BY FieldsAre DEF BrokerType
<1>2. open = Of(WaitsIn(s.b, rest), Increases) /\ open \subseteq Commands
  BY <1>1 DEF BarOK, MemoryOK, WaitsOK, SentOK, WaitsIn, Of
<1>3. Cancelled(s, rest, t) = n
  BY DEF Cancelled
<1>4. open # {} => x \in open
  OBVIOUS
<1> HIDE DEF open, x
<1>5. CASE open = {}
  <2>1. out = s
    BY <1>5
  <2> HIDE DEF out
  <2>2. n = [b |-> [s.b EXCEPT !.sched = kept], q |-> s.q] /\ kept \subseteq s.b.sched
    BY <1>1, <2>1
  <2> HIDE DEF kept
  <2>3. SameHolding(s.b, n.b) /\ n.b.sched = kept /\ n.q = s.q /\ n.b.answer = s.b.answer
    BY <1>1, <2>2 DEF BrokerType, SameHolding
  <2> HIDE DEF n
  <2> QED
    BY <1>3, <2>2, <2>3
<1>6. CASE open # {}
  <2>1. x \in Of(WaitsIn(s.b, rest), Increases) /\ x \in Commands /\ order[x].kind \in Increases
    BY <1>2, <1>4, <1>6 DEF Of
  <2>2. EventOK(e) /\ e.cmd = x /\ e.status = "CANCEL"
    BY <2>1 DEF EventOK, Event, EventType, Kinds
  <2>3. out = Answered(s, e)
    BY <1>6
  <2> HIDE DEF e, out
  <2>4. /\ out.b \in BrokerType /\ out.q = Append(s.q, e) /\ out.b.sched = s.b.sched
        /\ out.b.answer[x] = "CANCEL"
        /\ \A c \in Commands : c # x => out.b.answer[c] = s.b.answer[c]
    BY <2>1, <2>2, <2>3, AnsweredIs
  <2>5. out = [b |-> out.b, q |-> out.q] /\ SameHolding(s.b, out.b)
    BY <2>1, <2>2, <2>3, AnsweredOK, AnsweredBook DEF SimOK
  <2>6. kept \subseteq s.b.sched
    BY <2>4
  <2> HIDE DEF kept
  <2>7. n = [b |-> [out.b EXCEPT !.sched = kept], q |-> out.q]
    BY <2>5
  <2>8. /\ n.q = Append(s.q, e) /\ n.b.sched = kept /\ n.b.answer = out.b.answer /\ SameHolding(out.b, n.b)
    BY <2>4, <2>7 DEF BrokerType, SameHolding
  <2> HIDE DEF n
  <2>9. SameHolding(s.b, n.b)
    BY <2>5, <2>8 DEF SameHolding
  <2>10. n.q = Append(s.q, Event(x, "CANCEL", 0, t, 0))
    BY <2>8 DEF e
  <2> QED
    BY <1>3, <2>1, <2>4, <2>6, <2>8, <2>9, <2>10
<1> QED
  BY <1>5, <1>6

-----------------------------------------------------------------------------
(* Delivery: the broker answers, and its position stays.                   *)

\* The book b with the queue q, once c is answered.
Delivered(c, b, q) ==
  /\ b.qty = broker.qty /\ b.entered = broker.entered /\ b.taken = broker.taken /\ b.stop = broker.stop
  /\ b.opened = broker.opened /\ b.paid = broker.paid /\ b.known = broker.known
  /\ \/ b.rev = broker.rev
     \/ b.rev = broker.rev + 1 /\ broker.known /\ inflight'.status = "CANCEL" /\ broker.qty = 0
  /\ \A x \in Commands : x # c => b.since[x] = broker.since[x]
  /\ \A x \in Commands : broker.answer[x] = "FILL" => b.answer[x] = "FILL"
  /\ WaitsIn(b, {}) \subseteq WaitsIn(broker, {}) \cup {c}
  /\ inflight'.status = "ACK" => inflight'.bar = b.since[c]
  /\ \A i \in 1..Len(q) : q[i].cmd \in Of(Commands, {"OPEN"}) => b.qty = 0
  /\ ~broker.known => q = <<>>

LEMMA DeliveredBook ==
  ASSUME TypeInv, OutcomeInv, BookInv, TypeInv', NEW c \in Commands, Decides, Eligible(c), pc' = "sent",
         order' = [order EXCEPT ![c].outbox = "CLAIMED"],
         UNCHANGED <<bars, trade, applied, due, batch, done, cursor, cut>>,
         NEW b, NEW q, broker' = b, queue' = q, inflight'.cmd = c,
         Delivered(c, b, q)
  PROVE  BookInv'
<1> USE DEF Delivered
<1>0. /\ RowsOK /\ KnownOK /\ ClockOK /\ OwnOK(broker, Stream) /\ HoldsOK(broker, Stream)
      /\ TargetOK /\ AgainOK(broker, due) /\ TargetsIn(Stream) /\ SinceOK /\ StagesOK /\ RoadOK
  BY DEF BookInv
<1>1. /\ bars' = bars /\ trade' = trade /\ applied' = applied /\ due' = due /\ batch' = batch /\ cursor' = cursor
      /\ cut' = cut /\ pc = "work" /\ pc' = "sent" /\ batch = <<>> /\ due = {} /\ cursor >= Len(bars)
      /\ order[c].status = "PENDING"
  BY EligibleIs DEF Decides
<1>2. \A x \in Commands : /\ order'[x].kind = order[x].kind /\ order'[x].level = order[x].level
                          /\ order'[x].status = order[x].status /\ order'[x].since = order[x].since
                          /\ order'[x].outbox # order[x].outbox => order[x].status = "PENDING"
  <2>1. order \in [Commands -> OrderType]
    BY DEF TypeInv, OrdersOK
  <2> QED
    BY <1>1, <2>1 DEF OrderType
<1>3. Accepted' \subseteq Accepted /\ Accepted \subseteq Commands /\ c \notin Accepted
  BY <1>1, <1>2 DEF Accepted
<1>4. Outside /\ Outside' /\ Stream = queue /\ Stream' = q /\ ~Behind /\ ~Behind' /\ due' = {} /\ Before
  BY <1>1 DEF Outside, Stream, Behind, Simulating, Before
<1>5. b \in BrokerType /\ broker \in BrokerType /\ EventsOK(q)' /\ cursor \in Nat
  BY <1>1 DEF TypeInv, BrokerOK, QueueOK
<1>6. \A i \in 1..Len(q) : q[i].status = "CANCEL" /\ q[i].cmd \in Commands
  <2>1. \A i \in 1..Len(q) : q[i].status = "CANCEL"
    BY <1>1 DEF TypeInv, QueueOK, Simulating
  <2>2. \A i \in 1..Len(q) : EventOK(q[i])'
    BY <1>5 DEF EventsOK
  <2> QED
    BY <2>1, <2>2 DEF EventOK
<1>7. WaitsIn(b, {}) \subseteq Commands /\ WaitsIn(broker, {}) \subseteq Commands
  BY <1>5 DEF WaitsIn, BrokerType
<1>8. RoadOK'
  <2>1. (StopKept' => StopKept) /\ (RevKept' => RevKept)
    BY <1>1 DEF StopKept, RevKept
  <2>2. b.known => trade.qty = broker.qty /\ trade.entered = broker.entered /\ trade.taken = broker.taken
                   /\ (StopKept => trade.stop = broker.stop) /\ (RevKept => trade.rev = broker.rev)
    BY <1>0, <1>4 DEF RoadOK, Alike
  <2>3. b.known /\ RevKept' => b.rev = broker.rev
    BY <1>1, <2>2 DEF RevKept
  <2>4. b.known => Alike(trade, b)'
    BY <1>1, <2>1, <2>2, <2>3 DEF Alike
  <2> QED
    BY <1>4, <2>4 DEF RoadOK
<1>9. HoldsOK(b, q)'
  <2>1. Of(Commands, {"OPEN"}) = Of(Commands, {"OPEN"})'
    BY <1>2 DEF Of
  <2>2. /\ ~broker.known => Zero(broker)
        /\ trade.phase \in Finished => broker.qty = 0
        /\ broker.qty > 0 => broker.stop > 0 /\ (trade.qty > 0 \/ \E x \in Of(Commands, {"OPEN"}) : broker.answer[x] = "FILL")
    BY <1>0, <1>4 DEF HoldsOK
  <2>3. ~b.known => Zero(b) /\ q = <<>>
    BY <2>2 DEF Zero
  <2>4. b.qty > 0 => b.stop > 0 /\ (trade.qty > 0 \/ \E x \in Of(Commands, {"OPEN"}) : b.answer[x] = "FILL")
    BY <2>2 DEF Of
  <2>5. ~b.known => Zero(b)' /\ q = <<>>
    BY <2>3 DEF Zero
  <2> QED
    BY <1>1, <2>1, <2>2, <2>4, <2>5 DEF HoldsOK
<1>10. RowsOK'
  <2>1. Of(Commands, {"MOVESTOP"}) = Of(Commands, {"MOVESTOP"})'
    BY <1>2 DEF Of
  <2>2. \A x \in Of(Commands, {"MOVESTOP"})' : order'[x].level > 0
    <3>1. Of(Commands, {"MOVESTOP"}) \subseteq Commands
      BY DEF Of
    <3> QED
      BY <1>0, <1>2, <2>1, <3>1 DEF RowsOK
  <2>3. Unopened' <=> Unopened
    BY <1>1 DEF Unopened
  <2> QED
    BY <1>0, <1>1, <1>2, <2>2, <2>3 DEF RowsOK, Zero
<1>11. KnownOK'
  BY <1>0, <1>1 DEF KnownOK
<1>12. ClockOK'
  <2>1. Boundary' = Boundary
    BY <1>1 DEF Boundary
  <2>2. cursor = Len(bars)
    BY <1>0, <1>1, ClockIs
  <2> QED
    BY <1>0, <1>1, <1>4, <2>1, <2>2 DEF ClockOK, Simulating
<1>13. OwnOK(b, q)'
  <2>1. Of(Commands, {"OPEN"}) = Of(Commands, {"OPEN"})'
    BY <1>2 DEF Of
  <2>2. \A i, j \in 1..Len(q) : q[i].cmd = q[j].cmd => i = j \/ q[i].cmd \in Commands
    BY <1>6
  <2>3. b.opened <= cursor + 1
    BY <1>0 DEF OwnOK
  <2>4. \A i \in 1..Len(q) : q[i].cmd # StopHit
    BY <1>6, OwnIds
  <2> QED
    BY <1>1, <1>6, <2>1, <2>2, <2>3, <2>4 DEF OwnOK
<1>14. TargetOK'
  <2>1. Boundary' = Boundary
    BY <1>1 DEF Boundary
  <2>2. PICK t : t = Boundary + 1
    OBVIOUS
  <2>3. Of(Accepted, Increases)' \subseteq Of(Accepted, Increases)
    BY <1>2, <1>3 DEF Of
  <2>4. \A x \in Of(Accepted, Increases)' : x \in Commands
    BY <1>3, <2>3 DEF Of
  <2>5. TakenOK(t) => TakenOK(t)'
    BY <1>1, <1>2, <2>3, <2>4 DEF TakenOK, Taken, Blocked, Limit
  <2> QED
    BY <1>0, <1>1, <2>1, <2>2, <2>5 DEF TargetOK
<1>15. ~Taken(cursor + 1) /\ ~Taken(cursor + 1)'
  <2>1. PICK t : t = cursor + 1
    OBVIOUS
  <2>2. ~Taken(t)
    <3>1. t \in Nat /\ ~(t <= Len(bars)) /\ Len(bars) \in Nat
      BY <1>1, <1>5, <2>1 DEF TypeInv
    <3> QED
      BY <1>0, <3>1, TakenIs
  <2>3. ~Taken(t)'
    BY <1>1, <2>2 DEF Taken
  <2> QED
    BY <1>1, <2>1, <2>2, <2>3
<1>16. AgainOK(broker, due)'
  BY <1>15 DEF AgainOK
<1>17. TargetsIn(q)'
  BY <1>6, <1>15, OwnIds DEF TargetsIn
<1>18. SinceOK'
  <2>1. WaitsIn(broker, due)' = WaitsIn(b, {}) /\ WaitsIn(broker, due) = WaitsIn(broker, {})
    BY <1>1, <1>4 DEF WaitsIn
  <2>2. \A x \in Of(Accepted, Increases)' : x \in WaitsIn(b, {}) => b.since[x] = order'[x].since
    <3> SUFFICES ASSUME NEW x \in Of(Accepted, Increases)', x \in WaitsIn(b, {})
                 PROVE  b.since[x] = order'[x].since
      OBVIOUS
    <3>1. x \in Of(Accepted, Increases) /\ x \in Commands /\ x # c
      BY <1>2, <1>3 DEF Of
    <3>2. x \in WaitsIn(broker, due)
      BY <2>1, <3>1
    <3> QED
      BY <1>0, <1>2, <3>1, <3>2 DEF SinceOK
  <2>3. \A x \in WaitsIn(b, {}) : (\E y \in applied : y[1] = x /\ y[2] = "ACTIVE") => "stop" \in cut
    <3> SUFFICES ASSUME NEW x \in WaitsIn(b, {}), NEW y \in applied, y[1] = x, y[2] = "ACTIVE" PROVE "stop" \in cut
      OBVIOUS
    <3>1. x # c
      BY <1>0, <1>1 DEF RowsOK
    <3>2. x \in WaitsIn(broker, due)
      BY <2>1, <3>1
    <3> QED
      BY <1>0, <3>2 DEF SinceOK
  <2> QED
    BY <1>1, <2>1, <2>2, <2>3 DEF SinceOK, Simulating
<1>19. StagesOK'
  <2>1. BeforeOK(broker, queue)
    BY <1>0, <1>4 DEF StagesOK
  <2>2. /\ b.known => /\ b.entered = trade.entered /\ b.taken = trade.taken
                      /\ trade.phase \in Manageable /\ trade.increased = cursor + 1 =>
                           b.opened = trade.increased /\ b.paid = trade.paid
        /\ b.opened <= cursor \/ b.opened = trade.increased
    <3>1. \A i \in 1..Len(queue) : ~Grows(queue[i])
      BY <1>4, StreamIs DEF Grows
    <3> QED
      BY <2>1, <3>1 DEF BeforeOK
  <2>3. \A i \in 1..Len(q) : q[i].cmd # TargetHit
    BY <1>6, OwnIds
  <2>4. BeforeOK(b, q)'
    BY <1>1, <1>15, <2>2, <2>3 DEF BeforeOK
  <2> QED
    BY <1>1, <2>4 DEF StagesOK, Simulating
<1>20. HoldsOK(broker, Stream)' /\ OwnOK(broker, Stream)' /\ TargetsIn(Stream)'
  BY <1>4, <1>9, <1>13, <1>17
<1> QED
  BY <1>8, <1>10, <1>11, <1>12, <1>14, <1>16, <1>18, <1>19, <1>20 DEF BookInv

LEMMA DeliverBook ==
  ASSUME TypeInv, OutcomeInv, OneOpenIncrease, BookInv, TypeInv', NEW c \in Commands, NEW d \in Delays, Deliver(c, d)
  PROVE  BookInv'
<1> DEFINE e == Answer(c, d)
           a == e.status
           now == Len(bars) + 1 + d
           waiting == Of(broker.sched, Increases)
           x == Cancelled(Sim, {}, 0)
           rev == IF x.b.qty = 0 THEN x.b.rev + 1 ELSE x.b.rev
<1>0. HoldsOK(broker, Stream) /\ OwnOK(broker, Stream)
  BY DEF BookInv
<1>1. /\ pc = "work" /\ pc' = "sent" /\ Eligible(c) /\ inflight' = e /\ Decides
      /\ order' = [order EXCEPT ![c].outbox = "CLAIMED"]
      /\ Becomes(Submitted(e)) /\ UNCHANGED <<bars, trade, applied, due, batch, done, cursor, cut>>
  BY DEF Deliver, Decides, First
<1>2. /\ order[c].kind \in Kinds /\ broker.answer[c] = "none" /\ c \notin broker.sched
      /\ due = {} /\ batch = <<>> /\ Stream = queue
  BY <1>1, EligibleIs
<1>3. e.cmd = c /\ e.bar \in Nat
  BY <1>2, AnswerIs
<1>4. broker \in BrokerType /\ broker' \in BrokerType
  BY DEF TypeInv, BrokerOK
<1>5. PICK b, q : b = broker' /\ q = queue'
  OBVIOUS
<1>6. \A i \in 1..Len(queue) : queue[i].status = "CANCEL" /\ (queue[i].cmd \in Of(Commands, {"OPEN"}) => broker.qty = 0)
  BY <1>0, <1>1, <1>2 DEF OwnOK, TypeInv, QueueOK, Simulating
<1>7. ~broker.known => queue = <<>>
  BY <1>0, <1>2 DEF HoldsOK
<1>8. \/ a = "REJECT"
      \/ a = "ACK" /\ order[c].kind # "CANCEL"
      \/ a = "CANCEL" /\ order[c].kind = "CANCEL" /\ broker.known
  <2>1. /\ (~broker.known \/ order[c].rev # broker.rev) => e = Event(c, "REJECT", 0, now, 0)
        /\ broker.known /\ order[c].rev = broker.rev =>
             e = IF order[c].kind # "CANCEL" THEN Event(c, "ACK", 0, now, 0)
                 ELSE IF broker.qty > 0 /\ waiting = {} THEN Event(c, "REJECT", 0, now, 0)
                 ELSE Event(c, "CANCEL", 0, now, 0)
    BY <1>2 DEF Answer
  <2>2. \A st : Event(c, st, 0, now, 0).status = st
    BY DEF Event
  <2> HIDE DEF e, now, waiting
  <2> QED
    BY <2>1, <2>2
<1> HIDE DEF e
<1>9. CASE a = "REJECT"
  <2>1. Submitted(e) = [b |-> [broker EXCEPT !.answer[c] = a, !.since[c] = e.bar], q |-> queue]
    BY <1>3, <1>9 DEF Submitted
  <2>2. b = [broker EXCEPT !.answer[c] = "REJECT", !.since[c] = e.bar] /\ q = queue
    BY <1>1, <1>5, <1>9, <2>1 DEF Becomes
  <2>3. /\ b.qty = broker.qty /\ b.entered = broker.entered /\ b.taken = broker.taken /\ b.stop = broker.stop
        /\ b.opened = broker.opened /\ b.paid = broker.paid /\ b.known = broker.known /\ b.rev = broker.rev
        /\ \A y \in Commands : y # c => b.since[y] = broker.since[y] /\ b.answer[y] = broker.answer[y]
        /\ b.sched = broker.sched
    BY <1>4, <2>2 DEF BrokerType
  <2>4. WaitsIn(b, {}) \subseteq WaitsIn(broker, {}) \cup {c}
    BY <1>4, <2>3 DEF WaitsIn, BrokerType
  <2>5. \A y \in Commands : broker.answer[y] = "FILL" => b.answer[y] = "FILL"
    BY <1>2, <2>3
  <2>6. \A i \in 1..Len(q) : q[i].cmd \in Of(Commands, {"OPEN"}) => b.qty = 0
    BY <1>6, <2>2, <2>3
  <2>7. inflight'.cmd = c /\ inflight'.status # "ACK" /\ broker' = b /\ queue' = q /\ (~broker.known => q = <<>>)
    BY <1>1, <1>3, <1>5, <1>7, <1>9, <2>2
  <2>8. \A y \in Commands : y # c => b.since[y] = broker.since[y]
    BY <2>3
  <2>9. /\ b.qty = broker.qty /\ b.entered = broker.entered /\ b.taken = broker.taken /\ b.stop = broker.stop
        /\ b.opened = broker.opened /\ b.paid = broker.paid /\ b.known = broker.known
        /\ \/ b.rev = broker.rev
           \/ b.rev = broker.rev + 1 /\ broker.known /\ inflight'.status = "CANCEL" /\ broker.qty = 0
    BY <2>3
  <2>10. Delivered(c, b, q)
    BY <2>4, <2>5, <2>6, <2>7, <2>8, <2>9 DEF Delivered
  <2> QED
    BY <1>1, <2>7, <2>10, DeliveredBook
<1>10. CASE a = "ACK" /\ order[c].kind # "CANCEL"
  <2>1. Submitted(e) =
          [b |-> [[broker EXCEPT !.answer[c] = a, !.since[c] = e.bar] EXCEPT !.sched = @ \cup {c}], q |-> queue]
    BY <1>2, <1>3, <1>10 DEF Submitted
  <2>2. b = [[broker EXCEPT !.answer[c] = a, !.since[c] = e.bar] EXCEPT !.sched = @ \cup {c}] /\ q = queue
    BY <1>1, <1>5, <2>1 DEF Becomes
  <2>3. /\ b.qty = broker.qty /\ b.entered = broker.entered /\ b.taken = broker.taken /\ b.stop = broker.stop
        /\ b.opened = broker.opened /\ b.paid = broker.paid /\ b.known = broker.known /\ b.rev = broker.rev
        /\ \A y \in Commands : y # c => b.since[y] = broker.since[y] /\ b.answer[y] = broker.answer[y]
        /\ b.sched = broker.sched \cup {c} /\ b.since[c] = e.bar
    BY <1>4, <2>2 DEF BrokerType
  <2>4. WaitsIn(b, {}) \subseteq WaitsIn(broker, {}) \cup {c}
    BY <1>4, <2>3 DEF WaitsIn, BrokerType
  <2>5. \A y \in Commands : broker.answer[y] = "FILL" => b.answer[y] = "FILL"
    BY <1>2, <2>3
  <2>6. \A i \in 1..Len(q) : q[i].cmd \in Of(Commands, {"OPEN"}) => b.qty = 0
    BY <1>6, <2>2, <2>3
  <2>7. inflight'.cmd = c /\ broker' = b /\ queue' = q
    BY <1>1, <1>3, <1>5
  <2>10. inflight'.status = "ACK" /\ inflight'.bar = b.since[c]
    BY <1>1, <1>10, <2>3
  <2>11. ~broker.known => q = <<>>
    BY <1>7, <2>2
  <2>8. \A y \in Commands : y # c => b.since[y] = broker.since[y]
    BY <2>3
  <2>9. /\ b.qty = broker.qty /\ b.entered = broker.entered /\ b.taken = broker.taken /\ b.stop = broker.stop
        /\ b.opened = broker.opened /\ b.paid = broker.paid /\ b.known = broker.known
        /\ \/ b.rev = broker.rev
           \/ b.rev = broker.rev + 1 /\ broker.known /\ inflight'.status = "CANCEL" /\ broker.qty = 0
    BY <2>3
  <2>12. Delivered(c, b, q)
    BY <2>4, <2>5, <2>6, <2>8, <2>9, <2>10, <2>11 DEF Delivered
  <2> QED
    BY <1>1, <2>7, <2>12, DeliveredBook
<1>11. CASE a = "CANCEL" /\ order[c].kind = "CANCEL" /\ broker.known
  <2>1. Submitted(e) = [x EXCEPT !.b.answer[c] = "CANCEL", !.b.since[c] = e.bar,
                                 !.b.rev = IF x.b.qty = 0 THEN @ + 1 ELSE @]
    BY <1>2, <1>3, <1>11 DEF Submitted
  <2>2. SimOK(Sim) /\ Sim.b = broker /\ Sim.q = queue
    BY DEF TypeInv, QueueOK, Sim, SimOK
  <2>3. SimOK(x)
    BY <2>2, CancelledOK
  <2>4. BarOK(Sim, {})
    BY <1>2, <2>2 DEF OutcomeInv, BarOK
  <2>5. /\ SameHolding(broker, x.b) /\ x.b.sched \subseteq broker.sched
        /\ \/ x.q = queue /\ x.b.answer = broker.answer
           \/ \E y \in Of(WaitsIn(broker, {}), Increases) :
                /\ x.q = Append(queue, Event(y, "CANCEL", 0, 0, 0)) /\ x.b.answer[y] = "CANCEL"
                /\ \A z \in Commands : z # y => x.b.answer[z] = broker.answer[z]
    BY <2>2, <2>4, CancelledBook
  <2> HIDE DEF x
  <2>6. x = [b |-> x.b, q |-> x.q] /\ x.b \in BrokerType
    BY <2>3, FieldsAre
  <2>7. Submitted(e) = [b |-> [x.b EXCEPT !.answer[c] = "CANCEL", !.since[c] = e.bar, !.rev = rev], q |-> x.q]
    BY <2>1, <2>6
  <2>8. b = [x.b EXCEPT !.answer[c] = "CANCEL", !.since[c] = e.bar, !.rev = rev] /\ q = x.q
    BY <1>1, <1>5, <2>7 DEF Becomes
  <2>9. rev = IF broker.qty = 0 THEN broker.rev + 1 ELSE broker.rev
    BY <2>5 DEF SameHolding
  <2> HIDE DEF rev
  <2>10. /\ b.qty = x.b.qty /\ b.entered = x.b.entered /\ b.taken = x.b.taken /\ b.stop = x.b.stop
         /\ b.opened = x.b.opened /\ b.paid = x.b.paid /\ b.known = x.b.known /\ b.rev = rev
         /\ \A y \in Commands : y # c => b.since[y] = x.b.since[y] /\ b.answer[y] = x.b.answer[y]
         /\ b.sched = x.b.sched
    BY <2>6, <2>8 DEF BrokerType
  <2>11. WaitsIn(broker, {}) \subseteq Commands /\ WaitsIn(b, {}) \subseteq Commands /\ broker.sched \subseteq Commands
    BY <1>4, <1>5 DEF WaitsIn, BrokerType
  <2>12. \A y \in Commands : y # c => x.b.answer[y] = broker.answer[y] \/ x.b.answer[y] = "CANCEL"
    BY <2>5 DEF Of
  <2>13. WaitsIn(b, {}) \subseteq WaitsIn(broker, {}) \cup {c}
    <3> SUFFICES ASSUME NEW y \in WaitsIn(b, {}), y # c PROVE y \in WaitsIn(broker, {})
      OBVIOUS
    <3>1. y \in Commands /\ y \in broker.sched /\ x.b.answer[y] = "ACK"
      BY <2>5, <2>10, <2>11 DEF WaitsIn
    <3> QED
      BY <2>12, <3>1 DEF WaitsIn
  <2>14. \A y \in Commands : broker.answer[y] = "FILL" => b.answer[y] = "FILL"
    <3> SUFFICES ASSUME NEW y \in Commands, broker.answer[y] = "FILL" PROVE x.b.answer[y] = "FILL"
      BY <1>2, <2>10
    <3>1. \A z \in Of(WaitsIn(broker, {}), Increases) : z # y
      BY DEF Of, WaitsIn
    <3> QED
      BY <2>5, <3>1
  <2>15. \A i \in 1..Len(q) : q[i].cmd \in Of(Commands, {"OPEN"}) => b.qty = 0
    <3>1. b.qty = broker.qty
      BY <2>5, <2>10 DEF SameHolding
    <3>2. CASE q = queue
      BY <1>6, <3>1, <3>2
    <3>3. ASSUME NEW y \in Of(WaitsIn(broker, {}), Increases), q = Append(queue, Event(y, "CANCEL", 0, 0, 0))
          PROVE  \A i \in 1..Len(q) : q[i].cmd \in Of(Commands, {"OPEN"}) => b.qty = 0
      <4>1. y \in Of(Commands, {"OPEN"}) => broker.qty = 0
        <5> SUFFICES ASSUME order[y].kind = "OPEN" PROVE broker.qty = 0
          BY DEF Of
        <5>1. broker.rev = 0
          BY <1>2, <3>3 DEF OutcomeInv, RoomOK
        <5> QED
          BY <5>1 DEF OutcomeInv, MemoryOK, WaitsOK
      <4>2. PICK ev : ev = Event(y, "CANCEL", 0, 0, 0)
        OBVIOUS
      <4>3. ev.cmd = y
        BY <4>2 DEF Event
      <4>4. EventOK(ev)
        <5>1. y \in Commands /\ order[y].kind \in Increases
          BY <2>11, <3>3 DEF Of
        <5> QED
          BY <4>2, <5>1 DEF EventOK, Event, EventType, Kinds
      <4>5. queue \in Seq(EventType) /\ ev \in EventType
        BY <4>4 DEF TypeInv, QueueOK, EventsOK, EventOK
      <4>6. /\ Len(q) = Len(queue) + 1 /\ q[Len(queue) + 1] = ev /\ Len(queue) \in Nat
            /\ \A i \in 1..Len(queue) : q[i] = queue[i]
        BY <3>3, <4>2, <4>5
      <4>7. \A i \in 1..Len(q) : i \in 1..Len(queue) \/ i = Len(queue) + 1
        BY <4>6
      <4> QED
        BY <1>6, <3>1, <4>1, <4>3, <4>6, <4>7
    <3> QED
      BY <2>5, <2>8, <3>2, <3>3
  <2>16. b.rev = broker.rev \/ (b.rev = broker.rev + 1 /\ broker.known /\ inflight'.status = "CANCEL" /\ broker.qty = 0)
    BY <1>1, <1>11, <2>9, <2>10
  <2>17. /\ b.qty = broker.qty /\ b.entered = broker.entered /\ b.taken = broker.taken /\ b.stop = broker.stop
         /\ b.opened = broker.opened /\ b.paid = broker.paid /\ b.known = broker.known
         /\ \A y \in Commands : y # c => b.since[y] = broker.since[y]
    BY <2>5, <2>10 DEF SameHolding
  <2>18. inflight'.cmd = c /\ inflight'.status # "ACK" /\ broker' = b /\ queue' = q
    BY <1>1, <1>3, <1>5, <1>11
  <2>19. Delivered(c, b, q)
    BY <1>11, <2>13, <2>14, <2>15, <2>16, <2>17, <2>18 DEF Delivered
  <2> QED
    BY <1>1, <2>18, <2>19, DeliveredBook
<1> QED
  BY <1>8, <1>9, <1>10, <1>11

-----------------------------------------------------------------------------
(* What an event makes of the rows of the journal.                         *)

\* The fields of the trade after e.
NewTrade(e) ==
  /\ trade'.observed = trade.observed
  /\ e.status # "FILL" =>
       /\ trade'.qty = trade.qty /\ trade'.entered = trade.entered /\ trade'.taken = trade.taken
       /\ trade'.stop = trade.stop /\ trade'.increased = trade.increased /\ trade'.paid = trade.paid
       /\ trade'.executed = trade.executed
       /\ trade' = trade \/ trade'.phase \in Finished
       /\ e.status = "CANCEL" /\ Kind(e.cmd) \in {"OPEN", "CANCEL"} /\ trade.qty = 0 => trade'.phase \in Finished
  /\ e.status = "FILL" => trade'.executed = Larger(trade.executed, e.bar)
  /\ Grows(e) =>
       /\ trade'.qty = trade.qty + e.qty /\ trade'.entered = trade.entered + e.qty /\ trade'.taken = trade.taken
       /\ trade'.stop = Larger(trade.stop, Basis(e.cmd)) /\ trade'.rev = trade.rev + 1
       /\ trade'.increased = e.bar /\ trade'.paid = e.price
  /\ Reduces(e) =>
       /\ trade'.qty = trade.qty - e.qty /\ trade'.entered = trade.entered
       /\ trade'.taken = IF e.cmd = TargetHit THEN trade.taken + e.qty ELSE trade.taken
       /\ trade'.stop = trade.stop /\ trade'.increased = trade.increased /\ trade'.paid = trade.paid
       /\ trade'.rev = trade.rev + 1 \/ (trade'.qty > 0 /\ Kind(e.cmd) \in {"CLOSE", "STOP"})

LEMMA NewTradeIs ==
  ASSUME TypeInv, NEW e, Reducible(e), Apply(e)
  PROVE  NewTrade(e)
<1>1. trade' = TradeAfter(e) /\ trade \in TradeType
  BY DEF Apply, TypeInv
<1>2. CASE e.status \in {"ACK", "ACTIVE"}
  <2>1. trade' = trade
    BY <1>1, <1>2, TradeAfterIs
  <2> QED
    BY <1>2, <2>1 DEF NewTrade, Grows, Reduces
<1>3. CASE e.status \in {"CANCEL", "REJECT"}
  <2> DEFINE phase == IF e.status = "REJECT" /\ Kind(e.cmd) = "OPEN" THEN "REJECTED" ELSE "CANCELLED"
             ends == \/ e.status = "REJECT" /\ Kind(e.cmd) = "OPEN"
                     \/ Kind(e.cmd) \in {"OPEN", "CANCEL"} /\ trade.qty = 0
             ended == [trade EXCEPT !.phase = phase, !.rev = @ + 1]
  <2>1. trade' = TradeAfterRefusal(e)
    BY <1>1, <1>3 DEF TradeAfter
  <2>2. TradeAfterRefusal(e) = IF ends /\ trade.phase \notin Finished THEN ended ELSE trade
    BY DEF TradeAfterRefusal
  <2>3. phase \in Finished
    BY DEF Finished
  <2>7. e.status = "CANCEL" /\ Kind(e.cmd) \in {"OPEN", "CANCEL"} /\ trade.qty = 0 => ends
    OBVIOUS
  <2> HIDE DEF phase
  <2>4. /\ ended.phase = phase /\ ended.qty = trade.qty /\ ended.entered = trade.entered /\ ended.taken = trade.taken
        /\ ended.stop = trade.stop /\ ended.increased = trade.increased /\ ended.paid = trade.paid
        /\ ended.executed = trade.executed /\ ended.observed = trade.observed
    BY <1>1 DEF TradeType
  <2> HIDE DEF ended, ends
  <2>5. trade' = ended \/ trade' = trade
    BY <2>1, <2>2
  <2>8. ends => trade'.phase \in Finished
    BY <2>1, <2>2, <2>3, <2>4
  <2>6. ~Grows(e) /\ ~Reduces(e) /\ e.status # "FILL"
    BY <1>3 DEF Grows, Reduces
  <2> QED
    BY <2>3, <2>4, <2>5, <2>6, <2>7, <2>8 DEF NewTrade
<1>4. CASE e.status = "FILL"
  <2> DEFINE kind == Kind(e.cmd)
             q == Left(e)
             phase == PhaseAfterFill(e, q)
             rev == IF kind \in {"CLOSE", "STOP"} /\ q > 0 THEN trade.rev ELSE trade.rev + 1
             entered == IF kind \in Increases THEN trade.entered + e.qty ELSE trade.entered
             taken == IF e.cmd = TargetHit THEN trade.taken + e.qty ELSE trade.taken
             basis == IF kind = "OPEN" THEN EntryStop ELSE AddStop
             stop == IF kind \in Increases THEN Larger(trade.stop, basis) ELSE trade.stop
             increased == IF kind \in Increases THEN e.bar ELSE trade.increased
             paid == IF kind \in Increases THEN e.price ELSE trade.paid
             executed == Larger(trade.executed, e.bar)
             after == [trade EXCEPT !.phase = phase, !.rev = rev, !.qty = q, !.entered = entered,
                                    !.taken = taken, !.stop = stop, !.increased = increased,
                                    !.paid = paid, !.executed = executed]
  <2>1. trade' = after
    BY <1>1, <1>4 DEF TradeAfter, TradeAfterFill
  <2>2. Grows(e) <=> kind \in Increases
    BY <1>4 DEF Grows
  <2>3. Reduces(e) <=> kind \notin Increases
    BY <1>4 DEF Reduces
  <2>4. Grows(e) => e.cmd \in Commands /\ kind = order[e.cmd].kind
    BY <1>4, OwnIds DEF Grows, Kind, Increases, Reducible, AnswerType
  <2>5. Grows(e) => basis = Basis(e.cmd) /\ e.cmd # TargetHit
    BY <2>4, OwnIds DEF Basis
  <2>6. Grows(e) => /\ q = trade.qty + e.qty /\ entered = trade.entered + e.qty /\ taken = trade.taken
                    /\ stop = Larger(trade.stop, Basis(e.cmd)) /\ rev = trade.rev + 1
                    /\ increased = e.bar /\ paid = e.price
    BY <2>2, <2>5 DEF Left, Increases
  <2>7. Reduces(e) => /\ q = trade.qty - e.qty /\ entered = trade.entered
                      /\ taken = IF e.cmd = TargetHit THEN trade.taken + e.qty ELSE trade.taken
                      /\ stop = trade.stop /\ increased = trade.increased /\ paid = trade.paid
                      /\ rev = trade.rev + 1 \/ (q > 0 /\ kind \in {"CLOSE", "STOP"})
    BY <2>3 DEF Left
  <2> HIDE DEF q, phase, rev, entered, taken, stop, increased, paid, executed
  <2>8. /\ after.phase = phase /\ after.rev = rev /\ after.qty = q /\ after.entered = entered
        /\ after.taken = taken /\ after.stop = stop /\ after.increased = increased /\ after.paid = paid
        /\ after.executed = executed /\ after.observed = trade.observed
    BY <1>1 DEF TradeType
  <2> HIDE DEF after
  <2>9. executed = Larger(trade.executed, e.bar)
    BY DEF executed
  <2> QED
    BY <1>4, <2>1, <2>6, <2>7, <2>8, <2>9 DEF NewTrade
<1> QED
  BY <1>2, <1>3, <1>4 DEF Reducible, AnswerType

\* The levels stay, and an acceptance alone is dated.
NewOrders(e) ==
  \A c \in Commands : /\ order'[c].level = order[c].level
                      /\ order'[c].since = IF c = e.cmd /\ e.status = "ACK" THEN e.bar ELSE order[c].since

LEMMA NewOrdersAre ==
  ASSUME TypeInv, NEW e, Reducible(e), Apply(e)
  PROVE  NewOrders(e)
<1> SUFFICES ASSUME NEW c \in Commands
             PROVE  /\ order'[c].level = order[c].level
                    /\ order'[c].since = IF c = e.cmd /\ e.status = "ACK" THEN e.bar ELSE order[c].since
  BY DEF NewOrders
<1>1. order'[c] = OrderAfter(e, c)
  BY DEF Apply
<1> DEFINE o == order[c]
           total == o.filled + e.qty
           status == IF total = o.size THEN "FILLED" ELSE "PARTIAL"
           left == o.reserved /\ total # o.size
           fill == [o EXCEPT !.filled = total, !.status = status, !.reserved = left]
           end == [o EXCEPT !.status = e.status, !.reserved = FALSE]
           ack == [o EXCEPT !.status = "ACK", !.since = e.bar]
           active == [o EXCEPT !.status = "ACK"]
           own == CASE c # e.cmd -> o
                    [] c = e.cmd /\ e.status = "FILL" -> fill
                    [] c = e.cmd /\ e.status \in {"CANCEL", "REJECT"} -> end
                    [] c = e.cmd /\ e.status = "ACK" -> ack
                    [] c = e.cmd /\ e.status = "ACTIVE" -> active
           kept == own.reserved /\ ~Ends(e)
           n == [own EXCEPT !.reserved = kept]
<1>3. o \in OrderType /\ e.status \in {"ACK", "ACTIVE", "FILL", "CANCEL", "REJECT"} /\ e.bar \in Nat
  BY DEF TypeInv, OrdersOK, Reducible, AnswerType
<1>4. OrderAfter(e, c) = n
  BY DEF OrderAfter
<1> HIDE DEF total, status, left, o
<1>5. fill.level = o.level /\ fill.since = o.since /\ DOMAIN fill = DOMAIN o
  BY <1>3 DEF OrderType
<1>6. end.level = o.level /\ end.since = o.since /\ DOMAIN end = DOMAIN o
  BY <1>3 DEF OrderType
<1>7. ack.level = o.level /\ ack.since = e.bar /\ DOMAIN ack = DOMAIN o
  BY <1>3 DEF OrderType
<1>8. active.level = o.level /\ active.since = o.since /\ DOMAIN active = DOMAIN o
  BY <1>3 DEF OrderType
<1> HIDE DEF fill, end, ack, active
<1>10. /\ own.level = o.level
       /\ own.since = IF c = e.cmd /\ e.status = "ACK" THEN e.bar ELSE o.since
  <2>1. CASE c # e.cmd
    <3>1. own = o
      BY <2>1
    <3> HIDE DEF own
    <3> QED
      BY <2>1, <3>1
  <2>2. CASE c = e.cmd /\ e.status = "FILL"
    <3>1. own = fill
      BY <2>2
    <3> HIDE DEF own
    <3> QED
      BY <1>5, <2>2, <3>1
  <2>3. CASE c = e.cmd /\ e.status \in {"CANCEL", "REJECT"}
    <3>1. own = end
      BY <2>3
    <3> HIDE DEF own
    <3> QED
      BY <1>6, <2>3, <3>1
  <2>4. CASE c = e.cmd /\ e.status = "ACK"
    <3>1. own = ack
      BY <2>4
    <3> HIDE DEF own
    <3> QED
      BY <1>7, <2>4, <3>1
  <2>5. CASE c = e.cmd /\ e.status = "ACTIVE"
    <3>1. own = active
      BY <2>5
    <3> HIDE DEF own
    <3> QED
      BY <1>8, <2>5, <3>1
  <2> QED
    BY <1>3, <2>1, <2>2, <2>3, <2>4, <2>5
<1> HIDE DEF own, kept
<1>11. n.level = own.level /\ n.since = own.since
  OBVIOUS
<1> HIDE DEF n
<1> QED
  BY <1>1, <1>4, <1>10, <1>11 DEF o

\* A fill that the trade can take makes of its book what the event says.
LEMMA FillTurns ==
  ASSUME TypeInv, TypeInv', JournalOK', NEW e, EventOK(e), NewTrade(e), e.status = "FILL",
         NEW k, k = Book(trade), Takes(e, k), NEW n, n = Turned(e, k)
  PROVE  /\ Alike(n, trade)'
         /\ Reduces(e) /\ e.qty = trade.qty => trade'.phase \in Finished
<1>1. /\ trade \in TradeType /\ trade' \in TradeType /\ trade.rev \in Nat /\ trade.qty \in Nat /\ e.qty \in Nat
  BY EventIs DEF TypeInv, TradeType
<1>2. /\ k \in Books /\ k.qty = trade.qty /\ k.entered = trade.entered /\ k.taken = trade.taken
      /\ k.stop = trade.stop /\ k.rev = trade.rev
  BY <1>1 DEF Book, Books, TradeType
<1>3. (Grows(e) \/ Reduces(e)) /\ ~(Grows(e) /\ Reduces(e))
  BY EventIs
<1>4. ASSUME Reduces(e), e.qty = trade.qty PROVE trade'.phase \in Finished
  <2>1. trade'.qty = 0 /\ trade'.rev = trade.rev + 1
    BY <1>1, <1>4 DEF NewTrade
  <2>2. trade'.rev # 0
    BY <1>1, <2>1
  <2>3. trade'.phase \in Phases
    BY <1>1 DEF TradeType
  <2>4. trade'.phase \notin Manageable /\ trade'.phase \notin {"none", "ENTRY_PENDING"}
    BY <2>1, <2>2 DEF JournalOK
  <2> QED
    BY <2>3, <2>4 DEF Phases
<1>5. CASE Grows(e)
  <2>1. /\ n.qty = k.qty + e.qty /\ n.entered = k.entered + e.qty /\ n.taken = k.taken
        /\ n.stop = Larger(k.stop, Basis(e.cmd)) /\ n.rev = k.rev + 1
    BY <1>2, <1>5, TurnedIs
  <2>2. /\ n.qty = trade'.qty /\ n.entered = trade'.entered /\ n.taken = trade'.taken
        /\ n.stop = trade'.stop /\ n.rev = trade'.rev
    BY <1>2, <1>5, <2>1 DEF NewTrade
  <2> QED
    BY <1>3, <1>5, <2>2 DEF Alike
<1>6. CASE Reduces(e)
  <2>1. /\ n.qty = k.qty - e.qty /\ n.entered = k.entered
        /\ n.taken = IF e.cmd = TargetHit THEN k.taken + e.qty ELSE k.taken
        /\ n.stop = IF e.qty = k.qty THEN 0 ELSE k.stop
        /\ n.rev = k.rev + 1
    BY <1>2, <1>6, TurnedIs
  <2>2. trade'.rev = trade.rev + 1
    <3>1. Kind(e.cmd) \in {"CLOSE", "STOP"} => e.qty = trade.qty
      BY <1>2, <1>6 DEF Takes
    <3>2. e.qty = trade.qty => trade'.qty = 0
      BY <1>1, <1>6 DEF NewTrade
    <3> QED
      BY <1>6, <3>1, <3>2 DEF NewTrade
  <2>3. /\ n.qty = trade'.qty /\ n.entered = trade'.entered /\ n.taken = trade'.taken /\ n.rev = trade'.rev
    BY <1>2, <1>6, <2>1, <2>2 DEF NewTrade
  <2>4. e.qty = k.qty \/ n.stop = trade'.stop
    BY <1>2, <1>6, <2>1 DEF NewTrade
  <2>5. StopKept' => e.qty # k.qty
    BY <1>2, <1>4, <1>6 DEF StopKept, Live, Manageable, Finished
  <2> QED
    BY <1>4, <2>3, <2>4, <2>5 DEF Alike
<1> QED
  BY <1>3, <1>5, <1>6

-----------------------------------------------------------------------------
(* A step that applies an event, whatever else it is.                      *)

\* What is known of the event, of the step and of what it leaves alone.
Journals(e, q) ==
  /\ Handled(e, q) /\ Apply(e) /\ OrdersReduced(e) /\ TradeMoves(e)
  /\ bars' = bars /\ broker' = broker /\ due' = due /\ batch' = batch /\ cursor' = cursor /\ cut' = cut
  /\ Stream' = q /\ (q = Stream \/ Outside)
  /\ pc \notin Simulating \cup {"down"} /\ pc' \notin Simulating \cup {"down", "sent", "answer"}
  /\ (Behind' <=> Behind)
  /\ \A i \in 1..Len(q) : \E j \in 1..Len(Stream) : q[i] = Stream[j]
  /\ e.status \in {"FILL", "ACTIVE"} =>
       /\ Behind /\ q = Stream /\ ~Applied(e)
       /\ \E k \in 1..Len(q) : q[k] = e /\ \A j \in 1..k - 1 : Applied(q[j])
  /\ Takes(e, Book(trade))
  /\ e.status = "ACK" => Outside /\ pc = "answer" /\ inflight = e
  /\ trade'.phase \in Finished => broker.qty = 0

\* The event, the rows and the fields.
LEMMA JournalsIs ==
  ASSUME TypeInv, OutcomeInv, NEW e, NEW q, Journals(e, q)
  PROVE  /\ NewTrade(e) /\ NewOrders(e) /\ RowsSame /\ EventsOK(q) /\ q \in Seq(EventType) /\ Len(q) \in Nat
         /\ e.qty \in Nat /\ e.bar \in Nat /\ e.status \in {"ACK", "ACTIVE", "FILL", "CANCEL", "REJECT"}
         /\ e.status = "FILL" <=> Grows(e) \/ Reduces(e)
         /\ ~(Grows(e) /\ Reduces(e))
         /\ e.status \in {"FILL", "ACTIVE"} => EventOK(e)
         /\ e.cmd \notin Commands => Reduces(e)
         /\ \A K : Of(Commands, K)' = Of(Commands, K)
         /\ Outside => \A i \in 1..Len(q) : q[i].status = "CANCEL" /\ q[i].cmd \in Commands
<1> USE DEF Journals
<1>1. Reducible(e) /\ EventsOK(q) /\ OrdersReduced(e)
  BY DEF Handled
<1>2. NewTrade(e) /\ NewOrders(e)
  BY <1>1, NewTradeIs, NewOrdersAre
<1>3. RowsSame /\ \A K : Of(Commands, K)' = Of(Commands, K)
  BY <1>1, <1>2 DEF OrdersReduced, NewOrders, RowsSame, Of
<1>4. /\ e.qty \in Nat /\ e.bar \in Nat /\ e.status \in {"ACK", "ACTIVE", "FILL", "CANCEL", "REJECT"}
      /\ e.status # "FILL" => e.cmd \in Commands
  BY <1>1 DEF Reducible, AnswerType
<1>5. (e.status = "FILL" <=> Grows(e) \/ Reduces(e)) /\ ~(Grows(e) /\ Reduces(e))
  BY DEF Grows, Reduces
<1>6. e.status \in {"FILL", "ACTIVE"} => EventOK(e)
  BY <1>1 DEF EventsOK
<1>7. e.cmd \notin Commands => Reduces(e)
  <2>1. e.cmd \notin Commands => Kind(e.cmd) \in {"STOP", "TARGET"}
    BY <1>1 DEF Reducible, AnswerType, Kind
  <2> QED
    BY <1>4, <2>1 DEF Reduces, Increases
<1>8. q \in Seq(EventType) /\ Len(q) \in Nat
  BY <1>1 DEF EventsOK
<1>9. ASSUME Outside, NEW i \in 1..Len(q) PROVE q[i].status = "CANCEL" /\ q[i].cmd \in Commands
  <2>1. PICK j \in 1..Len(Stream) : q[i] = Stream[j]
    OBVIOUS
  <2> QED
    BY <1>9, <2>1, StreamIs
<1> QED
  BY <1>1, <1>2, <1>3, <1>4, <1>5, <1>6, <1>7, <1>8, <1>9

\* Executions are of the bar in hand.
LEMMA FillsNow ==
  ASSUME TypeInv, OutcomeInv, BookInv, NEW e, NEW q, Journals(e, q)
  PROVE  /\ Behind => cursor < Len(bars)
         /\ e.status = "FILL" => /\ e.bar = cursor + 1 /\ cursor < Len(bars) /\ e.qty > 0
                                 /\ trade'.executed = cursor + 1 /\ trade.executed <= cursor + 1
         /\ e.status # "FILL" => trade'.executed = trade.executed
<1> USE DEF Journals
<1>0. OwnOK(broker, Stream) /\ ClockOK
  BY DEF BookInv
<1>1. Behind => cursor < Len(bars)
  BY <1>0 DEF ClockOK
<1>2. e.status # "FILL" => trade'.executed = trade.executed
  BY JournalsIs DEF NewTrade
<1>3. ASSUME e.status = "FILL" PROVE e.bar = cursor + 1 /\ e.qty > 0
  <2>1. PICK k \in 1..Len(q) : q[k] = e /\ q = Stream
    BY <1>3
  <2> QED
    BY <1>0, <1>3, <2>1 DEF OwnOK, Handled
<1>4. trade.executed \in Nat /\ trade.executed <= cursor + 1 /\ cursor \in Nat
  BY <1>0, ClockIs
<1>5. ASSUME e.status = "FILL" PROVE trade'.executed = cursor + 1
  <2>1. trade'.executed = Larger(trade.executed, cursor + 1)
    BY <1>3, <1>5, JournalsIs DEF NewTrade
  <2> QED
    BY <1>4, <2>1 DEF Larger
<1> QED
  BY <1>1, <1>2, <1>3, <1>4, <1>5

\* A trade that is or becomes manageable was not finished; one that is not opened is as it was.
LEMMA JournalsLives ==
  ASSUME TypeInv, OutcomeInv, OutcomeInv', BookInv, NEW e, NEW q, Journals(e, q)
  PROVE  /\ trade'.phase \notin Finished => trade.phase \notin Finished /\ (e.status # "FILL" => trade' = trade)
         /\ Unopened' => Unopened /\ trade' = trade
         /\ trade'.qty = 0 => trade.qty = 0 \/ trade'.phase \in Finished
<1> USE DEF Journals
<1>0. RowsOK /\ JournalOK /\ JournalOK'
  BY DEF BookInv, OutcomeInv
<1>1. trade'.phase \notin Finished => trade.phase \notin Finished /\ (e.status # "FILL" => trade' = trade)
  BY JournalsIs DEF NewTrade, TradeMoves
<1>2. trade.qty \in Nat /\ trade.rev \in Nat /\ trade.phase \in Phases /\ trade'.phase \in {"none", "ENTRY_PENDING"} => trade'.phase \notin Finished
  BY DEF TypeInv, TradeType, Finished
<1>3. ASSUME Unopened' PROVE Unopened /\ trade' = trade
  <2>1. Unopened /\ trade'.rev = 0
    BY <1>3 DEF TradeMoves, Unopened
  <2>2. trade.qty = 0 /\ trade.rev = 0
    BY <1>0, <2>1 DEF RowsOK, Zero
  <2>3. ~Grows(e)
    <3>1. NewTrade(e)
      BY JournalsIs
    <3>2. Grows(e) => trade'.rev = trade.rev + 1
      BY <3>1 DEF NewTrade
    <3> HIDE DEF Journals
    <3> QED
      BY <2>1, <2>2, <3>2
  <2>4. ~Reduces(e)
    <3> SUFFICES ASSUME Reduces(e) PROVE FALSE
      OBVIOUS
    <3>1. e.qty <= Book(trade).qty /\ e.qty > 0
      BY FillsNow, JournalsIs DEF Takes
    <3>2. e.qty <= 0
      BY <2>2, <3>1 DEF Book
    <3> QED
      BY <3>1, <3>2, JournalsIs
  <2>5. trade'.phase \notin Finished
    BY <1>3 DEF Unopened, Finished
  <2> QED
    BY <1>1, <2>1, <2>3, <2>4, <2>5, JournalsIs
<1>4. ASSUME trade'.qty = 0, trade.qty # 0 PROVE trade'.phase \in Finished
  <2>1. trade.qty > 0 /\ trade.rev > 0
    BY <1>0, <1>4 DEF JournalOK, TypeInv, TradeType
  <2>2. ~Unopened'
    BY <1>0, <1>3, <1>4
  <2>3. trade'.phase \notin Manageable
    BY <1>0, <1>4 DEF JournalOK
  <2>4. e.status # "FILL" => trade'.qty = trade.qty
    BY JournalsIs DEF NewTrade
  <2>5. e.status = "FILL"
    BY <1>4, <2>4
  <2>6. trade' \in TradeType
    BY TradeAfterIs DEF Apply, Handled, TypeInv
  <2> QED
    BY <2>2, <2>3, <2>6 DEF TradeType, Phases, Unopened
<1> QED
  BY <1>1, <1>3, <1>4

-----------------------------------------------------------------------------
(* The parts of the invariant after an event.                              *)

LEMMA HoldsJournals ==
  ASSUME TypeInv, OutcomeInv, OutcomeInv', BookInv, NEW e, NEW q, Journals(e, q)
  PROVE  HoldsOK(broker, Stream)'
<1>1. /\ broker' = broker /\ Stream' = q /\ Len(q) \in Nat /\ q \in Seq(EventType) /\ Len(Stream) \in Nat
      /\ \A i \in 1..Len(q) : \E j \in 1..Len(Stream) : q[i] = Stream[j]
      /\ trade'.phase \in Finished => broker.qty = 0
  BY JournalsIs, StreamIs DEF Journals
<1>2. HoldsOK(broker, Stream) /\ broker.qty \in Nat
  BY StreamIs DEF BookInv, BrokerType
<1>3. ~broker.known => Zero(broker) /\ q = <<>>
  <2> SUFFICES ASSUME ~broker.known, q # <<>> PROVE FALSE
    BY <1>2 DEF HoldsOK
  <2>1. 1 \in 1..Len(q)
    BY <1>1
  <2>2. Stream = <<>>
    BY <1>2 DEF HoldsOK
  <2>3. PICK j \in 1..Len(Stream) : TRUE
    BY <1>1, <2>1
  <2> QED
    BY <2>2, <2>3
<1>4. broker.qty > 0 => broker.stop > 0 /\ (trade'.qty > 0 \/ \E c \in Of(Commands, {"OPEN"}) : broker.answer[c] = "FILL")
  <2> SUFFICES ASSUME broker.qty > 0, ~(trade'.qty > 0)
               PROVE  \E c \in Of(Commands, {"OPEN"}) : broker.answer[c] = "FILL"
    BY <1>2 DEF HoldsOK
  <2>1. trade'.qty = 0
    <3>1. trade' \in TradeType
      BY TradeAfterIs DEF Journals, Apply, Handled, TypeInv
    <3> QED
      BY <3>1 DEF TradeType
  <2>2. trade'.phase \notin Finished
    BY <1>1, <1>2
  <2>3. trade.qty = 0
    BY <2>1, <2>2, JournalsLives
  <2> QED
    BY <1>2, <2>3 DEF HoldsOK
<1>5. Of(Commands, {"OPEN"})' = Of(Commands, {"OPEN"})
  BY JournalsIs
<1> QED
  BY <1>1, <1>3, <1>4, <1>5 DEF HoldsOK, Zero

\* What ends up empty is finished.
LEMMA AllTaken ==
  ASSUME TypeInv, TypeInv', OutcomeInv, OutcomeInv', NEW e, NEW q, Journals(e, q), Reduces(e), e.qty = trade.qty
  PROVE  trade'.phase \in Finished
<1>1. JournalOK' /\ EventOK(e) /\ NewTrade(e) /\ e.status = "FILL"
  BY JournalsIs DEF OutcomeInv
<1>2. Takes(e, Book(trade))
  BY DEF Journals
<1> QED
  BY <1>1, <1>2, FillTurns

LEMMA RowsJournals ==
  ASSUME TypeInv, TypeInv', OutcomeInv, OutcomeInv', BookInv, NEW e, NEW q, Journals(e, q)
  PROVE  RowsOK'
<1>0. RowsOK /\ NewTrade(e) /\ NewOrders(e) /\ RowsSame
  BY JournalsIs DEF BookInv
<1>1. Unopened' => Zero(trade)' /\ trade'.executed = 0 /\ trade'.observed = 0 /\ trade'.increased = 0
  <2> SUFFICES ASSUME Unopened' PROVE Zero(trade)' /\ trade'.executed = 0 /\ trade'.observed = 0 /\ trade'.increased = 0
    OBVIOUS
  <2>1. Unopened /\ trade' = trade
    BY JournalsLives
  <2> QED
    BY <1>0, <2>1 DEF RowsOK, Zero
<1>2. trade.stop \in Nat /\ trade.qty \in Nat /\ e.qty \in Nat /\ trade'.executed \in Nat /\ trade.executed \in Nat
  BY JournalsIs DEF TypeInv, TradeType
<1>3. trade'.qty > 0 => trade'.stop > 0
  <2>1. CASE Grows(e)
    <3>1. Basis(e.cmd) \in Nat \ {0} /\ trade'.stop = Larger(trade.stop, Basis(e.cmd))
      BY <1>0, <2>1, PricesAssumption DEF NewTrade, Basis
    <3> QED
      BY <1>2, <3>1 DEF Larger
  <2>2. CASE Reduces(e)
    <3>1. trade'.qty = trade.qty - e.qty /\ trade'.stop = trade.stop
      BY <1>0, <2>2 DEF NewTrade
    <3>2. trade'.qty > 0 => trade.qty > 0
      BY <1>2, <3>1
    <3> QED
      BY <1>0, <3>1, <3>2 DEF RowsOK
  <2>3. CASE e.status # "FILL"
    BY <1>0, <2>3 DEF NewTrade, RowsOK
  <2> QED
    BY <2>1, <2>2, <2>3, JournalsIs
<1>4. \A c \in Of(Commands, {"MOVESTOP"})' : order'[c].level > 0
  BY <1>0, JournalsIs DEF RowsOK, NewOrders, Of
<1>5. trade.executed <= trade'.executed
  <2>1. e.status # "FILL" => trade'.executed = trade.executed
    BY <1>0 DEF NewTrade
  <2> QED
    BY <1>2, <2>1, FillsNow
<1>6. ~Unopened => ~Unopened'
  BY JournalsLives
<1>7. ASSUME NEW x \in applied
      PROVE  /\ x[1] = StopHit => trade'.phase \in Finished
             /\ x[1] = TargetHit => ~Unopened' /\ x[2] = "FILL" /\ x[3] \in 0..trade'.executed
             /\ x[1] \in Commands /\ x[2] = "ACTIVE" => order'[x[1]].kind = "MOVESTOP" /\ order'[x[1]].status # "PENDING"
  <2>1. /\ x[1] = StopHit => trade.phase \in Finished
        /\ x[1] = TargetHit => ~Unopened /\ x[2] = "FILL" /\ x[3] \in 0..trade.executed
        /\ x[1] \in Commands /\ x[2] = "ACTIVE" => order[x[1]].kind = "MOVESTOP" /\ order[x[1]].status # "PENDING"
    BY <1>0 DEF RowsOK
  <2>2. trade.phase \in Finished => trade'.phase \in Finished
    BY DEF Journals, TradeMoves
  <2>3. PICK c : c = x[1]
    OBVIOUS
  <2>4. c \in Commands => order'[c].kind = order[c].kind /\ (order'[c].status = "PENDING" => order[c].status = "PENDING")
    <3>1. OrdersReduced(e) /\ e.status \in {"ACK", "ACTIVE", "FILL", "CANCEL", "REJECT"}
      BY JournalsIs DEF Journals
    <3> QED
      BY <3>1 DEF OrdersReduced
  <2>5. x[1] = TargetHit => x[3] \in 0..trade'.executed
    <3> SUFFICES ASSUME x[1] = TargetHit PROVE x[3] \in 0..trade'.executed
      OBVIOUS
    <3>1. x[3] \in 0..trade.executed
      BY <2>1
    <3> QED
      BY <1>2, <1>5, <3>1
  <2> QED
    BY <1>6, <2>1, <2>2, <2>3, <2>4, <2>5
<1>8. LET x == ExecutionId(e) IN
      /\ x[1] = StopHit => trade'.phase \in Finished
      /\ x[1] = TargetHit => ~Unopened' /\ x[2] = "FILL" /\ x[3] \in 0..trade'.executed
      /\ x[1] \in Commands /\ x[2] = "ACTIVE" => order'[x[1]].kind = "MOVESTOP" /\ order'[x[1]].status # "PENDING"
  <2>1. ExecutionId(e)[1] = e.cmd /\ ExecutionId(e)[2] = e.status
    BY DEF ExecutionId
  <2>2. ASSUME e.cmd \notin Commands
        PROVE  Reduces(e) /\ e.status = "FILL" /\ e.qty > 0 /\ e.qty <= trade.qty /\ EventOK(e) /\ EventOK(e)
    <3>1. Reduces(e) /\ e.status = "FILL" /\ EventOK(e)
      BY <2>2, JournalsIs
    <3>2. Takes(e, Book(trade)) /\ Book(trade).qty = trade.qty
      BY DEF Journals, Book
    <3> QED
      BY <3>1, <3>2, FillsNow DEF Takes
  <2>3. e.cmd = StopHit => trade'.phase \in Finished
    <3> SUFFICES ASSUME e.cmd = StopHit PROVE trade'.phase \in Finished
      OBVIOUS
    <3>1. e.cmd \notin Commands /\ Kind(e.cmd) = "STOP"
      BY OwnIds DEF Kind
    <3>2. Takes(e, Book(trade)) /\ Book(trade).qty = trade.qty
      BY DEF Journals, Book
    <3> QED
      BY <2>2, <3>1, <3>2, AllTaken DEF Takes
  <2>4. e.cmd = TargetHit => ~Unopened' /\ e.status = "FILL" /\ ExecutionId(e)[3] \in 0..trade'.executed
    <3> SUFFICES ASSUME e.cmd = TargetHit
                 PROVE  ~Unopened' /\ e.status = "FILL" /\ ExecutionId(e)[3] \in 0..trade'.executed
      OBVIOUS
    <3>1. e.cmd \notin Commands /\ Kind(e.cmd) = "TARGET"
      BY OwnIds DEF Kind, StopHit, TargetHit
    <3>2. e.qty > 0 /\ e.qty <= trade.qty /\ e.status = "FILL"
      BY <2>2, <3>1
    <3>3. trade.qty # 0
      BY <1>2, <3>2
    <3>4. ~Unopened
      BY <1>0, <3>3 DEF RowsOK, Zero
    <3>5. ExecutionId(e)[3] = e.bar
      BY <3>1, <3>2 DEF ExecutionId
    <3>6. e.bar = trade'.executed
      BY <3>2, FillsNow
    <3> QED
      BY <1>2, <1>6, <3>2, <3>4, <3>5, <3>6
  <2>5. e.cmd \in Commands /\ e.status = "ACTIVE" => order'[e.cmd].kind = "MOVESTOP" /\ order'[e.cmd].status # "PENDING"
    <3> SUFFICES ASSUME e.cmd \in Commands, e.status = "ACTIVE"
                 PROVE  order'[e.cmd].kind = "MOVESTOP" /\ order'[e.cmd].status # "PENDING"
      OBVIOUS
    <3>1. order[e.cmd].kind = "MOVESTOP"
      BY DEF Journals, Handled
    <3> QED
      BY <3>1 DEF Journals, OrdersReduced
  <2> QED
    BY <2>1, <2>3, <2>4, <2>5
<1>9. applied' = applied \cup {ExecutionId(e)}
  BY DEF Journals, Apply
<1>10. \A x \in applied' :
         /\ x[1] = StopHit => trade'.phase \in Finished
         /\ x[1] = TargetHit => ~Unopened' /\ x[2] = "FILL" /\ x[3] \in 0..trade'.executed
         /\ x[1] \in Commands /\ x[2] = "ACTIVE" => order'[x[1]].kind = "MOVESTOP" /\ order'[x[1]].status # "PENDING"
  <2> SUFFICES ASSUME NEW x \in applied'
               PROVE  /\ x[1] = StopHit => trade'.phase \in Finished
                      /\ x[1] = TargetHit => ~Unopened' /\ x[2] = "FILL" /\ x[3] \in 0..trade'.executed
                      /\ x[1] \in Commands /\ x[2] = "ACTIVE" => order'[x[1]].kind = "MOVESTOP" /\ order'[x[1]].status # "PENDING"
    OBVIOUS
  <2>1. x \in applied \/ x = ExecutionId(e)
    BY <1>9
  <2> QED
    BY <1>7, <1>8, <2>1
<1> QED
  BY <1>1, <1>3, <1>4, <1>10 DEF RowsOK

LEMMA KnownJournals ==
  ASSUME TypeInv, OutcomeInv, BookInv, NEW e, NEW q, Journals(e, q)
  PROVE  KnownOK'
<1>1. KnownOK /\ broker' = broker /\ pc # "down"
  BY DEF BookInv, Journals
<1>2. trade'.phase \in Live => trade.phase \in Live
  BY DEF Journals, TradeMoves
<1>3. trade'.phase = "none" => trade.phase = "none"
  BY DEF Journals, TradeMoves
<1> QED
  BY <1>1, <1>2, <1>3 DEF KnownOK

\* A restart would begin with the same bar.
LEMMA BoundaryStays ==
  ASSUME TypeInv, TypeInv', OutcomeInv, OutcomeInv', BookInv, NEW e, NEW q, Journals(e, q), trade'.phase \in Manageable
  PROVE  /\ Boundary' = cursor /\ trade'.executed > 0
         /\ trade.phase \in Manageable => Boundary = cursor
<1>1. ClockOK /\ RowsOK /\ pc # "down" /\ NewTrade(e)
  BY JournalsIs DEF BookInv, Journals
<1>2. /\ trade.executed \in Nat /\ trade.observed \in Nat /\ cursor \in Nat /\ Len(bars) \in Nat
      /\ trade \in TradeType /\ trade' \in TradeType
  BY <1>1, ClockIs DEF TypeInv
<1>3. trade.phase \in Manageable => Boundary = cursor
  BY <1>1 DEF ClockOK
<1>4. trade.phase \in Manageable => trade.observed <= cursor
  <2>1. trade.phase \in Manageable => cursor = RestartAt(trade)
    BY <1>2, <1>3, LiveBoundary DEF Live
  <2> QED
    BY <1>2, <2>1 DEF RestartAt
<1>5. trade'.phase \notin Finished /\ trade'.phase \in Live
  BY DEF Live, Manageable, Finished
<1>6. trade.phase \notin Finished
  BY <1>5, JournalsLives
<1>7. trade.observed <= cursor
  <2>1. trade.phase \in Manageable \/ Unopened
    BY <1>2, <1>6 DEF TradeType, Phases, Unopened
  <2>2. Unopened => trade.observed = 0
    BY <1>1 DEF RowsOK
  <2> QED
    BY <1>2, <1>4, <2>1, <2>2
<1>8. Boundary' = RestartAt(trade')
  BY <1>2, <1>5, NextBoundary
<1>9. CASE e.status = "FILL"
  <2>1. trade'.executed = cursor + 1 /\ trade'.observed = trade.observed
    BY <1>1, <1>9, FillsNow DEF NewTrade
  <2> QED
    BY <1>2, <1>3, <1>7, <1>8, <2>1 DEF RestartAt
<1>10. CASE e.status # "FILL"
  <2>1. trade' = trade
    BY <1>5, <1>10, JournalsLives
  <2>2. Boundary = RestartAt(trade)
    BY <1>2, <1>5, <2>1, LiveBoundary
  <2> QED
    BY <1>1, <1>3, <1>8, <2>1, <2>2 DEF ClockOK
<1> QED
  BY <1>9, <1>10

LEMMA ClockJournals ==
  ASSUME TypeInv, TypeInv', OutcomeInv, OutcomeInv', BookInv, NEW e, NEW q, Journals(e, q)
  PROVE  ClockOK'
<1>1. /\ ClockOK /\ NewTrade(e) /\ bars' = bars /\ cursor' = cursor
      /\ pc' \notin Simulating \cup {"down", "sent", "answer"} /\ pc # "down" /\ (Behind' <=> Behind)
  BY JournalsIs DEF BookInv, Journals
<1>2. /\ trade.executed \in Nat /\ trade.observed \in Nat /\ trade.increased \in Nat /\ cursor \in Nat /\ Len(bars) \in Nat
      /\ trade.executed <= Len(bars) /\ trade.observed <= Len(bars) /\ cursor <= Len(bars)
      /\ trade.increased <= trade.executed /\ trade.executed <= cursor + 1
  BY <1>1, ClockIs
<1>3. CASE e.status = "FILL"
  <2>1. /\ trade'.executed = cursor + 1 /\ trade'.observed = trade.observed /\ e.bar = cursor + 1 /\ cursor < Len(bars)
    BY <1>1, <1>3, FillsNow DEF NewTrade
  <2>2. trade'.increased = trade.increased \/ trade'.increased = cursor + 1
    BY <1>1, <1>3, <2>1, JournalsIs DEF NewTrade
  <2>3. trade'.increased <= trade'.executed
    BY <1>2, <2>1, <2>2
  <2>4. {trade'.executed, trade'.observed, cursor} \subseteq 0..Len(bars)
    BY <1>2, <2>1
  <2>5. trade'.executed <= cursor + 1
    BY <1>2, <2>1
  <2> QED
    BY <1>1, <2>3, <2>4, <2>5, BoundaryStays DEF ClockOK
<1>4. CASE e.status # "FILL"
  <2>1. trade'.executed = trade.executed /\ trade'.observed = trade.observed /\ trade'.increased = trade.increased
    BY <1>1, <1>4 DEF NewTrade
  <2>2. {trade'.executed, trade'.observed, cursor} \subseteq 0..Len(bars)
    BY <1>2, <2>1
  <2> QED
    BY <1>1, <1>2, <2>1, <2>2, BoundaryStays DEF ClockOK
<1> QED
  BY <1>3, <1>4

LEMMA OwnJournals ==
  ASSUME TypeInv, OutcomeInv, BookInv, NEW e, NEW q, Journals(e, q)
  PROVE  OwnOK(broker, Stream)'
<1>1. /\ OwnOK(broker, Stream) /\ broker' = broker /\ Stream' = q /\ cursor' = cursor
      /\ \A i \in 1..Len(q) : \E j \in 1..Len(Stream) : q[i] = Stream[j]
      /\ q = Stream \/ Outside
  BY DEF BookInv, Journals
<1>2. Of(Commands, {"OPEN"})' = Of(Commands, {"OPEN"})
  BY JournalsIs
<1>3. \A i, j \in 1..Len(q) : q[i].cmd = q[j].cmd => i = j \/ q[i].cmd \in Commands
  BY <1>1, JournalsIs DEF OwnOK
<1>4. OwnOK(broker, q)
  BY <1>1, <1>3 DEF OwnOK
<1> QED
  BY <1>1, <1>2, <1>4 DEF OwnOK

\* What the journal takes for accepted: what it did, or what it learns now.
LEMMA AcceptedJournals ==
  ASSUME TypeInv, OutcomeInv, BookInv, NEW e, NEW q, Journals(e, q), NEW c \in Of(Accepted, Increases)'
  PROVE  /\ c \in Commands /\ order[c].kind \in Increases
         /\ \/ c \in Of(Accepted, Increases) /\ order'[c].since = order[c].since
            \/ /\ e.status = "ACK" /\ order'[c].since = broker.since[c]
               /\ c \in WaitsIn(broker, due)
<1>1. /\ SinceOK /\ OrdersReduced(e) /\ NewOrders(e) /\ e.status \in {"ACK", "ACTIVE", "FILL", "CANCEL", "REJECT"}
  BY JournalsIs DEF BookInv, Journals
<1>2. c \in Commands /\ order'[c].status = "ACK" /\ order'[c].outbox = "SENT" /\ order'[c].kind \in Increases
  BY DEF Of, Accepted
<1>3. order[c].kind = order'[c].kind /\ order[c].outbox = "SENT"
  BY <1>1, <1>2 DEF OrdersReduced
<1>4. CASE c # e.cmd
  <2>1. order[c].status = "ACK" /\ order'[c].since = order[c].since
    BY <1>1, <1>2, <1>4 DEF OrdersReduced, NewOrders
  <2> QED
    BY <1>2, <1>3, <2>1 DEF Of, Accepted
<1>5. CASE c = e.cmd
  <2>1. e.status \in {"ACK", "ACTIVE"}
    BY <1>1, <1>2, <1>5 DEF OrdersReduced
  <2>2. e.status # "ACTIVE"
    BY <1>2, <1>3, <1>5 DEF Journals, Handled, Increases
  <2>3. e.status = "ACK" /\ pc = "answer" /\ inflight = e
    BY <2>1, <2>2 DEF Journals
  <2>4. e.bar = broker.since[c] /\ order'[c].since = e.bar
    BY <1>1, <1>2, <1>5, <2>3 DEF SinceOK, NewOrders
  <2>5. c \in WaitsIn(broker, due)
    BY <1>5, <2>3 DEF OutcomeInv, FlightOK, WaitsIn
  <2> QED
    BY <1>2, <1>3, <2>3, <2>4, <2>5
<1> QED
  BY <1>2, <1>3, <1>4, <1>5

\* The target is taken now or was taken before.
LEMMA TakenJournals ==
  ASSUME TypeInv, OutcomeInv, NEW e, NEW q, Journals(e, q), NEW t, Taken(t)'
  PROVE  Taken(t) \/ (e.cmd = TargetHit /\ Reduces(e))
<1>1. <<TargetHit, "FILL", t>> \in applied \cup {ExecutionId(e)}
  BY DEF Taken, Journals, Apply
<1>2. ASSUME <<TargetHit, "FILL", t>> = ExecutionId(e) PROVE e.cmd = TargetHit
  BY <1>2 DEF ExecutionId
<1>3. e.cmd = TargetHit => Reduces(e)
  BY OwnIds, JournalsIs
<1> QED
  BY <1>1, <1>2, <1>3 DEF Taken

LEMMA TargetJournals ==
  ASSUME TypeInv, TypeInv', OutcomeInv, OutcomeInv', BookInv, NEW e, NEW q, Journals(e, q)
  PROVE  TargetOK'
<1>0. /\ TargetOK /\ AgainOK(broker, due) /\ TargetsIn(Stream) /\ NewTrade(e) /\ RowsOK /\ OwnOK(broker, Stream)
      /\ bars' = bars /\ cursor' = cursor /\ RowsSame
  BY JournalsIs DEF BookInv, Journals
<1>1. PICK t : t = cursor + 1
  OBVIOUS
<1> SUFFICES ASSUME trade'.phase \in Manageable, Taken(t)' PROVE TakenOK(t)'
  BY <1>1, BoundaryStays DEF TargetOK, TakenOK
<1>2. t \in Nat /\ t > 0
  BY <1>1, StreamIs
<1>3. \A c \in Commands : \A s : Blocked(c, s, t)' <=> Blocked(c, s, t)
  BY <1>0 DEF Blocked, Limit, RowsSame
<1>4. trade.phase \notin Finished /\ (e.status # "FILL" => trade' = trade)
  BY JournalsLives DEF Manageable, Finished
<1>5. /\ trade.taken \in Nat /\ trade.entered \in Nat /\ trade.qty \in Nat /\ e.qty \in Nat
  BY JournalsIs DEF TypeInv, TradeType
<1>6. CASE Taken(t)
  <2>1. trade.phase \in Manageable
    <3>1. ~Unopened
      BY <1>0, <1>2, <1>6, TakenIs DEF BookInv
    <3>2. trade.phase \in Phases
      BY DEF TypeInv, TradeType
    <3> QED
      BY <1>4, <3>1, <3>2 DEF Phases, Unopened
  <2>2. TakenOK(t)
    BY <1>0, <1>1, <2>1, BoundaryStays DEF TargetOK
  <2>3. \/ trade'.taken >= Share(trade'.entered)
        \/ trade'.increased = t /\ trade'.paid # bars[t].open
    <3>1. \/ trade.taken >= Share(trade.entered)
          \/ trade.increased = t /\ trade.paid # bars[t].open
      BY <1>6, <2>2 DEF TakenOK
    <3>2. CASE Grows(e)
      <4>1. PICK k \in 1..Len(q) : q[k] = e /\ q = Stream /\ ~Applied(e)
        BY <3>2 DEF Journals, Grows
      <4>2. e.price # bars[t].open
        BY <1>0, <1>1, <1>6, <2>1, <3>2, <4>1 DEF TargetsIn
      <4>3. trade'.increased = t /\ trade'.paid = e.price
        BY <1>0, <1>1, <3>2, FillsNow DEF NewTrade, Grows
      <4> QED
        BY <4>2, <4>3
    <3>3. CASE Reduces(e)
      <4>1. /\ trade'.entered = trade.entered /\ trade'.increased = trade.increased /\ trade'.paid = trade.paid
            /\ trade'.taken = IF e.cmd = TargetHit THEN trade.taken + e.qty ELSE trade.taken
        BY <1>0, <3>3 DEF NewTrade
      <4>2. trade'.taken >= trade.taken /\ Share(trade.entered) \in Nat
        BY <1>5, <4>1, SharesAre
      <4>3. trade'.taken \in Nat
        BY <1>5, <4>1
      <4>4. trade.taken >= Share(trade.entered) => trade'.taken >= Share(trade'.entered)
        BY <1>5, <4>1, <4>2, <4>3
      <4> QED
        BY <3>1, <4>1, <4>4
    <3>4. CASE e.status # "FILL"
      BY <1>4, <3>1, <3>4
    <3> QED
      BY <3>2, <3>3, <3>4, JournalsIs
  <2>4. ASSUME NEW c \in Of(Accepted, Increases)' PROVE Blocked(c, order'[c].since, t)
    <3>1. /\ c \in Commands /\ order[c].kind \in Increases
          /\ \/ c \in Of(Accepted, Increases) /\ order'[c].since = order[c].since
             \/ order'[c].since = broker.since[c] /\ c \in WaitsIn(broker, due)
      BY AcceptedJournals
    <3>2. CASE c \in Of(Accepted, Increases) /\ order'[c].since = order[c].since
      BY <1>6, <2>2, <3>2 DEF TakenOK
    <3>3. CASE order'[c].since = broker.since[c] /\ c \in WaitsIn(broker, due)
      BY <1>0, <1>1, <1>6, <2>1, <3>1, <3>3 DEF AgainOK, Of
    <3> QED
      BY <3>1, <3>2, <3>3
  <2>5. ASSUME NEW c \in Of(Accepted, Increases)' PROVE Blocked(c, order[c].since, t)'
    <3>1. PICK s : s = order'[c].since
      OBVIOUS
    <3>2. c \in Commands
      BY AcceptedJournals
    <3>3. Blocked(c, s, t)'
      BY <1>3, <2>4, <3>1, <3>2
    <3> QED
      BY <3>1, <3>3 DEF Blocked
  <2> QED
    BY <1>0, <2>3, <2>5 DEF TakenOK
<1>7. CASE e.cmd = TargetHit /\ Reduces(e)
  <2>1. e.status = "FILL" /\ ~Grows(e)
    BY <1>7, JournalsIs
  <2>2. PICK k \in 1..Len(q) : q[k] = e /\ q = Stream /\ \A j \in 1..k - 1 : Applied(q[j])
    BY <2>1 DEF Journals
  <2>3. trade'.taken >= Share(trade'.entered)
    <3>1. \/ trade.taken + e.qty = Share(trade.entered)
          \/ e.qty = trade.qty
      BY <1>7 DEF Journals, Takes, Book
    <3>2. e.qty # trade.qty
      BY <1>7, AllTaken DEF Manageable, Finished
    <3>3. trade'.taken = trade.taken + e.qty /\ trade'.entered = trade.entered
      BY <1>0, <1>7 DEF NewTrade
    <3> QED
      BY <1>5, <3>1, <3>2, <3>3
  <2>4. ASSUME NEW c \in Of(Accepted, Increases)' PROVE Blocked(c, order'[c].since, t)
    <3>1. c \in Of(Accepted, Increases) /\ order'[c].since = order[c].since /\ c \in Commands /\ order[c].kind \in Increases
      BY <2>1, AcceptedJournals
    <3>2. Blocked(c, order[c].since, t) \/ \E j \in 1..k - 1 : q[j].cmd = c
      BY <1>0, <1>1, <1>7, <2>2, <3>1 DEF TargetsIn
    <3>3. ASSUME NEW j \in 1..k - 1, q[j].cmd = c PROVE FALSE
      <4>1. EventOK(q[j]) /\ Applied(q[j])
        <5>1. j \in 1..Len(q)
          BY JournalsIs
        <5> QED
          BY <2>2, <5>1, JournalsIs DEF EventsOK
      <4>2. q[j].status \in {"FILL", "CANCEL", "REJECT"}
        BY <3>1, <3>3, <4>1 DEF EventOK, EventType, Increases
      <4>3. PICK x : x = ExecutionId(q[j])
        OBVIOUS
      <4>4. x \in applied /\ x[1] = c /\ x[2] = q[j].status
        BY <3>3, <4>1, <4>3 DEF Applied, ExecutionId
      <4>5. order[c].status \notin Waiting
        BY <3>1, <4>2, <4>4 DEF OutcomeInv, AppliedOK
      <4> QED
        BY <3>1, <4>5 DEF Of, Accepted, Waiting
    <3> QED
      BY <3>1, <3>2, <3>3
  <2>5. ASSUME NEW c \in Of(Accepted, Increases)' PROVE Blocked(c, order[c].since, t)'
    <3>1. PICK s : s = order'[c].since
      OBVIOUS
    <3>2. c \in Commands
      BY AcceptedJournals
    <3>3. Blocked(c, s, t)'
      BY <1>3, <2>4, <3>1, <3>2
    <3> QED
      BY <3>1, <3>3 DEF Blocked
  <2> QED
    BY <2>3, <2>5 DEF TakenOK
<1> QED
  BY <1>6, <1>7, TakenJournals

LEMMA AgainJournals ==
  ASSUME TypeInv, TypeInv', OutcomeInv, OutcomeInv', BookInv, NEW e, NEW q, Journals(e, q)
  PROVE  AgainOK(broker, due)'
<1>0. /\ AgainOK(broker, due) /\ RowsOK /\ ClockOK
      /\ bars' = bars /\ cursor' = cursor /\ RowsSame /\ broker' = broker /\ due' = due
  BY JournalsIs DEF BookInv, Journals
<1>1. PICK t : t = cursor + 1
  OBVIOUS
<1>2. PICK b : b = broker
  OBVIOUS
<1>3. t \in Nat /\ WaitsIn(broker, due) \subseteq Commands
  BY <1>1, StreamIs DEF WaitsIn, BrokerType, TypeInv
<1>4. ASSUME trade'.phase \in Manageable, Taken(t)', NEW c \in Commands, c \in WaitsIn(broker, due), order[c].kind \in Increases
      PROVE  Blocked(c, b.since[c], t)
  <2>1. trade.phase \notin Finished
    BY <1>4, JournalsLives DEF Manageable, Finished
  <2>2. CASE Taken(t)
    <3>1. ~Unopened /\ trade.phase \in Phases
      BY <1>0, <1>3, <2>2, TakenIs DEF TypeInv, TradeType
    <3>2. trade.phase \in Manageable
      BY <2>1, <3>1 DEF Phases, Unopened
    <3> QED
      BY <1>0, <1>1, <1>2, <1>4, <2>2, <3>2 DEF AgainOK, Of
  <2>3. CASE e.cmd = TargetHit /\ Reduces(e)
    <3>1. PICK k \in 1..Len(q) : q[k] = e
      BY <2>3, JournalsIs DEF Journals
    <3>2. Room(q)
      BY <1>4 DEF Journals, Handled, RoomOK, Of
    <3> QED
      BY <2>3, <3>1, <3>2 DEF Room
  <2> QED
    BY <1>4, <2>2, <2>3, TakenJournals
<1> SUFFICES ASSUME trade'.phase \in Manageable, Taken(t)', NEW c \in WaitsIn(broker, due)', order'[c].kind \in Increases
             PROVE  Blocked(c, broker.since[c], t)'
  BY <1>0, <1>1 DEF AgainOK, Of, Taken
<1>5. c \in WaitsIn(broker, due) /\ c \in Commands /\ order[c].kind \in Increases
  BY <1>0, <1>3 DEF WaitsIn, RowsSame
<1>6. Blocked(c, b.since[c], t)
  BY <1>4, <1>5
<1>7. \A s : Blocked(c, s, t)' <=> Blocked(c, s, t)
  BY <1>0, <1>5 DEF Blocked, Limit, RowsSame
<1>8. PICK s : s = b.since[c]
  OBVIOUS
<1>9. Blocked(c, s, t)'
  BY <1>6, <1>7, <1>8
<1> QED
  BY <1>0, <1>2, <1>8, <1>9 DEF Blocked

LEMMA TargetsJournals ==
  ASSUME TypeInv, TypeInv', OutcomeInv, OutcomeInv', BookInv, NEW e, NEW q, Journals(e, q)
  PROVE  TargetsIn(Stream)'
<1>0. /\ TargetsIn(Stream) /\ RowsOK /\ ClockOK /\ EventsOK(q) /\ Len(q) \in Nat
      /\ bars' = bars /\ cursor' = cursor /\ RowsSame /\ Stream' = q /\ (q = Stream \/ Outside)
  BY JournalsIs DEF BookInv, Journals
<1>1. PICK t : t = cursor + 1
  OBVIOUS
<1>2. t \in Nat
  BY <1>1, StreamIs
<1>3. \A i \in 1..Len(q) : (Grows(q[i])' <=> Grows(q[i])) /\ (~Applied(q[i])' => ~Applied(q[i]))
  <2> SUFFICES ASSUME NEW i \in 1..Len(q) PROVE (Grows(q[i])' <=> Grows(q[i])) /\ (~Applied(q[i])' => ~Applied(q[i]))
    OBVIOUS
  <2>1. PICK x : x = q[i]
    OBVIOUS
  <2>2. EventOK(x)
    BY <1>0, <2>1 DEF EventsOK
  <2>3. (Grows(x)' <=> Grows(x)) /\ ExecutionId(x)' = ExecutionId(x)
    BY <1>0, <2>2, SameEvents
  <2>4. applied \subseteq applied'
    BY DEF Journals, Apply
  <2>5. ~Applied(x)' => ~Applied(x)
    BY <2>3, <2>4 DEF Applied
  <2> QED
    BY <2>1, <2>3, <2>5
<1>4. ASSUME trade'.phase \in Manageable, Taken(t)', NEW i \in 1..Len(q), Grows(q[i]), ~Applied(q[i])
      PROVE  q[i].price # bars[t].open
  <2>0. trade.phase \notin Finished
    BY <1>4, JournalsLives DEF Manageable, Finished
  <2>1. q[i].status # "CANCEL"
    BY <1>4 DEF Grows
  <2>2. q = Stream
    BY <1>0, <2>1, JournalsIs
  <2>3. CASE Taken(t)
    <3>1. ~Unopened /\ trade.phase \in Phases
      BY <1>0, <1>2, <2>3, TakenIs DEF TypeInv, TradeType
    <3>2. trade.phase \in Manageable
      BY <2>0, <3>1 DEF Phases, Unopened
    <3> QED
      BY <1>0, <1>1, <1>4, <2>2, <2>3, <3>2 DEF TargetsIn
  <2>4. CASE e.cmd = TargetHit /\ Reduces(e)
    <3>1. PICK k \in 1..Len(q) : q[k] = e /\ \A j \in 1..k - 1 : Applied(q[j])
      BY <2>4, JournalsIs DEF Journals
    <3>2. i # k
      BY <1>4, <2>4, <3>1, JournalsIs
    <3>3. \A a, b \in 1..Len(q) : Reduces(q[a]) /\ a < b => ~Grows(q[b])
      BY DEF Journals, Handled, StreamOK
    <3>4. ~(k < i)
      BY <1>4, <2>4, <3>1, <3>3
    <3>5. i \in 1..k - 1
      BY <3>2, <3>4
    <3> QED
      BY <1>4, <3>1, <3>5
  <2> QED
    BY <1>4, <2>3, <2>4, TakenJournals
<1>5. \A c \in Commands : \A s : Blocked(c, s, t)' <=> Blocked(c, s, t)
  BY <1>0 DEF Blocked, Limit, RowsSame
<1>6. ASSUME NEW i \in 1..Len(q), q[i].cmd = TargetHit, NEW c \in Of(Accepted, Increases)',
             ~(\E j \in 1..i - 1 : q[j].cmd = c)
      PROVE  Blocked(c, order[c].since, t)'
  <2>1. ~Outside /\ q = Stream
    BY <1>0, <1>6, OwnIds, JournalsIs
  <2>2. c \in Of(Accepted, Increases) /\ order'[c].since = order[c].since /\ c \in Commands
    <3>1. e.status # "ACK"
      BY <2>1 DEF Journals
    <3> QED
      BY <3>1, AcceptedJournals
  <2>3. PICK s : s = order[c].since
    OBVIOUS
  <2>4. Blocked(c, s, t)
    BY <1>0, <1>1, <1>6, <2>1, <2>2, <2>3 DEF TargetsIn
  <2>5. Blocked(c, s, t)'
    BY <1>5, <2>2, <2>4
  <2> QED
    BY <2>2, <2>3, <2>5 DEF Blocked
<1> QED
  BY <1>0, <1>1, <1>3, <1>4, <1>6 DEF TargetsIn, Taken

LEMMA SinceJournals ==
  ASSUME TypeInv, TypeInv', OutcomeInv, OutcomeInv', BookInv, NEW e, NEW q, Journals(e, q)
  PROVE  SinceOK'
<1>0. /\ SinceOK /\ broker' = broker /\ due' = due /\ pc' \notin Simulating \cup {"down", "sent", "answer"} /\ cut' = cut
  BY DEF BookInv, Journals
<1>1. WaitsIn(broker, due)' = WaitsIn(broker, due) /\ WaitsIn(broker, due) \subseteq Commands
  BY <1>0, StreamIs DEF WaitsIn, BrokerType, TypeInv
<1>2. \A c \in Of(Accepted, Increases)' : c \in WaitsIn(broker, due) => broker.since[c] = order'[c].since
  <2> SUFFICES ASSUME NEW c \in Of(Accepted, Increases)', c \in WaitsIn(broker, due)
               PROVE  broker.since[c] = order'[c].since
    OBVIOUS
  <2>1. \/ c \in Of(Accepted, Increases) /\ order'[c].since = order[c].since
        \/ order'[c].since = broker.since[c]
    BY AcceptedJournals
  <2> QED
    BY <1>0, <2>1 DEF SinceOK
<1>3. ASSUME NEW c \in WaitsIn(broker, due), NEW x \in applied', x[1] = c, x[2] = "ACTIVE"
      PROVE  "stop" \in cut
  <2>1. CASE x \in applied
    BY <1>0, <1>3, <2>1 DEF SinceOK
  <2>2. CASE x = ExecutionId(e)
    <3>1. e.cmd = c /\ e.status = "ACTIVE"
      BY <1>3, <2>2 DEF ExecutionId
    <3>2. PICK k \in 1..Len(q) : q[k] = e
      BY <3>1 DEF Journals
    <3>3. e.cmd \notin WaitsIn(broker, due)
      BY <1>1, <1>3, <3>1, <3>2 DEF Journals, Handled, StreamOK
    <3> QED
      BY <1>3, <3>1, <3>3
  <2> QED
    BY <1>3, <2>1, <2>2 DEF Journals, Apply
<1> QED
  BY <1>0, <1>1, <1>2, <1>3 DEF SinceOK

LEMMA StagesJournals ==
  ASSUME TypeInv, TypeInv', OutcomeInv, OutcomeInv', BookInv, NEW e, NEW q, Journals(e, q)
  PROVE  StagesOK'
<1>0. /\ StagesOK /\ broker' = broker /\ cursor' = cursor /\ Stream' = q /\ NewTrade(e)
      /\ pc \notin Simulating \cup {"down"} /\ pc' \notin Simulating \cup {"down", "sent", "answer"}
      /\ (Behind' <=> Behind) /\ batch' = batch
  BY JournalsIs DEF BookInv, Journals
<1> SUFFICES ASSUME Before' PROVE BeforeOK(broker, queue)'
  BY <1>0 DEF StagesOK
<1>1. Before /\ Outside /\ batch = <<>> /\ e.status # "FILL"
  BY <1>0 DEF Before, Behind, Outside, Journals
<1>2. BeforeOK(broker, queue) /\ Stream = queue /\ queue' = q
  BY <1>0, <1>1 DEF StagesOK, Stream
<1>3. /\ \A i \in 1..Len(q) : q[i].status = "CANCEL" /\ q[i].cmd \in Commands
      /\ \A i \in 1..Len(queue) : queue[i].status = "CANCEL" /\ queue[i].cmd \in Commands
  BY <1>1, <1>2, StreamIs, JournalsIs
<1>4. /\ \A i \in 1..Len(q) : ~Grows(q[i])' /\ q[i].cmd # TargetHit
      /\ \A i \in 1..Len(queue) : ~Grows(queue[i])
  BY <1>3, OwnIds DEF Grows
<1>5. /\ trade'.entered = trade.entered /\ trade'.taken = trade.taken /\ trade'.increased = trade.increased
      /\ trade'.paid = trade.paid
      /\ trade'.phase \in Manageable => trade' = trade
  BY <1>0, <1>1, JournalsLives DEF NewTrade, Manageable, Finished
<1>6. /\ broker.known => broker.entered = trade.entered /\ broker.taken = trade.taken
      /\ broker.known /\ trade.phase \in Manageable /\ trade.increased = cursor + 1 =>
           broker.opened = trade.increased /\ broker.paid = trade.paid
      /\ broker.opened <= cursor \/ broker.opened = trade.increased
  BY <1>2, <1>4 DEF BeforeOK
<1> QED
  BY <1>0, <1>2, <1>4, <1>5, <1>6 DEF BeforeOK

LEMMA AppliesBook ==
  ASSUME TypeInv, TypeInv', OutcomeInv, OutcomeInv', BookInv, NEW e, NEW q, Journals(e, q), RoadOK'
  PROVE  BookInv'
  BY HoldsJournals, RowsJournals, KnownJournals, ClockJournals, OwnJournals, TargetJournals, AgainJournals,
     TargetsJournals, SinceJournals, StagesJournals DEF BookInv

-----------------------------------------------------------------------------
(* The steps that apply an event.                                          *)

\* A refusal or an acceptance leaves the book of the trade as it is.
LEMMA StillAlike ==
  ASSUME NEW e, NewTrade(e), e.status # "FILL", Looser, NEW k
  PROVE  (Alike(k, trade) => Alike(k, trade)') /\ (Alike(trade, k) => Alike(trade, k)')
<1>1. /\ trade'.qty = trade.qty /\ trade'.entered = trade.entered /\ trade'.taken = trade.taken /\ trade'.stop = trade.stop
      /\ trade' = trade \/ trade'.phase \in Finished
  BY DEF NewTrade
<1>2. RevKept' => trade' = trade
  BY <1>1 DEF RevKept, Live, Manageable, Finished
<1> QED
  BY <1>1, <1>2 DEF Alike, Looser

\* Nobody fills what the journal has refused.
LEMMA RefusedOutside ==
  ASSUME TypeInv, OutcomeInv, BookInv, Outside, pc # "down", NEW e, NEW q, Handled(e, q), NewTrade(e), TradeMoves(e),
         e.status # "FILL", trade'.phase \in Finished
  PROVE  broker.qty = 0
<1>1. RoadOK /\ HoldsOK(broker, Stream)
  BY DEF BookInv
<1>2. trade.qty = 0
  BY DEF NewTrade, TradeMoves
<1>3. broker.known => broker.qty = 0
  BY <1>1, <1>2 DEF RoadOK, Alike
<1> QED
  BY <1>1, <1>3 DEF HoldsOK, Zero

\* Outside a bar the two books stay alike.
LEMMA RefusalRoad ==
  ASSUME NEW e, NewTrade(e), e.status # "FILL", Looser, RoadOK, Outside, Outside', broker' = broker
  PROVE  RoadOK'
<1>1. PICK b : b = broker
  OBVIOUS
<1>2. b.known => Alike(trade, b)
  BY <1>1 DEF RoadOK
<1>3. b.known => Alike(trade, b)'
  BY <1>2, StillAlike
<1> QED
  BY <1>1, <1>3 DEF RoadOK, Alike

LEMMA ConsumeAnswerBook ==
  ASSUME TypeInv, TypeInv', OutcomeInv, BookInv, ConsumeAnswer
  PROVE  BookInv'
<1>1. PICK e : e = inflight
  OBVIOUS
<1>2. PICK q : q = queue
  OBVIOUS
<1>3. /\ pc = "answer" /\ Apply(e) /\ pc' = "work" /\ cut' = cut
      /\ UNCHANGED <<bars, broker, queue, due, batch, done, cursor>>
  BY <1>1 DEF ConsumeAnswer
<1>4. Handled(e, q) /\ OrdersReduced(e) /\ TradeMoves(e) /\ OutcomeInv'
  BY <1>1, <1>2, ConsumeAnswerOutcome
<1>5. batch = <<>> /\ Stream = q /\ Stream' = q /\ Outside /\ Outside' /\ ~Behind /\ ~Behind'
  BY <1>2, <1>3 DEF OutcomeInv, PlaceOK, Outside, Behind, Stream, Simulating
<1>6. /\ Reducible(e) /\ e.status \in {"ACK", "CANCEL", "REJECT"} /\ e.cmd \in Commands /\ order[e.cmd].kind \in Kinds
  BY <1>1, <1>3, <1>4 DEF OutcomeInv, FlightOK, Handled, TypeInv, InflightOK
<1>7. NewTrade(e)
  BY <1>3, <1>6, NewTradeIs
<1>8. trade'.phase \in Finished => broker.qty = 0
  BY <1>3, <1>4, <1>5, <1>6, <1>7, RefusedOutside
<1>9. Journals(e, q)
  BY <1>1, <1>3, <1>4, <1>5, <1>6, <1>8 DEF Journals, Takes, Reduces, Simulating
<1>10. Looser
  <2>1. trade'.phase \in Live => trade.phase \in Live
    BY <1>4 DEF TradeMoves
  <2>2. ASSUME e.status = "CANCEL", trade.qty = 0 PROVE trade'.phase \notin Live
    <3>1. Kind(e.cmd) = order[e.cmd].kind
      BY <1>6, OwnIds DEF Kind
    <3>2. CASE order[e.cmd].kind \in {"OPEN", "CANCEL"}
      BY <1>7, <2>2, <3>1, <3>2 DEF NewTrade, Live, Finished, Manageable
    <3>3. CASE order[e.cmd].kind \notin {"OPEN", "CANCEL"}
      <4>1. order[e.cmd].kind \in {"ADD", "MOVESTOP"} \cup Exits
        BY <1>6, <3>3 DEF Kinds, Increases
      <4>2. trade.phase \notin Live
        BY <1>6, <2>2, <4>1 DEF OutcomeInv, JournalOK, Live
      <4> QED
        BY <2>1, <4>2
    <3> QED
      BY <3>2, <3>3
  <2> QED
    BY <1>1, <1>3, <2>1, <2>2, LooserIs
<1>11. RoadOK /\ broker' = broker
  BY <1>3 DEF BookInv
<1>12. RoadOK'
  BY <1>5, <1>6, <1>7, <1>10, <1>11, RefusalRoad
<1> QED
  BY <1>4, <1>9, <1>12, AppliesBook

LEMMA DrainQueueBook ==
  ASSUME TypeInv, TypeInv', OutcomeInv, BookInv, DrainQueue
  PROVE  BookInv'
<1>1. PICK e : e = Head(queue)
  OBVIOUS
<1>2. PICK q : q = Tail(queue)
  OBVIOUS
<1>3. /\ pc = "work" /\ Apply(e) /\ pc' = "work" /\ cut' = cut /\ queue # <<>> /\ queue' = q
      /\ UNCHANGED <<bars, broker, due, batch, done, cursor>>
  BY <1>1, <1>2 DEF DrainQueue, Decides
<1>4. Handled(e, q) /\ OrdersReduced(e) /\ TradeMoves(e) /\ OutcomeInv'
  BY <1>1, <1>2, DrainQueueOutcome
<1>5. batch = <<>> /\ Stream = queue /\ Stream' = q /\ Outside /\ Outside' /\ ~Behind /\ ~Behind'
  BY <1>2, <1>3 DEF OutcomeInv, PlaceOK, Outside, Behind, Stream, Simulating
<1>6. /\ Reducible(e) /\ e.status = "CANCEL"
      /\ \A i \in 1..Len(q) : \E j \in 1..Len(Stream) : q[i] = Stream[j]
  <2>1. queue \in Seq(EventType) /\ \A i \in 1..Len(queue) : queue[i].status = "CANCEL"
    BY <1>5, StreamIs DEF EventsOK
  <2>2. e = queue[1] /\ 1 \in 1..Len(queue)
    BY <1>1, <1>3, <2>1
  <2>3. \A i \in 1..Len(q) : i + 1 \in 1..Len(queue) /\ q[i] = queue[i + 1]
    BY <1>2, <1>3, <2>1
  <2> QED
    BY <1>4, <1>5, <2>1, <2>2, <2>3 DEF Handled
<1>7. NewTrade(e)
  BY <1>3, <1>6, NewTradeIs
<1>8. trade'.phase \in Finished => broker.qty = 0
  BY <1>3, <1>4, <1>5, <1>6, <1>7, RefusedOutside
<1>9. Journals(e, q)
  BY <1>3, <1>4, <1>5, <1>6, <1>8 DEF Journals, Takes, Reduces, Simulating
<1>10. Looser
  <2>1. trade'.phase \in Live => trade.phase \in Live
    BY <1>4 DEF TradeMoves
  <2> QED
    BY <1>3, <2>1, LooserIs
<1>11. RoadOK /\ broker' = broker
  BY <1>3 DEF BookInv
<1>12. RoadOK'
  BY <1>5, <1>6, <1>7, <1>10, <1>11, RefusalRoad
<1> QED
  BY <1>4, <1>9, <1>12, AppliesBook

\* An event that is applied makes none of the others applied.
LEMMA AppliesOne ==
  ASSUME TypeInv, OutcomeInv, NEW q, EventsOK(q), NEW e, e.cmd \in Commands \cup {StopHit, TargetHit}, Apply(e), RowsSame,
         NEW m, \A i \in 1..Len(q) : q[i].cmd = e.cmd => i = m
  PROVE  \A i \in 1..Len(q) : (Applied(q[i]) => Applied(q[i])') /\ (Applied(q[i])' => Applied(q[i]) \/ i = m)
<1> SUFFICES ASSUME NEW i \in 1..Len(q)
             PROVE  (Applied(q[i]) => Applied(q[i])') /\ (Applied(q[i])' => Applied(q[i]) \/ i = m)
  OBVIOUS
<1>1. PICK x : x = q[i]
  OBVIOUS
<1>2. EventOK(x)
  BY <1>1 DEF EventsOK
<1>3. ExecutionId(x)' = ExecutionId(x)
  BY <1>2, SameEvents
<1>4. applied' = applied \cup {ExecutionId(e)}
  BY DEF Apply
<1>5. Applied(x) => Applied(x)'
  BY <1>3, <1>4 DEF Applied
<1>6. ExecutionId(x) = ExecutionId(e) => x.cmd = e.cmd
  BY DEF ExecutionId
<1>7. Applied(x)' => Applied(x) \/ i = m
  BY <1>1, <1>3, <1>4, <1>6 DEF Applied
<1> QED
  BY <1>1, <1>5, <1>7

LEMMA WithdrawCancelBook ==
  ASSUME TypeInv, TypeInv', OutcomeInv, BookInv, NEW c \in Commands, WithdrawCancel(c)
  PROVE  BookInv'
<1>1. PICK e : e = Event(c, "CANCEL", 0, 0, 0)
  OBVIOUS
<1>2. PICK q : q = Stream
  OBVIOUS
<1>3. /\ pc = "withdraw" /\ Apply(e) /\ pc' = pc /\ cut' = cut
      /\ UNCHANGED <<bars, broker, queue, due, batch, done, cursor>>
      /\ e.cmd = c /\ e.status = "CANCEL" /\ e.qty = 0
  BY <1>1 DEF WithdrawCancel, memory, Event
<1>4. Handled(e, q) /\ OrdersReduced(e) /\ TradeMoves(e) /\ OutcomeInv'
  BY <1>1, <1>2, WithdrawCancelOutcome
<1>5. Stream' = q /\ (Behind' <=> Behind) /\ (Outside' <=> Outside)
  BY <1>2, <1>3 DEF Stream, Behind, Outside
<1>6. Reducible(e) /\ order[c].kind \in Increases /\ order[c].status = "PENDING" /\ broker.answer[c] = "none"
  <2>1. order[c].kind \in Increases /\ order[c].status = "PENDING" /\ order[c].outbox = "UNDELIVERED"
    BY DEF WithdrawCancel, Undelivered, Of
  <2> QED
    BY <1>4, <2>1 DEF Handled, OutcomeInv, MemoryOK, SentOK
<1>7. NewTrade(e) /\ NewOrders(e) /\ RowsSame
  <2>1. NewTrade(e) /\ NewOrders(e)
    BY <1>3, <1>6, NewTradeIs, NewOrdersAre
  <2> QED
    BY <1>4, <2>1 DEF RowsSame, OrdersReduced, NewOrders
<1>8. HoldsOK(broker, Stream) /\ RoadOK /\ broker \in BrokerType
  BY StreamIs DEF BookInv
<1>9. trade'.phase \in Finished => broker.qty = 0
  <2> SUFFICES ASSUME trade'.phase \in Finished, trade.phase \notin Finished, broker.qty # 0 PROVE FALSE
    BY <1>8 DEF HoldsOK
  <2>1. order[c].kind = "OPEN"
    BY <1>3, <1>4, <1>6, OwnIds DEF TradeMoves, Reduces, Kind, Increases
  <2>2. trade.qty = 0
    BY <1>6, <2>1 DEF OutcomeInv, JournalOK, Waiting
  <2>3. broker.qty > 0
    BY <1>8 DEF BrokerType
  <2>4. PICK x \in Of(Commands, {"OPEN"}) : broker.answer[x] = "FILL"
    BY <1>8, <2>2, <2>3 DEF HoldsOK
  <2>5. x = c
    BY <2>1, <2>4 DEF OutcomeInv, JournalOK, Of
  <2> QED
    BY <1>6, <2>4, <2>5
<1>10. Journals(e, q)
  BY <1>2, <1>3, <1>4, <1>5, <1>9 DEF Journals, Takes, Reduces, Simulating
<1>11. Looser
  <2>1. trade'.phase \in Live => trade.phase \in Live
    BY <1>4 DEF TradeMoves
  <2> QED
    BY <1>3, <2>1, LooserIs
<1>12. CASE Outside
  <2>1. RoadOK'
    BY <1>3, <1>5, <1>7, <1>8, <1>11, <1>12, RefusalRoad
  <2> QED
    BY <1>4, <1>10, <2>1, AppliesBook
<1>13. CASE ~Outside
  <2>1. PICK b : b = broker
    OBVIOUS
  <2>2. EventsOK(q)
    BY <1>4 DEF Handled
  <2>3. \A i \in 1..Len(q) : q[i].cmd # c
    BY <1>4, <1>6 DEF Handled, StreamOK
  <2>4. e.cmd \in Commands \cup {StopHit, TargetHit}
    BY <1>3
  <2>5. \A i \in 1..Len(q) : q[i].cmd = e.cmd => i = 0
    BY <1>3, <2>3
  <2>6. \A i \in 1..Len(q) : (Applied(q[i]) => Applied(q[i])') /\ (Applied(q[i])' => Applied(q[i]) \/ i = 0)
    BY <1>3, <1>7, <2>2, <2>4, <2>5, AppliesOne
  <2>7. Pending(q)' = Pending(q) /\ Reached' = Reached
    <3>1. \A i \in 1..Len(q) : Applied(q[i])' <=> Applied(q[i])
      BY <2>6
    <3> QED
      BY <1>3, <3>1 DEF Pending, Reached
  <2>8. b.known => \E p \in [0..Len(q) -> Books] : Leads(p, q, b)'
    <3> SUFFICES ASSUME b.known PROVE \E p \in [0..Len(q) -> Books] : Leads(p, q, b)'
      OBVIOUS
    <3>1. PICK p \in [0..Len(q) -> Books] : Leads(p, q, b)
      BY <1>2, <1>8, <1>13, <2>1 DEF RoadOK, Road
    <3>2. \A i \in 0..Reached : Alike(p[i], trade)
      BY <3>1 DEF Leads
    <3>3. \A i \in 0..Reached' : Alike(p[i], trade)'
      <4> SUFFICES ASSUME NEW i \in 0..Reached PROVE Alike(p[i], trade)'
        BY <2>7
      <4>1. PICK k : k = p[i]
        OBVIOUS
      <4>2. Alike(k, trade)'
        BY <1>3, <1>7, <1>11, <3>2, <4>1, StillAlike
      <4> QED
        BY <4>1, <4>2 DEF Alike
    <3>4. Leads(p, q, b)'
      BY <1>7, <1>11, <2>2, <2>7, <3>1, <3>3, LeadsStays
    <3> QED
      BY <3>4
  <2>9. RoadOK'
    BY <1>3, <1>5, <1>13, <2>1, <2>8 DEF RoadOK, Road, Leads
  <2> QED
    BY <1>4, <1>10, <2>9, AppliesBook
<1> QED
  BY <1>12, <1>13

\* The next event is of a book like the trade's.
LEMMA UpcomingIs ==
  ASSUME TypeInv, OutcomeInv, BookInv, HasNext, ~Applied(Upcoming)
  PROVE  /\ broker.known /\ Stream = batch /\ done + 1 \in 1..Len(batch) /\ Upcoming = batch[done + 1] /\ EventOK(Upcoming)
         /\ ~Outside /\ Behind /\ pc = "commit"
         /\ \E p \in [0..Len(batch) -> Books] : Leads(p, batch, broker)
         /\ \A p \in [0..Len(batch) -> Books] : Leads(p, batch, broker) =>
              /\ p[done] \in Books /\ p[done + 1] \in Books /\ Alike(p[done], trade)
              /\ Takes(Upcoming, p[done]) /\ Alike(p[done + 1], Turned(Upcoming, p[done]))
              /\ Reduces(Upcoming) /\ p[done + 1].qty = 0 => broker.qty = 0
<1>1. pc = "commit" /\ done \in 0..Len(batch) /\ done < Len(batch) /\ EventsOK(batch) /\ Len(batch) \in Nat
  BY DEF HasNext, TypeInv, BatchOK, EventsOK
<1>2. done + 1 \in 1..Len(batch) /\ Upcoming = batch[done + 1] /\ EventOK(Upcoming) /\ batch # <<>> /\ done + 1 - 1 = done
      /\ done \in 0..Len(batch) /\ done + 1 \in 0..Len(batch) /\ done \in 0..done
  BY <1>1 DEF Upcoming, EventsOK
<1>3. Stream = batch /\ ~Outside /\ Behind
  BY <1>2 DEF Stream, Outside, Behind
<1>4. Road(broker, batch) /\ HoldsOK(broker, batch)
  BY <1>3 DEF BookInv, RoadOK
<1>5. broker.known
  BY <1>2, <1>4 DEF HoldsOK
<1>6. ASSUME NEW p \in [0..Len(batch) -> Books], Leads(p, batch, broker)
      PROVE  /\ p[done] \in Books /\ p[done + 1] \in Books /\ Alike(p[done], trade)
             /\ Takes(Upcoming, p[done]) /\ Alike(p[done + 1], Turned(Upcoming, p[done]))
             /\ Reduces(Upcoming) /\ p[done + 1].qty = 0 => broker.qty = 0
  <2>1. p[done] \in Books /\ p[done + 1] \in Books
    BY <1>2
  <2>2. done + 1 \in Pending(batch) /\ Reached = done
    BY <1>1, <1>2 DEF Pending, Reached
  <2>3. PICK m : m = done + 1
    OBVIOUS
  <2>4. Takes(batch[m], p[m - 1]) /\ Alike(p[m], Turned(batch[m], p[m - 1])) /\ (Reduces(batch[m]) /\ p[m].qty = 0 => broker.qty = 0)
    BY <1>2, <1>6, <2>2, <2>3 DEF Leads
  <2>5. Alike(p[done], trade)
    BY <1>2, <1>6, <2>2 DEF Leads
  <2> QED
    BY <1>2, <2>1, <2>3, <2>4, <2>5
<1> QED
  BY <1>1, <1>2, <1>3, <1>4, <1>5, <1>6 DEF Road

\* Nothing reaches the journal that its position does not hold.
LEMMA UpcomingTakes ==
  ASSUME TypeInv, OutcomeInv, BookInv, HasNext, ~Applied(Upcoming)
  PROVE  Takes(Upcoming, Book(trade)) /\ Book(trade) \in Books
<1>1. PICK p \in [0..Len(batch) -> Books] : Leads(p, batch, broker)
  BY UpcomingIs
<1>2. PICK k : k = p[done]
  OBVIOUS
<1>3. PICK e : e = Upcoming
  OBVIOUS
<1>4. PICK l : l = Book(trade)
  OBVIOUS
<1>5. k \in Books /\ Alike(k, trade) /\ Takes(e, k) /\ EventOK(e)
  BY <1>1, <1>2, <1>3, UpcomingIs
<1>6. l \in Books
  BY <1>4 DEF Book, Books, TypeInv, TradeType
<1>7. Alike(l, k)
  BY <1>4, <1>5 DEF Alike, Book
<1> QED
  BY <1>3, <1>4, <1>5, <1>6, <1>7, AlikeTurns

\* The event takes the journal to the next book.
LEMMA ConsumedAlike ==
  ASSUME TypeInv, TypeInv', OutcomeInv, OutcomeInv', BookInv, Consume, NewTrade(Upcoming), Looser, Upcoming.status # "ACTIVE",
         NEW p \in [0..Len(batch) -> Books], Leads(p, batch, broker), NEW l, l = p[done + 1]
  PROVE  Alike(l, trade)'
<1>1. PICK e : e = Upcoming
  OBVIOUS
<1>2. PICK k : k = p[done]
  OBVIOUS
<1>3. PICK t : t = Book(trade)
  OBVIOUS
<1>4. HasNext /\ ~Applied(Upcoming)
  BY DEF Consume
<1>5. k \in Books /\ l \in Books /\ Alike(k, trade) /\ Takes(e, k) /\ EventOK(e) /\ Alike(l, Turned(e, k))
  BY <1>1, <1>2, <1>4, UpcomingIs
<1>6. t \in Books /\ Takes(e, t) /\ Alike(t, k) /\ Alike(k, t)
  BY <1>1, <1>3, <1>4, <1>5, UpcomingTakes DEF Alike, Book
<1>7. NewTrade(e) /\ e.status # "ACTIVE"
  BY <1>1
<1>8. CASE e.status = "FILL"
  <2>1. PICK m : m = Turned(e, k)
    OBVIOUS
  <2>2. PICK n : n = Turned(e, t)
    OBVIOUS
  <2>3. Alike(l, m) /\ Alike(n, m)
    BY <1>5, <1>6, <2>1, <2>2, AlikeTurns
  <2>4. Alike(l, n)
    BY <2>3, AlikeIs
  <2>5. Alike(l, n)'
    BY <2>4, AlikeStays
  <2>6. Alike(n, trade)'
    BY <1>3, <1>5, <1>6, <1>7, <1>8, <2>2, FillTurns DEF OutcomeInv
  <2> QED
    BY <2>5, <2>6 DEF Alike
<1>9. CASE e.status # "FILL"
  <2>1. e.status \in {"CANCEL", "REJECT"}
    BY <1>5, <1>7, <1>9 DEF EventOK, EventType
  <2>2. Turned(e, k) = k
    BY <1>5, <2>1, TurnedIs
  <2>3. Alike(l, trade)
    BY <1>5, <2>2, AlikeIs
  <2> QED
    BY <1>7, <1>9, <2>3, StillAlike
<1> QED
  BY <1>8, <1>9

LEMMA ConsumeBook ==
  ASSUME TypeInv, TypeInv', OutcomeInv, BookInv, Consume
  PROVE  BookInv'
<1>1. PICK e : e = Upcoming
  OBVIOUS
<1>2. PICK q : q = batch
  OBVIOUS
<1>3. PICK m : m = done + 1
  OBVIOUS
<1>4. PICK b : b = broker
  OBVIOUS
<1>5. /\ HasNext /\ ~Applied(e) /\ Apply(e) /\ done' = m /\ cut' = cut /\ HasNext /\ ~Applied(Upcoming)
      /\ pc' = IF e.status = "ACTIVE" THEN "confirm" ELSE "commit"
      /\ UNCHANGED <<bars, broker, queue, due, batch, cursor>>
  BY <1>1, <1>3 DEF Consume
<1>6. Handled(e, q) /\ OrdersReduced(e) /\ TradeMoves(e) /\ OutcomeInv'
  BY <1>1, <1>2, ConsumeOutcome
<1>7. /\ broker.known /\ Stream = q /\ Stream' = q /\ m \in 1..Len(q) /\ e = q[m] /\ EventOK(e) /\ EventsOK(q)
      /\ ~Outside /\ ~Outside' /\ Behind /\ Behind' /\ pc = "commit" /\ m - 1 = done /\ done \in Nat
  <2>1. batch # <<>>
    BY <1>5, UpcomingIs
  <2>2. ~Outside' /\ Behind' /\ Stream' = q
    BY <1>2, <1>5, <2>1 DEF Outside, Behind, Stream
  <2> QED
    BY <1>1, <1>2, <1>3, <1>5, <1>6, <2>2, UpcomingIs DEF Handled, TypeInv, BatchOK
<1>8. PICK p \in [0..Len(q) -> Books] : Leads(p, q, b)
  BY <1>2, <1>4, <1>5, UpcomingIs
<1>9. Reducible(e) /\ NewTrade(e) /\ NewOrders(e) /\ RowsSame /\ e.status \in {"ACTIVE", "FILL", "CANCEL", "REJECT"}
  <2>1. Reducible(e) /\ NewTrade(e) /\ NewOrders(e)
    BY <1>5, <1>6, NewTradeIs, NewOrdersAre DEF Handled
  <2> QED
    BY <1>6, <1>7, <2>1 DEF RowsSame, OrdersReduced, NewOrders, EventOK, EventType
<1>10. Looser
  <2>1. trade'.phase \in Live => trade.phase \in Live
    BY <1>6 DEF TradeMoves
  <2> QED
    BY <1>5, <1>7, <2>1, LooserIs
<1>11. e.status # "ACTIVE" => Alike(p[m], trade)'
  <2>1. PICK l : l = p[m]
    OBVIOUS
  <2>2. l = p[done + 1]
    BY <1>3, <2>1
  <2>3. e.status # "ACTIVE" => Alike(l, trade)'
    BY <1>1, <1>2, <1>4, <1>6, <1>8, <1>9, <1>10, <2>2, ConsumedAlike
  <2> QED
    BY <2>1, <2>3 DEF Alike
<1>12. trade'.phase \in Finished => b.qty = 0
  <2> SUFFICES ASSUME trade'.phase \in Finished, trade.phase \notin Finished PROVE b.qty = 0
    BY <1>4 DEF BookInv, HoldsOK
  <2>1. Reduces(e) \/ (e.status \in {"CANCEL", "REJECT"} /\ Kind(e.cmd) \in {"OPEN", "CANCEL"})
    BY <1>6 DEF TradeMoves
  <2>2. CASE Reduces(e)
    <3>1. e.status # "ACTIVE"
      BY <2>2 DEF Reduces
    <3>2. p[m].qty = trade'.qty
      BY <1>11, <3>1 DEF Alike
    <3>3. trade'.qty = 0
      BY <1>6 DEF TradeMoves
    <3>4. Reduces(Upcoming) /\ p[done + 1].qty = 0 => broker.qty = 0
      BY <1>2, <1>4, <1>5, <1>8, UpcomingIs
    <3> QED
      BY <1>1, <1>3, <1>4, <2>2, <3>2, <3>3, <3>4
  <2>3. CASE e.status \in {"CANCEL", "REJECT"} /\ Kind(e.cmd) \in {"OPEN", "CANCEL"}
    <3>1. e.cmd \in Commands
      BY <1>7, <2>3 DEF EventOK
    <3>2. Kind(e.cmd) = order[e.cmd].kind
      BY <3>1, OwnIds DEF Kind
    <3>3. order[e.cmd].kind # "CANCEL"
      BY <1>6, <1>7, <3>1 DEF Handled, StreamOK
    <3>4. e.cmd \in Of(Commands, {"OPEN"})
      BY <2>3, <3>1, <3>2, <3>3 DEF Of
    <3>5. OwnOK(broker, Stream)
      BY DEF BookInv
    <3> QED
      BY <1>4, <1>7, <2>3, <3>4, <3>5 DEF OwnOK
  <2> QED
    BY <2>1, <2>2, <2>3
<1>13. \A i \in 1..Len(q) : q[i].cmd = e.cmd => i = m
  <2>1. e.cmd \in Commands => \A i \in 1..Len(q) : q[i].cmd = e.cmd => i = m
    BY <1>6, <1>7 DEF Handled, StreamOK
  <2>2. e.cmd \notin Commands => \A i \in 1..Len(q) : q[i].cmd = e.cmd => i = m
    BY <1>7 DEF BookInv, OwnOK
  <2> QED
    BY <2>1, <2>2
<1>14. \A j \in 1..m - 1 : Applied(q[j])
  BY <1>2, <1>7 DEF OutcomeInv, PlaceOK
<1>15. Journals(e, q)
  <2>1. Takes(e, Book(trade))
    BY <1>1, <1>5, UpcomingTakes
  <2>2. e.status # "ACK"
    BY <1>9
  <2>3. pc \notin Simulating \cup {"down"} /\ pc' \notin Simulating \cup {"down", "sent", "answer"}
    BY <1>5, <1>7 DEF Simulating
  <2>4. \E k \in 1..Len(q) : q[k] = e /\ \A j \in 1..k - 1 : Applied(q[j])
    BY <1>7, <1>14
  <2>5. \A i \in 1..Len(q) : \E j \in 1..Len(Stream) : q[i] = Stream[j]
    BY <1>7
  <2> QED
    BY <1>4, <1>5, <1>6, <1>7, <1>12, <2>1, <2>2, <2>3, <2>4, <2>5 DEF Journals
<1>16. \A i \in 1..Len(q) : (Applied(q[i]) => Applied(q[i])') /\ (Applied(q[i])' => Applied(q[i]) \/ i = m)
  <2>1. e.cmd \in Commands \cup {StopHit, TargetHit}
    BY <1>7 DEF EventOK, EventType
  <2> QED
    BY <1>5, <1>7, <1>9, <1>13, <2>1, AppliesOne
<1>17. Applied(q[m])'
  <2>1. ExecutionId(e)' = ExecutionId(e)
    BY <1>7, <1>9, SameEvents
  <2>2. Applied(e)'
    BY <1>5, <2>1 DEF Applied, Apply
  <2> QED
    BY <1>7, <2>2
<1>18. \E x \in [0..Len(q) -> Books] : Leads(x, q, b)'
  <2>1. CASE e.status = "ACTIVE"
    <3>1. pc' = "confirm" /\ Reached' = done /\ Reached = done
      BY <1>3, <1>5, <1>7, <2>1 DEF Reached
    <3>2. Pending(q)' = Pending(q)
      <4>1. \A i \in 1..Len(q) : i # m => (Applied(q[i])' <=> Applied(q[i]))
        BY <1>16
      <4>2. ~Applied(q[m])
        BY <1>5, <1>7
      <4> QED
        BY <1>5, <1>7, <3>1, <4>1, <4>2 DEF Pending
    <3>3. trade' = trade
      BY <1>5, <1>9, <2>1, TradeAfterIs DEF Apply, TypeInv
    <3>4. \A i \in 0..Reached' : Alike(p[i], trade)'
      <4> SUFFICES ASSUME NEW i \in 0..Reached PROVE Alike(p[i], trade)'
        BY <3>1
      <4>1. PICK k : k = p[i]
        OBVIOUS
      <4>2. Alike(k, trade)
        BY <1>8, <4>1 DEF Leads
      <4>3. Alike(k, trade)'
        BY <1>9, <1>10, <2>1, <4>2, StillAlike
      <4> QED
        BY <4>1, <4>3 DEF Alike
    <3>5. Leads(p, q, b)'
      BY <1>7, <1>8, <1>9, <1>10, <3>2, <3>4, LeadsStays
    <3> QED
      BY <3>5
  <2>2. CASE e.status # "ACTIVE"
    <3>1. pc' = "commit" /\ Reached' = m
      BY <1>5, <2>2 DEF Reached
    <3>2. Pending(q)' = Pending(q) \ (1..m)
      <4>1. \A i \in 1..m : i = m \/ i \in 1..m - 1
        BY <1>7
      <4>2. \A i \in 1..m : i \in 1..Len(q) /\ Applied(q[i])'
        BY <1>7, <1>14, <1>16, <1>17, <4>1
      <4>3. \A i \in 1..Len(q) : i \notin 1..m => (Applied(q[i])' <=> Applied(q[i]))
        BY <1>7, <1>16
      <4>4. \A i \in 1..Len(q) : i \in Pending(q) <=> ~Applied(q[i])
        BY <1>7 DEF Pending
      <4>5. \A i \in 1..Len(q) : i \in Pending(q)' <=> ~Applied(q[i])'
        BY <3>1 DEF Pending
      <4>6. Pending(q)' \subseteq 1..Len(q) /\ Pending(q) \subseteq 1..Len(q)
        BY DEF Pending
      <4> QED
        BY <4>2, <4>3, <4>4, <4>5, <4>6
    <3> QED
      BY <1>7, <1>8, <1>9, <1>10, <1>11, <2>2, <3>1, <3>2, LeadsWalks
  <2> QED
    BY <2>1, <2>2
<1>19. RoadOK'
  BY <1>4, <1>5, <1>7, <1>18 DEF RoadOK, Road, Leads
<1> QED
  BY <1>6, <1>15, <1>19, AppliesBook

LEMMA ConfirmStopBook ==
  ASSUME TypeInv, TypeInv', OutcomeInv, BookInv, ConfirmStop
  PROVE  BookInv'
<1>0. /\ RowsOK /\ KnownOK /\ ClockOK /\ OwnOK(broker, Stream) /\ HoldsOK(broker, Stream)
      /\ TargetOK /\ AgainOK(broker, due) /\ TargetsIn(Stream) /\ SinceOK /\ StagesOK /\ RoadOK
  BY DEF BookInv
<1>1. PICK e : e = batch[done]
  OBVIOUS
<1>2. PICK q : q = batch
  OBVIOUS
<1>3. PICK m : m = done
  OBVIOUS
<1>4. PICK b : b = broker
  OBVIOUS
<1>5. /\ pc = "confirm" /\ pc' = "commit" /\ cut' = cut /\ order' = order /\ applied' = applied
      /\ UNCHANGED <<bars, broker, queue, due, batch, done, cursor, inflight>>
  BY DEF ConfirmStop, memory
<1>6. m \in 1..Len(q) /\ e = q[m] /\ e.status = "ACTIVE" /\ EventOK(e) /\ EventsOK(q) /\ Len(q) \in Nat /\ batch # <<>>
  BY <1>1, <1>2, <1>3, <1>5 DEF TypeInv, BatchOK, EventsOK
<1>7. /\ Stream = q /\ Stream' = q /\ ~Outside /\ ~Outside' /\ Behind /\ Behind'
  BY <1>2, <1>5, <1>6 DEF Outside, Behind, Stream
<1>8. /\ trade'.phase = trade.phase /\ trade'.qty = trade.qty /\ trade'.entered = trade.entered /\ trade'.taken = trade.taken
      /\ trade'.stop = order[e.cmd].level /\ trade'.rev = trade.rev + 1 /\ trade'.increased = trade.increased
      /\ trade'.paid = trade.paid /\ trade'.observed = trade.observed /\ trade'.executed = Larger(trade.executed, e.bar)
  <2> DEFINE stop == order[e.cmd].level
             executed == Larger(trade.executed, e.bar)
  <2>1. trade' = [trade EXCEPT !.stop = stop, !.moving = 0, !.rev = @ + 1, !.executed = executed]
    BY <1>1 DEF ConfirmStop
  <2> HIDE DEF stop, executed
  <2>2. /\ trade'.phase = trade.phase /\ trade'.qty = trade.qty /\ trade'.entered = trade.entered /\ trade'.taken = trade.taken
        /\ trade'.stop = stop /\ trade'.rev = trade.rev + 1 /\ trade'.increased = trade.increased
        /\ trade'.paid = trade.paid /\ trade'.observed = trade.observed /\ trade'.executed = executed
    BY <2>1 DEF TypeInv, TradeType
  <2> QED
    BY <2>2 DEF stop, executed
<1>9. e.cmd \in Commands /\ order[e.cmd].kind = "MOVESTOP" /\ order[e.cmd].level > 0
  <2>1. e.cmd \in Commands /\ order[e.cmd].kind = "MOVESTOP"
    BY <1>6 DEF EventOK
  <2> QED
    BY <1>0, <2>1 DEF RowsOK, Of
<1>10. ~Unopened /\ trade.phase # "none"
  BY <1>9 DEF OutcomeInv, JournalOK, Unopened
<1>11. /\ trade.executed \in Nat /\ trade.observed \in Nat /\ trade.increased \in Nat /\ cursor \in Nat /\ Len(bars) \in Nat
       /\ trade.executed <= Len(bars) /\ trade.observed <= Len(bars) /\ cursor <= Len(bars)
       /\ trade.increased <= trade.executed /\ trade.executed <= cursor + 1 /\ cursor < Len(bars)
  <2>1. cursor < Len(bars)
    BY <1>0, <1>7 DEF ClockOK
  <2> QED
    BY <1>0, <1>5, <2>1, ClockIs
<1>12. e.bar = cursor + 1 /\ trade'.executed = cursor + 1
  <2>1. e.bar = cursor + 1
    BY <1>0, <1>6, <1>7 DEF OwnOK
  <2> QED
    BY <1>8, <1>11, <2>1 DEF Larger
<1>13. \A K : Of(Commands, K)' = Of(Commands, K)
  BY <1>5 DEF Of
<1>14. HoldsOK(broker, Stream)'
  BY <1>0, <1>5, <1>7, <1>8, <1>13 DEF HoldsOK, Zero
<1>15. RowsOK'
  <2>1. \A x \in applied : x[1] = TargetHit => x[3] \in 0..trade'.executed
    BY <1>0, <1>11, <1>12 DEF RowsOK
  <2> QED
    BY <1>0, <1>5, <1>8, <1>9, <1>10, <1>13, <2>1 DEF RowsOK, Unopened
<1>16. KnownOK'
  BY <1>0, <1>5, <1>8 DEF KnownOK
<1>17. trade.phase \in Manageable => Boundary = cursor /\ Boundary' = cursor
  <2> SUFFICES ASSUME trade.phase \in Manageable PROVE Boundary = cursor /\ Boundary' = cursor
    OBVIOUS
  <2>1. Boundary = cursor /\ trade.phase \in Live
    BY <1>0, <1>5 DEF ClockOK, Live
  <2>2. cursor = RestartAt(trade) /\ Boundary' = RestartAt(trade')
    BY <1>8, <2>1, LiveBoundary, NextBoundary DEF TypeInv
  <2>3. trade.observed <= cursor
    BY <1>11, <2>2 DEF RestartAt
  <2>4. RestartAt(trade') = cursor
    BY <1>8, <1>11, <1>12, <2>3 DEF RestartAt
  <2> QED
    BY <2>1, <2>2, <2>4
<1>18. ClockOK'
  <2>1. trade'.executed <= Len(bars) /\ trade'.increased <= trade'.executed /\ trade'.executed > 0
    BY <1>8, <1>11, <1>12
  <2>2. {trade'.executed, trade'.observed, cursor} \subseteq 0..Len(bars)
    BY <1>8, <1>11, <1>12
  <2>3. trade'.executed <= cursor + 1
    BY <1>11, <1>12
  <2> QED
    BY <1>5, <1>8, <1>11, <1>17, <2>1, <2>2, <2>3 DEF ClockOK
<1>19. OwnOK(broker, Stream)'
  BY <1>0, <1>5, <1>7, <1>13 DEF OwnOK
<1>20. PICK t : t = cursor + 1
  OBVIOUS
<1>21. \A c \in Of(Accepted, Increases)' : c \in Of(Accepted, Increases)
  BY <1>5 DEF Of, Accepted
<1>22. TargetOK'
  <2> SUFFICES ASSUME trade.phase \in Manageable PROVE TakenOK(t)'
    BY <1>5, <1>8, <1>17, <1>20 DEF TargetOK, TakenOK, Taken
  <2>1. TakenOK(t)
    BY <1>0, <1>17, <1>20 DEF TargetOK
  <2> QED
    BY <1>5, <1>8, <1>21, <2>1 DEF TakenOK, Taken, Blocked, Limit
<1>23. AgainOK(broker, due)'
  <2>1. WaitsIn(broker, due)' = WaitsIn(broker, due) /\ Of(WaitsIn(broker, due), Increases)' = Of(WaitsIn(broker, due), Increases)
    BY <1>5 DEF WaitsIn, Of
  <2> QED
    BY <1>0, <1>5, <1>8, <2>1 DEF AgainOK, Taken, Blocked, Limit
<1>24. TargetsIn(Stream)'
  BY <1>0, <1>5, <1>7, <1>8, <1>21 DEF TargetsIn, Taken, Blocked, Limit, Grows, Applied, ExecutionId, Kind
<1>25. SinceOK'
  <2>1. WaitsIn(broker, due)' = WaitsIn(broker, due)
    BY <1>5 DEF WaitsIn
  <2> QED
    BY <1>0, <1>5, <1>21, <2>1 DEF SinceOK, Simulating
<1>26. StagesOK'
  BY <1>5, <1>7 DEF StagesOK, Before, Simulating
<1>27. RowsSame /\ Looser
  <2>1. Looser
    BY <1>5, <1>8, LooserIs
  <2> QED
    BY <1>5, <2>1 DEF RowsSame
<1>28. b.known => \E x \in [0..Len(q) -> Books] : Leads(x, q, b)'
  <2> SUFFICES ASSUME b.known PROVE \E x \in [0..Len(q) -> Books] : Leads(x, q, b)'
    OBVIOUS
  <2>1. PICK p \in [0..Len(q) -> Books] : Leads(p, q, b)
    BY <1>0, <1>4, <1>7 DEF RoadOK, Road
  <2>2. Reached = m - 1 /\ m \in Pending(q) /\ Reached' = m
    BY <1>3, <1>5, <1>6 DEF Reached, Pending
  <2>3. PICK k : k = p[m - 1]
    OBVIOUS
  <2>4. PICK l : l = p[m]
    OBVIOUS
  <2>5. m - 1 \in 0..Len(q) /\ m \in 0..Len(q) /\ m - 1 \in 0..Reached
    BY <1>6, <2>2
  <2>6. k \in Books /\ l \in Books /\ Alike(k, trade) /\ Takes(e, k) /\ Alike(l, Turned(e, k))
    BY <1>6, <2>1, <2>2, <2>3, <2>4, <2>5 DEF Leads
  <2>7. PICK n : n = Turned(e, k)
    OBVIOUS
  <2>8. /\ n.qty = k.qty /\ n.entered = k.entered /\ n.taken = k.taken /\ n.stop = order[e.cmd].level /\ n.rev = k.rev + 1
    BY <1>6, <2>6, <2>7, TurnedIs
  <2>9. Alike(l, n)'
    BY <1>27, <2>6, <2>7, AlikeStays
  <2>10. Alike(n, trade)'
    BY <1>8, <1>27, <2>6, <2>8 DEF Alike, Looser
  <2>11. Alike(p[m], trade)'
    BY <2>4, <2>9, <2>10 DEF Alike
  <2>12. Pending(q)' = Pending(q) \ (1..m)
    <3>1. \A i \in 1..m : Applied(q[i])
      BY <1>2, <1>3 DEF OutcomeInv, PlaceOK
    <3>2. \A i \in 1..Len(q) : Applied(q[i])' <=> Applied(q[i])
      BY <1>5 DEF Applied, ExecutionId, Kind
    <3>3. \A i \in 1..Len(q) : i \in Pending(q) <=> ~Applied(q[i]) \/ i = m
      BY <1>3, <1>5 DEF Pending
    <3>4. \A i \in 1..Len(q) : i \in Pending(q)' <=> ~Applied(q[i])
      BY <1>5, <3>2 DEF Pending
    <3>5. Pending(q)' \subseteq 1..Len(q) /\ Pending(q) \subseteq 1..Len(q) /\ m \in 1..m /\ \A i \in 1..m : i \in 1..Len(q)
      BY <1>6 DEF Pending
    <3> QED
      BY <3>1, <3>3, <3>4, <3>5
  <2> QED
    BY <1>6, <1>27, <2>1, <2>2, <2>11, <2>12, LeadsWalks
<1>29. RoadOK'
  BY <1>4, <1>5, <1>7, <1>28 DEF RoadOK, Road, Leads
<1> QED
  BY <1>14, <1>15, <1>16, <1>18, <1>19, <1>22, <1>23, <1>24, <1>25, <1>26, <1>29 DEF BookInv

-----------------------------------------------------------------------------
(* A stage of a bar turns the broker's book, one event at a time.          *)

\* What a stage finds and leaves.
OnRoad(b, q, rest) ==
  /\ Road(b, q) /\ HoldsOK(b, q) /\ OwnOK(b, q) /\ TargetsIn(q)
  /\ \A c \in Of(WaitsIn(b, rest), {"OPEN"}) : b.qty = 0
  /\ \A x \in applied : x[1] \in WaitsIn(b, rest) /\ x[2] = "ACTIVE" => "stop" \in cut
  /\ b.known = broker.known /\ b.since = broker.since /\ WaitsIn(b, rest) \subseteq WaitsIn(broker, due)

\* The event e turns the book of s into that of n; its command waits no more.
Turns(s, rest, e, n, left) ==
  /\ n \in BrokerType /\ EventOK(e) /\ s.b.known /\ n.known /\ n.since = s.b.since
  /\ Takes(e, Book(s.b)) /\ Book(n) = Turned(e, Book(s.b)) /\ n.opened <= cursor + 1
  /\ WaitsIn(n, left) \subseteq WaitsIn(s.b, rest)
  /\ e.cmd \in Commands => e.cmd \in WaitsIn(s.b, rest) \ WaitsIn(n, left)
  /\ e.cmd \notin Commands => ~Applied(e) /\ \A i \in 1..Len(s.q) : s.q[i].cmd # e.cmd
  /\ \A c \in Commands : s.b.answer[c] = "FILL" => n.answer[c] = "FILL"
  /\ Grows(e) => n.answer[e.cmd] = "FILL" /\ Room(s.q) /\ (order[e.cmd].kind = "OPEN" \/ s.b.qty > 0)
  /\ e.status \in {"FILL", "ACTIVE"} => e.bar = cursor + 1
  /\ e.cmd = StopHit => n.qty = 0
  /\ Taken(cursor + 1) /\ trade.phase \in Manageable /\ Grows(e) => e.price # bars[cursor + 1].open
  /\ e.cmd = TargetHit => \A c \in Of(Accepted, Increases) :
       Blocked(c, order[c].since, cursor + 1) \/ c \in Told(s.q)

\* What a turn does to the fields, and why its event is new to the journal.
LEMMA TurnIs ==
  ASSUME TypeInv, OutcomeInv, NEW s, SimOK(s), NEW rest, NEW e, NEW n, NEW left,
         BarOK(s, rest), OnRoad(s.b, s.q, rest), Turns(s, rest, e, n, left)
  PROVE  /\ Grows(e) => n.qty = s.b.qty + e.qty /\ n.stop = Larger(s.b.stop, Basis(e.cmd))
         /\ Reduces(e) => /\ n.qty = s.b.qty - e.qty /\ e.qty <= s.b.qty
                          /\ n.stop = IF e.qty = s.b.qty THEN 0 ELSE s.b.stop
         /\ e.status = "ACTIVE" => n.qty = s.b.qty /\ n.stop = order[e.cmd].level
         /\ e.status \in {"CANCEL", "REJECT"} => n.qty = s.b.qty /\ n.stop = s.b.stop
         /\ s.b.qty = 0 /\ ~Grows(e) => n.qty = 0
         /\ Applied(e) => e.status = "ACTIVE" /\ "stop" \in cut
<1> USE DEF Turns
<1>1. s.b \in BrokerType /\ s.b.qty \in Nat
  BY FieldsAre
<1>2. /\ Book(s.b) \in Books /\ Book(s.b).qty = s.b.qty /\ Book(s.b).stop = s.b.stop
      /\ Book(n).qty = n.qty /\ Book(n).stop = n.stop
  BY <1>1, BookIs
<1>3. /\ e.qty \in Nat /\ (e.status = "FILL" <=> Grows(e) \/ Reduces(e))
      /\ e.status \in {"ACTIVE", "FILL", "CANCEL", "REJECT"}
  BY EventIs
<1>4. Reduces(e) => e.qty <= s.b.qty
  BY <1>2 DEF Takes
<1>5. /\ Grows(e) => n.qty = s.b.qty + e.qty /\ n.stop = Larger(s.b.stop, Basis(e.cmd))
      /\ Reduces(e) => n.qty = s.b.qty - e.qty /\ n.stop = IF e.qty = s.b.qty THEN 0 ELSE s.b.stop
      /\ e.status = "ACTIVE" => n.qty = s.b.qty /\ n.stop = order[e.cmd].level
      /\ e.status \in {"CANCEL", "REJECT"} => n.qty = s.b.qty /\ n.stop = s.b.stop
  BY <1>2, TurnedIs
<1>6. s.b.qty = 0 /\ ~Grows(e) => n.qty = 0
  BY <1>1, <1>3, <1>4, <1>5
<1>7. Applied(e) => e.status = "ACTIVE" /\ "stop" \in cut
  <2> SUFFICES ASSUME Applied(e) PROVE e.status = "ACTIVE" /\ "stop" \in cut
    OBVIOUS
  <2>1. PICK x : x = ExecutionId(e)
    OBVIOUS
  <2>2. x \in applied /\ x[1] = e.cmd /\ x[2] = e.status
    BY <2>1 DEF Applied, ExecutionId
  <2>3. e.cmd \in Commands /\ e.cmd \in WaitsIn(s.b, rest)
    OBVIOUS
  <2>4. order[e.cmd].status \in Waiting
    BY <2>3 DEF BarOK, MemoryOK, WaitsOK
  <2>5. e.status \notin {"FILL", "CANCEL", "REJECT"}
    BY <2>2, <2>3, <2>4 DEF OutcomeInv, AppliedOK
  <2>6. e.status = "ACTIVE"
    BY <1>3, <2>5
  <2> QED
    BY <2>2, <2>3, <2>6 DEF OnRoad
<1> QED
  BY <1>4, <1>5, <1>6, <1>7

LEMMA TurnRoad ==
  ASSUME TypeInv, OutcomeInv, pc \in Simulating, NEW s, SimOK(s), NEW rest, NEW e, NEW n, NEW left,
         BarOK(s, rest), OnRoad(s.b, s.q, rest), Turns(s, rest, e, n, left)
  PROVE  Road(n, Append(s.q, e))
<1>1. batch = <<>> /\ done = 0 /\ pc # "confirm"
  BY BarStarts DEF TypeInv, BatchOK, Simulating
<1>2. s.b \in BrokerType /\ EventsOK(s.q) /\ s.b.known
  BY FieldsAre DEF Turns
<1>3. PICK p \in [0..Len(s.q) -> Books] : Leads(p, s.q, s.b)
  BY <1>2 DEF OnRoad, Road
<1>4. Applied(e) => e.status = "ACTIVE" /\ "stop" \in cut
  BY TurnIs
<1>5. Grows(e) => \A i \in 1..Len(s.q) : ~Reduces(s.q[i])
  BY DEF Turns, Room
<1>6. n \in BrokerType /\ EventOK(e) /\ Takes(e, Book(s.b)) /\ Book(n) = Turned(e, Book(s.b))
  BY DEF Turns
<1>7. \E x \in [0..Len(Append(s.q, e)) -> Books] : Leads(x, Append(s.q, e), n)
  BY <1>1, <1>2, <1>3, <1>4, <1>5, <1>6, LeadsAppend
<1> QED
  BY <1>7 DEF Road

LEMMA TurnHolds ==
  ASSUME TypeInv, OutcomeInv, RowsOK, NEW s, SimOK(s), NEW rest, NEW e, NEW n, NEW left,
         BarOK(s, rest), OnRoad(s.b, s.q, rest), Turns(s, rest, e, n, left)
  PROVE  HoldsOK(n, Append(s.q, e))
<1>1. /\ s.b \in BrokerType /\ s.b.qty \in Nat /\ s.b.stop \in Nat /\ n.qty \in Nat /\ n.known
      /\ (s.b.qty > 0 => s.b.stop > 0 /\ (trade.qty > 0 \/ \E c \in Of(Commands, {"OPEN"}) : s.b.answer[c] = "FILL"))
      /\ (trade.phase \in Finished => s.b.qty = 0)
  BY FieldsAre DEF OnRoad, HoldsOK, Turns, BrokerType
<1>2. /\ e.qty \in Nat /\ Basis(e.cmd) \in Nat \ {0} /\ (e.status = "FILL" <=> Grows(e) \/ Reduces(e))
      /\ e.status \in {"ACTIVE", "FILL", "CANCEL", "REJECT"} /\ (Grows(e) => e.cmd \in Commands)
      /\ (e.status = "ACTIVE" => e.cmd \in Commands /\ order[e.cmd].kind = "MOVESTOP")
  BY EventIs DEF Turns
<1>3. /\ Grows(e) => n.qty = s.b.qty + e.qty /\ n.stop = Larger(s.b.stop, Basis(e.cmd))
      /\ Reduces(e) => /\ n.qty = s.b.qty - e.qty /\ e.qty <= s.b.qty
                       /\ n.stop = IF e.qty = s.b.qty THEN 0 ELSE s.b.stop
      /\ e.status = "ACTIVE" => n.qty = s.b.qty /\ n.stop = order[e.cmd].level
      /\ e.status \in {"CANCEL", "REJECT"} => n.qty = s.b.qty /\ n.stop = s.b.stop
      /\ s.b.qty = 0 /\ ~Grows(e) => n.qty = 0
  BY TurnIs
<1>4. \A c \in Commands : s.b.answer[c] = "FILL" => n.answer[c] = "FILL"
  BY DEF Turns
<1>5. trade.phase \in Finished => n.qty = 0
  <2>1. trade.phase \in Finished => ~Grows(e)
    BY DEF Turns, Room, Past
  <2> QED
    BY <1>1, <1>3, <2>1
<1>6. ASSUME n.qty > 0
      PROVE  n.stop > 0 /\ (trade.qty > 0 \/ \E c \in Of(Commands, {"OPEN"}) : n.answer[c] = "FILL")
  <2>1. s.b.qty > 0 => trade.qty > 0 \/ \E c \in Of(Commands, {"OPEN"}) : n.answer[c] = "FILL"
    BY <1>1, <1>4 DEF Of
  <2>2. CASE Grows(e)
    <3>1. n.stop > 0
      <4>1. PICK m \in Nat : m = Basis(e.cmd) /\ m > 0
        <5>1. Basis(e.cmd) \in Nat \ {0}
          BY <1>2
        <5> QED
          BY <5>1
      <4>2. Larger(s.b.stop, m) >= m /\ Larger(s.b.stop, m) \in Nat
        BY <1>1, LargerIs
      <4> QED
        BY <1>3, <2>2, <4>1, <4>2
    <3>2. n.answer[e.cmd] = "FILL" /\ (order[e.cmd].kind = "OPEN" \/ s.b.qty > 0)
      BY <2>2 DEF Turns
    <3> QED
      BY <1>2, <2>1, <2>2, <3>1, <3>2 DEF Of
  <2>3. CASE Reduces(e)
    BY <1>1, <1>2, <1>3, <1>6, <2>1, <2>3
  <2>4. CASE e.status = "ACTIVE"
    <3>1. order[e.cmd].level > 0
      BY <1>2, <2>4 DEF RowsOK, Of
    <3> QED
      BY <1>3, <1>6, <2>1, <2>4, <3>1
  <2>5. CASE e.status \in {"CANCEL", "REJECT"}
    BY <1>1, <1>3, <1>6, <2>1, <2>5
  <2> QED
    BY <1>2, <2>2, <2>3, <2>4, <2>5
<1> QED
  BY <1>1, <1>5, <1>6 DEF HoldsOK

LEMMA TurnOwn ==
  ASSUME TypeInv, OutcomeInv, NEW s, SimOK(s), NEW rest, NEW e, NEW n, NEW left,
         BarOK(s, rest), OnRoad(s.b, s.q, rest), Turns(s, rest, e, n, left)
  PROVE  OwnOK(n, Append(s.q, e))
<1> DEFINE q == s.q
           p == Append(s.q, e)
           m == Len(s.q) + 1
<1>1. /\ EventsOK(q) /\ q \in Seq(EventType) /\ Len(q) \in Nat /\ EventOK(e) /\ e \in EventType
      /\ Len(p) = m /\ p[m] = e /\ \A i \in 1..Len(q) : p[i] = q[i]
  BY FieldsAre DEF Turns, EventsOK, EventOK
<1>2. \A i \in 1..m : i = m \/ i \in 1..Len(q)
  BY <1>1
<1>3. OwnOK(s.b, q)
  BY DEF OnRoad
<1>4. s.b.qty = 0 /\ ~Grows(e) => n.qty = 0
  BY TurnIs
<1>5. e.cmd \in Commands => e.cmd \in WaitsIn(s.b, rest)
  BY DEF Turns
<1>6. e.cmd \notin Commands => \A i \in 1..Len(q) : q[i].cmd # e.cmd
  BY DEF Turns
<1>7. Grows(e) => e.cmd \in Commands /\ Room(q) /\ (order[e.cmd].kind = "OPEN" \/ s.b.qty > 0)
  BY EventIs DEF Turns
<1> HIDE DEF p, m
<1>8. \A i \in 1..m : p[i].status \in {"FILL", "ACTIVE"} => p[i].bar = cursor + 1
  BY <1>1, <1>2, <1>3 DEF OwnOK, Turns
<1>9. \A i, j \in 1..m : p[i].cmd = p[j].cmd => i = j \/ p[i].cmd \in Commands
  BY <1>1, <1>2, <1>3, <1>6 DEF OwnOK
<1>10. ASSUME NEW i \in 1..m, p[i].cmd = StopHit PROVE n.qty = 0
  <2>1. CASE i = m
    BY <1>1, <1>10, <2>1 DEF Turns
  <2>2. CASE i \in 1..Len(q)
    <3>1. s.b.qty = 0 /\ q[i].cmd = StopHit /\ EventOK(q[i])
      BY <1>1, <1>3, <1>10, <2>2 DEF OwnOK, EventsOK
    <3>2. Reduces(q[i])
      BY <3>1, EventIs, OwnIds
    <3>3. ~Grows(e)
      BY <1>7, <2>2, <3>2 DEF Room
    <3> QED
      BY <1>4, <3>1, <3>3
  <2> QED
    BY <1>2, <2>1, <2>2
<1>11. ASSUME NEW i \in 1..m, p[i].status \in {"CANCEL", "REJECT"}, p[i].cmd \in Of(Commands, {"OPEN"})
       PROVE  n.qty = 0
  <2>1. CASE i = m
    <3>1. e.cmd \in Of(WaitsIn(s.b, rest), {"OPEN"}) /\ ~Grows(e)
      BY <1>1, <1>5, <1>11, <2>1 DEF Of, Grows
    <3>2. s.b.qty = 0
      BY <3>1 DEF OnRoad
    <3> QED
      BY <1>4, <3>1, <3>2
  <2>2. CASE i \in 1..Len(q)
    <3>1. /\ q[i].status \in {"CANCEL", "REJECT"} /\ q[i].cmd \in Of(Commands, {"OPEN"})
          /\ q[i].cmd \in Commands /\ order[q[i].cmd].kind = "OPEN"
      BY <1>1, <1>11, <2>2 DEF Of
    <3>2. s.b.qty = 0
      BY <1>3, <2>2, <3>1 DEF OwnOK
    <3>3. q[i].cmd \notin WaitsIn(s.b, rest)
      BY <2>2, <3>1 DEF BarOK, StreamOK
    <3>4. ~Grows(e)
      <4> SUFFICES ASSUME Grows(e) PROVE FALSE
        OBVIOUS
      <4>1. order[e.cmd].kind = "OPEN" /\ e.cmd \in Commands
        BY <1>7, <3>2
      <4>2. e.cmd = q[i].cmd
        BY <3>1, <4>1 DEF OutcomeInv, JournalOK
      <4> QED
        BY <1>5, <3>3, <4>1, <4>2
    <3> QED
      BY <1>4, <3>2, <3>4
  <2> QED
    BY <1>2, <2>1, <2>2
<1>12. n.opened <= cursor + 1
  BY DEF Turns
<1> QED
  BY <1>1, <1>8, <1>9, <1>10, <1>11, <1>12 DEF OwnOK, p

LEMMA TurnTargets ==
  ASSUME TypeInv, NEW s, SimOK(s), NEW rest, NEW e, NEW n, NEW left,
         OnRoad(s.b, s.q, rest), Turns(s, rest, e, n, left)
  PROVE  TargetsIn(Append(s.q, e))
<1> DEFINE q == s.q
           p == Append(s.q, e)
           m == Len(s.q) + 1
<1>1. /\ Len(q) \in Nat /\ Len(p) = m /\ p[m] = e /\ \A i \in 1..Len(q) : p[i] = q[i]
  BY FieldsAre DEF Turns, EventsOK, EventOK
<1>2. \A i \in 1..m : i = m \/ i \in 1..Len(q)
  BY <1>1
<1>3. TargetsIn(q)
  BY DEF OnRoad
<1> HIDE DEF p
<1>4. ASSUME Taken(cursor + 1), trade.phase \in Manageable, NEW i \in 1..m, Grows(p[i]), ~Applied(p[i])
      PROVE  p[i].price # bars[cursor + 1].open
  <2>1. CASE i = m
    BY <1>1, <1>4, <2>1 DEF Turns
  <2>2. CASE i \in 1..Len(q)
    <3>1. Grows(q[i]) /\ ~Applied(q[i]) /\ p[i] = q[i]
      BY <1>1, <1>4, <2>2
    <3> QED
      BY <1>3, <1>4, <2>2, <3>1 DEF TargetsIn
  <2> QED
    BY <1>2, <2>1, <2>2
<1>5. ASSUME NEW i \in 1..m, p[i].cmd = TargetHit, NEW c \in Of(Accepted, Increases)
      PROVE  Blocked(c, order[c].since, cursor + 1) \/ \E j \in 1..i - 1 : p[j].cmd = c
  <2>1. CASE i = m
    <3>1. Blocked(c, order[c].since, cursor + 1) \/ c \in Told(q)
      BY <1>1, <1>5, <2>1 DEF Turns
    <3>2. 1..i - 1 = 1..Len(q)
      BY <1>1, <2>1
    <3>3. c \in Told(q) => \E j \in 1..Len(q) : p[j].cmd = c
      BY <1>1 DEF Told
    <3> QED
      BY <3>1, <3>2, <3>3
  <2>2. CASE i \in 1..Len(q)
    <3>1. q[i].cmd = TargetHit /\ \A j \in 1..i - 1 : j \in 1..Len(q) /\ p[j] = q[j]
      BY <1>1, <1>5, <2>2
    <3>2. Blocked(c, order[c].since, cursor + 1) \/ \E j \in 1..i - 1 : q[j].cmd = c
      BY <1>3, <2>2, <3>1 DEF TargetsIn
    <3> QED
      BY <3>1, <3>2
  <2> QED
    BY <1>2, <2>1, <2>2
<1> QED
  BY <1>1, <1>4, <1>5 DEF TargetsIn, p

\* A turn stays on the road.
LEMMA TurnsOn ==
  ASSUME TypeInv, OutcomeInv, RowsOK, pc \in Simulating, NEW s, SimOK(s), NEW rest \in SUBSET Commands,
         NEW e, NEW n, NEW left,
         BarOK(s, rest), OnRoad(s.b, s.q, rest), Turns(s, rest, e, n, left)
  PROVE  OnRoad(n, Append(s.q, e), left)
<1>1. /\ Road(n, Append(s.q, e)) /\ HoldsOK(n, Append(s.q, e)) /\ OwnOK(n, Append(s.q, e))
      /\ TargetsIn(Append(s.q, e))
  BY TurnRoad, TurnHolds, TurnOwn, TurnTargets
<1>2. WaitsIn(n, left) \subseteq WaitsIn(s.b, rest) /\ WaitsIn(s.b, rest) \subseteq Commands
  BY FieldsAre DEF WaitsIn, BrokerType, Turns
<1>3. ASSUME NEW c \in Of(WaitsIn(n, left), {"OPEN"}) PROVE n.qty = 0
  <2>1. c \in WaitsIn(s.b, rest) /\ order[c].kind = "OPEN" /\ s.b.qty = 0 /\ c \in WaitsIn(n, left)
    BY <1>2, <1>3 DEF OnRoad, Of
  <2>2. ~Grows(e)
    <3> SUFFICES ASSUME Grows(e) PROVE FALSE
      OBVIOUS
    <3>1. order[e.cmd].kind = "OPEN" /\ e.cmd \in Commands
      BY <2>1, EventIs DEF Turns
    <3>2. e.cmd = c
      BY <1>2, <2>1, <3>1 DEF OutcomeInv, JournalOK
    <3> QED
      BY <2>1, <3>1, <3>2 DEF Turns
  <2> QED
    BY <2>1, <2>2, TurnIs
<1>4. \A x \in applied : x[1] \in WaitsIn(n, left) /\ x[2] = "ACTIVE" => "stop" \in cut
  BY <1>2 DEF OnRoad
<1>5. n.known = broker.known /\ n.since = broker.since /\ WaitsIn(n, left) \subseteq WaitsIn(broker, due)
  BY <1>2 DEF OnRoad, Turns
<1> QED
  BY <1>1, <1>3, <1>4, <1>5 DEF OnRoad

-----------------------------------------------------------------------------
(* The broker's own closes.                                                *)

\* The same book with fewer commands waiting.
LEMMA AlikeOn ==
  ASSUME NEW b \in BrokerType, NEW q, NEW rest, NEW n \in BrokerType, NEW left, OnRoad(b, q, rest), Book(n) = Book(b),
         n.known = b.known, n.since = b.since,
         n.opened <= cursor + 1, WaitsIn(n, left) \subseteq WaitsIn(b, rest),
         \A c \in Commands : b.answer[c] = "FILL" => n.answer[c] = "FILL"
  PROVE  OnRoad(n, q, left)
<1>1. /\ n.qty = b.qty /\ n.entered = b.entered /\ n.taken = b.taken /\ n.stop = b.stop /\ n.rev = b.rev
  BY BookIs
<1>2. Road(n, q)
  <2>1. \A p : Leads(p, q, b) => Leads(p, q, n)
    BY <1>1 DEF Leads, Alike
  <2> QED
    BY <2>1 DEF OnRoad, Road
<1>3. HoldsOK(n, q)
  BY <1>1 DEF OnRoad, HoldsOK, Zero, Of
<1>4. OwnOK(n, q)
  BY <1>1 DEF OnRoad, OwnOK
<1> QED
  BY <1>1, <1>2, <1>3, <1>4 DEF OnRoad, Of

\* The increases are cancelled.
LEMMA CancelledOn ==
  ASSUME TypeInv, OutcomeInv, RowsOK, pc \in Simulating, NEW s, SimOK(s), NEW rest \in SUBSET Commands,
         BarOK(s, rest), OnRoad(s.b, s.q, rest), NEW t, t = cursor + 1,
         \A c \in rest : order[c].kind \in Kinds
  PROVE  LET n == Cancelled(s, rest, t) IN OnRoad(n.b, n.q, rest)
<1> DEFINE n == Cancelled(s, rest, t)
<1>0. t \in Nat
  BY SimulationStarts
<1>1. SimOK(n)
  BY <1>0, CancelledOK
<1>2. /\ SameHolding(s.b, n.b) /\ n.b.sched \subseteq s.b.sched
      /\ \/ n.q = s.q /\ n.b.answer = s.b.answer
         \/ \E x \in Of(WaitsIn(s.b, rest), Increases) :
              /\ n.q = Append(s.q, Event(x, "CANCEL", 0, t, 0)) /\ n.b.answer[x] = "CANCEL"
              /\ \A c \in Commands : c # x => n.b.answer[c] = s.b.answer[c]
  BY <1>0, CancelledBook
<1> HIDE DEF n
<1>3. s.b \in BrokerType /\ n.b \in BrokerType /\ s.b.sched \subseteq Commands
  BY <1>1, FieldsAre DEF BrokerType
<1>4. Book(n.b) = Book(s.b) /\ n.b.known = s.b.known /\ n.b.since = s.b.since /\ n.b.opened <= cursor + 1
  BY <1>2 DEF Book, SameHolding, OnRoad, OwnOK
<1>5. CASE n.q = s.q /\ n.b.answer = s.b.answer
  <2>1. WaitsIn(n.b, rest) \subseteq WaitsIn(s.b, rest)
    BY <1>2, <1>5 DEF WaitsIn
  <2>2. OnRoad(n.b, s.q, rest)
    BY <1>3, <1>4, <1>5, <2>1, AlikeOn
  <2> QED
    BY <1>5, <2>2 DEF n
<1>6. ASSUME NEW x \in Of(WaitsIn(s.b, rest), Increases),
             n.q = Append(s.q, Event(x, "CANCEL", 0, t, 0)), n.b.answer[x] = "CANCEL",
             \A c \in Commands : c # x => n.b.answer[c] = s.b.answer[c]
      PROVE  OnRoad(n.b, n.q, rest)
  <2> DEFINE e == Event(x, "CANCEL", 0, t, 0)
  <2>1. x \in Commands /\ x \in WaitsIn(s.b, rest) /\ order[x].kind \in Increases /\ s.b.answer[x] = "ACK"
    BY <1>3 DEF Of, WaitsIn
  <2>2. EventOK(e) /\ e.cmd = x /\ e.status = "CANCEL"
    BY <1>0, <2>1 DEF EventOK, Event, EventType, Kinds
  <2>3. n.q = Append(s.q, e)
    BY <1>6
  <2> HIDE DEF e
  <2>4. WaitsIn(n.b, rest) \subseteq WaitsIn(s.b, rest) /\ x \notin WaitsIn(n.b, rest)
    <3>1. \A c \in WaitsIn(n.b, rest) : c \in Commands /\ c # x /\ c \in s.b.sched \cup rest
      BY <1>2, <1>3, <1>6 DEF WaitsIn
    <3> QED
      BY <1>6, <3>1 DEF WaitsIn
  <2>5. Takes(e, Book(s.b)) /\ Book(s.b) \in Books
    BY <1>3, <2>2, BookIs DEF Takes, Reduces
  <2>6. Turned(e, Book(s.b)) = Book(s.b)
    BY <2>2, <2>5, TurnedIs
  <2>7. s.b.known
    BY <2>1 DEF BarOK, MemoryOK, WaitsOK, WaitsIn
  <2>8. /\ ~Grows(e) /\ e.cmd \in Commands /\ e.cmd # StopHit /\ e.cmd # TargetHit
        /\ e.status \notin {"FILL", "ACTIVE"}
    BY <2>1, <2>2, OwnIds DEF Grows
  <2>9. \A c \in Commands : s.b.answer[c] = "FILL" => n.b.answer[c] = "FILL"
    BY <1>6, <2>1
  <2>10. Turns(s, rest, e, n.b, rest)
    BY <1>3, <1>4, <2>1, <2>2, <2>4, <2>5, <2>6, <2>7, <2>8, <2>9 DEF Turns
  <2>11. OnRoad(n.b, Append(s.q, e), rest)
    BY <2>10, TurnsOn
  <2> QED
    BY <2>3, <2>11
<1>7. OnRoad(n.b, n.q, rest)
  BY <1>2, <1>5, <1>6 DEF n
<1> QED
  BY <1>7 DEF n

\* The broker's own close is an event, and leaves a broker whose increases are cancelled.
LEMMA OwnCloseOn ==
  ASSUME TypeInv, OutcomeInv, RowsOK, pc \in Simulating, NEW s, SimOK(s), NEW rest \in SUBSET Commands,
         BarOK(s, rest), OnRoad(s.b, s.q, rest), NEW t, t = cursor + 1,
         \A c \in rest : order[c].kind \in Kinds,
         NEW own \in {StopHit, TargetHit}, NEW k \in Nat, k > 0, NEW e, e = Event(own, "FILL", k, t, 0),
         NEW b \in BrokerType, b.sched = s.b.sched, b.answer = s.b.answer, b.known = s.b.known,
         b.rev = 0 => b.qty = 0, Turns(s, rest, e, b, rest)
  PROVE  LET n == Cancelled([b |-> b, q |-> Append(s.q, e)], rest, t) IN
         OnRoad(n.b, n.q, rest) /\ SameHolding(b, n.b)
<1> DEFINE m == [b |-> b, q |-> Append(s.q, e)]
<1>1. EventOK(e) /\ EventsOK(s.q) /\ e.cmd \notin Commands /\ e.cmd = own /\ e.qty > 0 /\ t \in Nat
  BY OwnEventOK, OwnIds, FieldsAre, SimulationStarts DEF Event
<1>2. Fits(e, s.q)
  BY <1>1, OwnIds DEF Fits, Grows, Kind, Increases
<1>3. EventsOK(Append(s.q, e))
  BY <1>1, AppendOK
<1>4. SimOK(m) /\ m.b = b /\ m.q = Append(s.q, e)
  BY <1>3, PositionOK
<1>5. /\ MemoryOK(b, rest) /\ WaitsIn(b, rest) = WaitsIn(s.b, rest)
      /\ StreamOK(s.q, WaitsIn(b, rest), b.answer)
  BY PositionKeeps
<1>6. StreamOK(m.q, WaitsIn(b, rest), b.answer)
  BY <1>1, <1>2, <1>4, <1>5, StreamGrows
<1>7. BarOK(m, rest)
  BY <1>4, <1>5, <1>6 DEF BarOK
<1>8. OnRoad(m.b, m.q, rest)
  BY <1>4, TurnsOn
<1> HIDE DEF m
<1>9. LET n == Cancelled(m, rest, t) IN OnRoad(n.b, n.q, rest) /\ SameHolding(m.b, n.b)
  BY <1>1, <1>4, <1>7, <1>8, CancelledOn, CancelledBook
<1> QED
  BY <1>4, <1>9 DEF m

\* A triggered stop leaves nothing.
LEMMA StopOutOn ==
  ASSUME TypeInv, OutcomeInv, RowsOK, pc \in Simulating, NEW s, SimOK(s), NEW rest \in SUBSET Commands,
         BarOK(s, rest), OnRoad(s.b, s.q, rest), NEW t, t = cursor + 1, NEW low,
         \A c \in rest : order[c].kind \in Kinds
  PROVE  LET n == StopOut(s, rest, t, low) IN
         OnRoad(n.b, n.q, rest) /\ IF Triggered(s.b, low) THEN n.b.qty = 0 ELSE n = s
<1> DEFINE b == [s.b EXCEPT !.qty = 0, !.stop = 0, !.rev = @ + 1]
           k == s.b.qty
           e == Event(StopHit, "FILL", k, t, 0)
<1>1. s.b.rev \in Nat /\ k \in Nat /\ s.b \in BrokerType /\ t \in Nat /\ s.b.rev + 1 \in Nat
  BY FieldsAre, SimulationStarts
<1>2. CASE ~Triggered(s.b, low)
  BY <1>2 DEF StopOut
<1>3. CASE Triggered(s.b, low)
  <2>1. k > 0
    BY <1>3 DEF Triggered
  <2>2. StopOut(s, rest, t, low) = Cancelled([b |-> b, q |-> Append(s.q, e)], rest, t)
    BY <1>3 DEF StopOut
  <2>3. /\ b \in BrokerType /\ b.sched = s.b.sched /\ b.answer = s.b.answer /\ b.known = s.b.known
        /\ b.qty = 0 /\ b.stop = 0 /\ b.rev = s.b.rev + 1 /\ b.entered = s.b.entered /\ b.taken = s.b.taken
        /\ b.since = s.b.since
        /\ b.opened = s.b.opened
    BY <1>1, FieldsAre DEF BrokerType
  <2> HIDE DEF b
  <2>4. /\ EventOK(e) /\ e.cmd = StopHit /\ e.status = "FILL" /\ e.qty = k /\ e.bar = t
        /\ e.cmd # TargetHit /\ e.cmd \notin Commands /\ Kind(e.cmd) = "STOP"
    BY <1>1, OwnEventOK, OwnIds DEF Event, Kind, StopHit, TargetHit
  <2> HIDE DEF e
  <2>5. Reduces(e) /\ ~Grows(e)
    BY <2>4 DEF Reduces, Grows, Increases
  <2>6. s.b.known
    BY <2>1 DEF OnRoad, HoldsOK, Zero
  <2>7. ~Applied(e)
    <3>1. \A x \in applied : x[1] # StopHit
      BY <1>1, <2>1 DEF RowsOK, OnRoad, HoldsOK
    <3> QED
      BY <2>4, <3>1 DEF Applied, ExecutionId
  <2>8. \A i \in 1..Len(s.q) : s.q[i].cmd # e.cmd
    BY <2>1, <2>4 DEF OnRoad, OwnOK
  <2>9. Takes(e, Book(s.b)) /\ Book(s.b) \in Books /\ Book(s.b).qty = k /\ Book(s.b).stop = s.b.stop
        /\ Book(s.b).rev = s.b.rev /\ Book(s.b).entered = s.b.entered /\ Book(s.b).taken = s.b.taken
    BY <1>1, <2>4, BookIs DEF Takes
  <2>10. Book(b) = Turned(e, Book(s.b))
    <3>1. PICK n : n = Turned(e, Book(s.b))
      OBVIOUS
    <3>2. /\ n \in Books /\ n.qty = 0 /\ n.entered = s.b.entered /\ n.taken = s.b.taken
          /\ n.stop = 0 /\ n.rev = s.b.rev + 1
      BY <1>1, <2>4, <2>5, <2>9, <3>1, TurnedIs
    <3>3. n = [qty |-> n.qty, entered |-> n.entered, taken |-> n.taken, stop |-> n.stop, rev |-> n.rev]
      BY <3>2 DEF Books
    <3> QED
      BY <2>3, <3>1, <3>2, <3>3 DEF Book
  <2>11. WaitsIn(b, rest) = WaitsIn(s.b, rest) /\ b.opened <= cursor + 1
    BY <2>3 DEF WaitsIn, OnRoad, OwnOK
  <2>12. Turns(s, rest, e, b, rest)
    BY <2>3, <2>4, <2>5, <2>6, <2>7, <2>8, <2>9, <2>10, <2>11 DEF Turns
  <2>13. b.rev = 0 => b.qty = 0
    BY <2>3
  <2>14. LET n == Cancelled([b |-> b, q |-> Append(s.q, e)], rest, t) IN
         OnRoad(n.b, n.q, rest) /\ SameHolding(b, n.b)
    BY <1>1, <2>1, <2>3, <2>12, <2>13, OwnCloseOn DEF e
  <2> QED
    BY <1>3, <2>2, <2>3, <2>14 DEF SameHolding
<1> QED
  BY <1>2, <1>3

\* Nothing stands against a target in this bar.
MayTake(q) ==
  /\ ~Taken(cursor + 1) /\ \A i \in 1..Len(q) : q[i].cmd # TargetHit
  /\ \A c \in Of(Accepted, Increases) : Blocked(c, order[c].since, cursor + 1) \/ c \in Told(q)

LEMMA TakeTargetOn ==
  ASSUME TypeInv, OutcomeInv, RowsOK, pc \in Simulating, NEW s, SimOK(s), NEW rest \in SUBSET Commands,
         BarOK(s, rest), OnRoad(s.b, s.q, rest), NEW t, t = cursor + 1, NEW high,
         \A c \in rest : order[c].kind \in Kinds,
         s.b.qty > 0 /\ s.b.taken < Share(s.b.entered) => MayTake(s.q)
  PROVE  LET n == TakeTarget(s, rest, t, high) IN OnRoad(n.b, n.q, rest)
<1> DEFINE left == Share(s.b.entered) - s.b.taken
           k == IF left < s.b.qty THEN left ELSE s.b.qty
           stop == IF k = s.b.qty THEN 0 ELSE s.b.stop
           b == [s.b EXCEPT !.qty = @ - k, !.taken = @ + k, !.rev = @ + 1, !.stop = IF k = s.b.qty THEN 0 ELSE @]
           e == Event(TargetHit, "FILL", k, t, 0)
<1>1. /\ s.b.rev \in Nat /\ s.b.qty \in Nat /\ s.b.taken \in Nat /\ s.b.stop \in Nat /\ s.b.entered \in Nat
      /\ s.b \in BrokerType /\ left \in Int /\ s.b.rev + 1 \in Nat /\ s.b.rev + 1 # 0 /\ t \in Nat
      /\ Share(s.b.entered) \in Nat
  BY FieldsAre, SharesAre, SimulationStarts
<1>2. TakeTarget(s, rest, t, high) =
        IF s.b.qty = 0 \/ high < TargetPrice \/ left <= 0 THEN s
        ELSE Cancelled([b |-> b, q |-> Append(s.q, e)], rest, t)
  BY DEF TakeTarget
<1>3. CASE s.b.qty = 0 \/ high < TargetPrice \/ left <= 0
  BY <1>2, <1>3
<1>4. CASE ~(s.b.qty = 0 \/ high < TargetPrice \/ left <= 0)
  <2>1. /\ k \in Nat /\ k > 0 /\ s.b.qty - k \in Nat /\ s.b.taken + k \in Nat /\ k <= s.b.qty
        /\ s.b.taken + k <= Share(s.b.entered)
        /\ (s.b.taken + k = Share(s.b.entered) \/ k = s.b.qty)
    BY <1>1, <1>4
  <2>2. MayTake(s.q) /\ s.b.qty > 0
    BY <1>1, <1>4
  <2> HIDE DEF k
  <2>3. stop \in Nat /\ b = [s.b EXCEPT !.qty = s.b.qty - k, !.taken = s.b.taken + k, !.rev = s.b.rev + 1, !.stop = stop]
    BY <1>1
  <2> HIDE DEF stop, b
  <2>4. /\ b \in BrokerType /\ b.sched = s.b.sched /\ b.answer = s.b.answer /\ b.known = s.b.known
        /\ b.rev = s.b.rev + 1 /\ b.qty = s.b.qty - k /\ b.taken = s.b.taken + k /\ b.stop = stop
        /\ b.entered = s.b.entered /\ b.opened = s.b.opened /\ b.since = s.b.since
    BY <1>1, <2>1, <2>3 DEF BrokerType
  <2>5. /\ EventOK(e) /\ e.cmd = TargetHit /\ e.status = "FILL" /\ e.qty = k /\ e.bar = t
        /\ e.cmd # StopHit /\ e.cmd \notin Commands /\ Kind(e.cmd) = "TARGET"
    BY <1>1, <2>1, OwnEventOK, OwnIds DEF Event, Kind, StopHit, TargetHit
  <2> HIDE DEF e
  <2>6. Reduces(e) /\ ~Grows(e)
    BY <2>5 DEF Reduces, Grows, Increases
  <2>7. s.b.known
    BY <1>1, <2>2 DEF OnRoad, HoldsOK, Zero
  <2>8. ~Applied(e)
    <3>1. ExecutionId(e) = <<TargetHit, "FILL", cursor + 1>>
      BY <2>5 DEF ExecutionId
    <3> QED
      BY <2>2, <3>1 DEF MayTake, Taken, Applied
  <2>9. \A i \in 1..Len(s.q) : s.q[i].cmd # e.cmd
    BY <2>2, <2>5 DEF MayTake
  <2>10. /\ Book(s.b) \in Books /\ Book(s.b).qty = s.b.qty /\ Book(s.b).stop = s.b.stop
         /\ Book(s.b).rev = s.b.rev /\ Book(s.b).entered = s.b.entered /\ Book(s.b).taken = s.b.taken
    BY <1>1, BookIs
  <2>11. Takes(e, Book(s.b))
    BY <2>1, <2>5, <2>10 DEF Takes
  <2>12. Book(b) = Turned(e, Book(s.b))
    <3>1. PICK n : n = Turned(e, Book(s.b))
      OBVIOUS
    <3>2. /\ n \in Books /\ n.qty = s.b.qty - k /\ n.entered = s.b.entered /\ n.taken = s.b.taken + k
          /\ n.stop = (IF k = s.b.qty THEN 0 ELSE s.b.stop) /\ n.rev = s.b.rev + 1
      BY <2>5, <2>6, <2>10, <2>11, <3>1, TurnedIs
    <3>3. n = [qty |-> n.qty, entered |-> n.entered, taken |-> n.taken, stop |-> n.stop, rev |-> n.rev]
      BY <3>2 DEF Books
    <3> QED
      BY <2>4, <3>1, <3>2, <3>3 DEF Book, stop
  <2>13. WaitsIn(b, rest) = WaitsIn(s.b, rest) /\ b.opened <= cursor + 1
    BY <2>4 DEF WaitsIn, OnRoad, OwnOK
  <2>14. \A c \in Of(Accepted, Increases) : Blocked(c, order[c].since, cursor + 1) \/ c \in Told(s.q)
    BY <2>2 DEF MayTake
  <2>15. Turns(s, rest, e, b, rest)
    BY <2>4, <2>5, <2>6, <2>7, <2>8, <2>9, <2>11, <2>12, <2>13, <2>14 DEF Turns
  <2>16. b.rev = 0 => b.qty = 0
    BY <1>1, <2>4
  <2>17. LET n == Cancelled([b |-> b, q |-> Append(s.q, e)], rest, t) IN OnRoad(n.b, n.q, rest)
    BY <2>1, <2>4, <2>15, <2>16, OwnCloseOn DEF e
  <2> QED
    BY <1>2, <1>4, <2>17
<1> QED
  BY <1>3, <1>4

LEMMA ProtectedOn ==
  ASSUME TypeInv, OutcomeInv, RowsOK, pc \in Simulating, NEW s, SimOK(s), NEW rest \in SUBSET Commands,
         OneOpenIncrease, BarOK(s, rest), RoomOK(s.b, s.q, rest), OnRoad(s.b, s.q, rest),
         NEW t, t = cursor + 1, NEW bar,
         \A c \in rest : order[c].kind \in Kinds,
         s.b.qty > 0 /\ s.b.taken < Share(s.b.entered) /\ (s.b.opened # t \/ s.b.paid = bar.open) => MayTake(s.q)
  PROVE  LET n == Protected(s, rest, t, bar) IN OnRoad(n.b, n.q, rest)
<1> DEFINE open == s.b.qty > 0 /\ s.b.opened = t /\ s.b.paid # 0 /\ s.b.paid = bar.open
           b == IF open THEN [s.b EXCEPT !.opened = 0, !.paid = 0] ELSE s.b
           m == [s EXCEPT !.b = b]
           stopped == StopOut(m, rest, t, bar.low)
<1>0. t \in Nat /\ t > 0
  BY SimulationStarts DEF TypeInv
<1>1. /\ b \in BrokerType /\ b.sched = s.b.sched /\ b.answer = s.b.answer /\ b.known = s.b.known
      /\ b.rev = s.b.rev /\ b.qty = s.b.qty /\ b.entered = s.b.entered /\ b.taken = s.b.taken /\ b.stop = s.b.stop
      /\ b.since = s.b.since
      /\ (b.opened = s.b.opened \/ (b.opened = 0 /\ open))
  BY FieldsAre DEF BrokerType
<1>2. Protected(s, rest, t, bar) = IF b.opened = t THEN stopped ELSE TakeTarget(stopped, rest, t, bar.high)
  BY DEF Protected
<1>3. b.opened # t => s.b.opened # t \/ s.b.paid = bar.open
  BY <1>1
<1> HIDE DEF b
<1>4. m = [b |-> b, q |-> s.q]
  BY FieldsAre
<1> HIDE DEF m
<1>5. SimOK(m) /\ m.b = b /\ m.q = s.q
  BY <1>1, <1>4, FieldsAre, PositionOK
<1>6. b.rev = 0 => b.qty = 0
  BY <1>1 DEF BarOK, MemoryOK, WaitsOK
<1>7. /\ MemoryOK(b, rest) /\ WaitsIn(b, rest) = WaitsIn(s.b, rest)
      /\ StreamOK(s.q, WaitsIn(b, rest), b.answer)
  BY <1>1, <1>6, PositionKeeps
<1>8. BarOK(m, rest) /\ RoomOK(m.b, m.q, rest)
  BY <1>1, <1>5, <1>7 DEF BarOK, RoomOK
<1>9. OnRoad(m.b, m.q, rest)
  <2>1. Book(b) = Book(s.b)
    BY <1>1 DEF Book
  <2>2. b.opened <= cursor + 1
    BY <1>0, <1>1 DEF OnRoad, OwnOK
  <2>3. OnRoad(b, s.q, rest)
    BY <1>1, <1>7, <2>1, <2>2, AlikeOn, FieldsAre
  <2> QED
    BY <1>5, <2>3
<1>10. /\ OnRoad(stopped.b, stopped.q, rest)
       /\ IF Triggered(m.b, bar.low) THEN stopped.b.qty = 0 ELSE stopped = m
  BY <1>0, <1>5, <1>8, <1>9, StopOutOn
<1> HIDE DEF stopped
<1>11. CASE b.opened = t
  BY <1>2, <1>10, <1>11
<1>12. CASE b.opened # t
  <2>1. CASE Triggered(b, bar.low)
    <3>1. stopped.b.qty = 0
      BY <1>5, <1>10, <2>1
    <3>2. TakeTarget(stopped, rest, t, bar.high) = stopped
      BY <3>1 DEF TakeTarget
    <3> QED
      BY <1>2, <1>10, <1>12, <3>2
  <2>2. CASE ~Triggered(b, bar.low)
    <3>1. stopped = m
      BY <1>5, <1>10, <2>2
    <3>2. m.b.qty > 0 /\ m.b.taken < Share(m.b.entered) => MayTake(m.q)
      BY <1>1, <1>3, <1>5, <1>12
    <3>3. LET n == TakeTarget(m, rest, t, bar.high) IN OnRoad(n.b, n.q, rest)
      BY <1>5, <1>8, <1>9, <3>2, TakeTargetOn
    <3> QED
      BY <1>2, <1>12, <3>1, <3>3
  <2> QED
    BY <2>1, <2>2
<1> QED
  BY <1>11, <1>12

-----------------------------------------------------------------------------
(* A due command is executed or refused.                                   *)

\* What an answer may tell: nothing, or what has become of the book.
Tellable(s, e, b) ==
  /\ EventOK(e) /\ Takes(e, Book(s.b)) /\ Book(b) = Turned(e, Book(s.b)) /\ b.opened <= cursor + 1
  /\ e.status \in {"FILL", "ACTIVE"} => e.bar = cursor + 1
  /\ Grows(e) => Room(s.q) /\ (order[e.cmd].kind = "OPEN" \/ s.b.qty > 0)
  /\ Taken(cursor + 1) /\ trade.phase \in Manageable /\ Grows(e) => e.price # bars[cursor + 1].open

LEMMA AnsweredOn ==
  ASSUME TypeInv, OutcomeInv, RowsOK, pc \in Simulating, NEW s, SimOK(s), NEW rest \in SUBSET Commands,
         BarOK(s, rest), OnRoad(s.b, s.q, rest), NEW c \in rest, s.b.answer[c] = "ACK",
         NEW b \in BrokerType, b.sched = s.b.sched, b.answer = s.b.answer, b.known = s.b.known, b.since = s.b.since,
         NEW e, e.cmd = c, Tellable(s, e, b)
  PROVE  LET n == Answered([b |-> b, q |-> s.q], e) IN OnRoad(n.b, n.q, rest \ {c})
<1> DEFINE m == [b |-> b, q |-> s.q]
           n == Answered(m, e)
           left == rest \ {c}
<1>1. EventOK(e) /\ c \in Commands /\ EventsOK(s.q) /\ s.b \in BrokerType
  BY FieldsAre DEF Tellable
<1>2. SimOK(m) /\ m.b = b /\ m.q = s.q
  BY <1>1, PositionOK
<1> HIDE DEF m
<1>3. /\ n.b \in BrokerType /\ n.q = Append(s.q, e) /\ n.b.sched = s.b.sched
      /\ n.b.answer[c] = (IF e.status = "ACTIVE" THEN "ACK" ELSE e.status)
      /\ \A x \in Commands : x # c => n.b.answer[x] = s.b.answer[x]
      /\ SameHolding(b, n.b)
  BY <1>1, <1>2, AnsweredIs, AnsweredBook
<1> HIDE DEF n
<1>4. s.b.sched \cap rest = {} /\ s.b.known /\ s.b.sched \subseteq Commands
  BY <1>1 DEF BarOK, MemoryOK, WaitsOK, BrokerType
<1>5. WaitsIn(n.b, left) \subseteq WaitsIn(s.b, rest) /\ c \in WaitsIn(s.b, rest) \ WaitsIn(n.b, left)
  <2>1. \A x \in WaitsIn(n.b, left) : x \in s.b.sched \cup left /\ n.b.answer[x] = "ACK"
    BY <1>3 DEF WaitsIn
  <2>2. \A x \in WaitsIn(n.b, left) : x # c /\ x \in Commands /\ x \in s.b.sched \cup rest
    BY <1>4, <2>1
  <2>3. \A x \in WaitsIn(n.b, left) : s.b.answer[x] = "ACK"
    BY <1>3, <2>1, <2>2
  <2> QED
    BY <2>2, <2>3 DEF WaitsIn
<1>6. \A x \in Commands : s.b.answer[x] = "FILL" => n.b.answer[x] = "FILL"
  BY <1>3
<1>7. Grows(e) => n.b.answer[c] = "FILL"
  BY <1>3 DEF Grows
<1>8. Book(n.b) = Book(b) /\ n.b.known /\ n.b.since = s.b.since /\ n.b.opened = b.opened
  BY <1>3, <1>4 DEF SameHolding, Book
<1>9. e.cmd \in Commands /\ e.cmd # StopHit /\ e.cmd # TargetHit
  BY <1>1, OwnIds
<1>10. Turns(s, rest, e, n.b, left)
  BY <1>1, <1>3, <1>4, <1>5, <1>6, <1>7, <1>8, <1>9 DEF Turns, Tellable
<1>11. OnRoad(n.b, Append(s.q, e), left)
  BY <1>10, TurnsOn
<1> QED
  BY <1>3, <1>11 DEF n, m

\* A command is refused, or cancelled: nothing comes of it.
LEMMA RefusedOn ==
  ASSUME TypeInv, OutcomeInv, RowsOK, pc \in Simulating, NEW s, SimOK(s), NEW rest \in SUBSET Commands,
         BarOK(s, rest), OnRoad(s.b, s.q, rest), NEW c \in rest, s.b.answer[c] = "ACK",
         order[c].kind \in Kinds, NEW t \in Nat, NEW e,
         e = Event(c, "REJECT", 0, t, 0) \/ e = Event(c, "CANCEL", 0, t, 0)
  PROVE  LET n == Answered(s, e) IN OnRoad(n.b, n.q, rest \ {c})
<1>1. s.b \in BrokerType /\ s = [b |-> s.b, q |-> s.q] /\ c \in Commands
  BY FieldsAre
<1>2. EventOK(e) /\ e.cmd = c /\ e.status \in {"REJECT", "CANCEL"}
  BY <1>1 DEF EventOK, Event, EventType, Kinds
<1>3. Takes(e, Book(s.b)) /\ ~Grows(e) /\ Book(s.b) \in Books
  BY <1>1, <1>2, BookIs DEF Takes, Reduces, Grows
<1>4. Turned(e, Book(s.b)) = Book(s.b)
  BY <1>2, <1>3, TurnedIs
<1>5. Tellable(s, e, s.b)
  BY <1>2, <1>3, <1>4 DEF Tellable, OnRoad, OwnOK
<1>6. LET n == Answered([b |-> s.b, q |-> s.q], e) IN OnRoad(n.b, n.q, rest \ {c})
  BY <1>1, <1>2, <1>5, AnsweredOn
<1> QED
  BY <1>1, <1>6

LEMMA IncreasedOn ==
  ASSUME TypeInv, OutcomeInv, RowsOK, pc \in Simulating, NEW s, SimOK(s), NEW rest \in SUBSET Commands,
         BarOK(s, rest), RoomOK(s.b, s.q, rest), OnRoad(s.b, s.q, rest),
         NEW c \in rest, s.b.answer[c] = "ACK", order[c].kind \in Increases,
         order[c].size \in Nat, NEW t, t = cursor + 1, NEW price \in Nat, NEW opened \in Nat, opened <= t,
         Taken(t) /\ trade.phase \in Manageable => price # bars[t].open
  PROVE  LET n == Increased(s, c, t, price, opened) IN OnRoad(n.b, n.q, rest \ {c})
<1> DEFINE basis == IF order[c].kind = "OPEN" THEN EntryStop ELSE AddStop
           stop == Larger(s.b.stop, basis)
           size == order[c].size
           b == [s.b EXCEPT !.qty = @ + size, !.entered = @ + size,
                            !.stop = stop, !.rev = @ + 1, !.opened = opened]
           no == Event(c, "REJECT", 0, t, 0)
           e == Event(c, "FILL", size, t, price)
<1>0. /\ c \in Commands /\ t \in Nat /\ s.b \in BrokerType /\ s.b.qty \in Nat /\ s.b.entered \in Nat
      /\ s.b.rev \in Nat /\ order[c].kind \in Kinds
  BY FieldsAre, SimulationStarts DEF Kinds
<1>1. stop \in Nat /\ s.b.qty + size \in Nat /\ s.b.entered + size \in Nat /\ s.b.rev + 1 \in Nat
  BY <1>0, FieldsAre, PricesAssumption DEF Larger
<1>2. EventOK(e) /\ e.cmd = c /\ e.status = "FILL" /\ e.qty = size /\ e.bar = t /\ e.price = price
  BY <1>0 DEF EventOK, Event, EventType, Kinds
<1>3. Increased(s, c, t, price, opened) =
        IF order[c].kind = "ADD" /\ s.b.qty = 0 THEN Answered(s, no) ELSE Answered([b |-> b, q |-> s.q], e)
  BY DEF Increased
<1>4. basis = Basis(e.cmd) /\ Kind(e.cmd) = order[c].kind
  BY <1>0, <1>2, OwnIds DEF Basis, Kind
<1> HIDE DEF stop, size, no, e
<1>5. /\ b \in BrokerType /\ b.sched = s.b.sched /\ b.answer = s.b.answer /\ b.known = s.b.known /\ b.since = s.b.since
      /\ b.qty = s.b.qty + size /\ b.entered = s.b.entered + size /\ b.taken = s.b.taken /\ b.stop = stop
      /\ b.rev = s.b.rev + 1 /\ b.opened = opened
  BY <1>0, <1>1 DEF BrokerType
<1> HIDE DEF b
<1>6. LET n == Answered(s, no) IN OnRoad(n.b, n.q, rest \ {c})
  BY <1>0, RefusedOn DEF no
<1>7. ASSUME ~(order[c].kind = "ADD" /\ s.b.qty = 0)
      PROVE  LET n == Answered([b |-> b, q |-> s.q], e) IN OnRoad(n.b, n.q, rest \ {c})
  <2>1. Grows(e) /\ ~Reduces(e)
    BY <1>2, <1>4 DEF Grows, Reduces
  <2>2. /\ Book(s.b) \in Books /\ Book(s.b).qty = s.b.qty /\ Book(s.b).stop = s.b.stop
        /\ Book(s.b).rev = s.b.rev /\ Book(s.b).entered = s.b.entered /\ Book(s.b).taken = s.b.taken
    BY <1>0, BookIs
  <2>3. Takes(e, Book(s.b))
    BY <2>1 DEF Takes
  <2>4. Book(b) = Turned(e, Book(s.b))
    <3>1. PICK n : n = Turned(e, Book(s.b))
      OBVIOUS
    <3>2. /\ n \in Books /\ n.qty = s.b.qty + size /\ n.entered = s.b.entered + size /\ n.taken = s.b.taken
          /\ n.stop = stop /\ n.rev = s.b.rev + 1
      BY <1>2, <1>4, <2>1, <2>2, <2>3, <3>1, TurnedIs DEF stop
    <3>3. n = [qty |-> n.qty, entered |-> n.entered, taken |-> n.taken, stop |-> n.stop, rev |-> n.rev]
      BY <3>2 DEF Books
    <3> QED
      BY <1>5, <3>1, <3>2, <3>3 DEF Book
  <2>5. Room(s.q)
    BY <1>0 DEF RoomOK, Of, WaitsIn
  <2>6. order[c].kind = "OPEN" \/ s.b.qty > 0
    BY <1>0, <1>7 DEF Increases
  <2>7. Tellable(s, e, b)
    BY <1>2, <1>5, <2>1, <2>3, <2>4, <2>5, <2>6 DEF Tellable
  <2> QED
    BY <1>2, <1>5, <2>7, AnsweredOn
<1> QED
  BY <1>3, <1>6, <1>7

LEMMA MovedOn ==
  ASSUME TypeInv, OutcomeInv, RowsOK, pc \in Simulating, NEW s, SimOK(s), NEW rest \in SUBSET Commands,
         BarOK(s, rest), OnRoad(s.b, s.q, rest),
         NEW c \in rest, s.b.answer[c] = "ACK", order[c].kind = "MOVESTOP", order[c].level \in Nat,
         NEW t, t = cursor + 1
  PROVE  LET n == Moved(s, c, t) IN OnRoad(n.b, n.q, rest \ {c})
<1> DEFINE level == order[c].level
           b == [s.b EXCEPT !.stop = level, !.rev = @ + 1]
           no == Event(c, "REJECT", 0, t, 0)
           e == Event(c, "ACTIVE", 0, t, 0)
<1>0. /\ c \in Commands /\ t \in Nat /\ s.b \in BrokerType /\ s.b.rev \in Nat /\ s.b.rev + 1 \in Nat
      /\ order[c].kind \in Kinds
  BY FieldsAre, SimulationStarts DEF Kinds
<1>1. EventOK(e) /\ e.cmd = c /\ e.status = "ACTIVE" /\ e.bar = t
  BY <1>0 DEF EventOK, Event, EventType, Kinds
<1>2. Moved(s, c, t) = IF s.b.qty = 0 THEN Answered(s, no) ELSE Answered([b |-> b, q |-> s.q], e)
  BY DEF Moved
<1> HIDE DEF level, no, e
<1>3. /\ b \in BrokerType /\ b.sched = s.b.sched /\ b.answer = s.b.answer /\ b.known = s.b.known /\ b.since = s.b.since
      /\ b.qty = s.b.qty /\ b.entered = s.b.entered /\ b.taken = s.b.taken /\ b.stop = level
      /\ b.rev = s.b.rev + 1 /\ b.opened = s.b.opened
  BY <1>0 DEF BrokerType, level
<1> HIDE DEF b
<1>4. LET n == Answered(s, no) IN OnRoad(n.b, n.q, rest \ {c})
  BY <1>0, RefusedOn DEF no
<1>5. LET n == Answered([b |-> b, q |-> s.q], e) IN OnRoad(n.b, n.q, rest \ {c})
  <2>1. ~Grows(e) /\ ~Reduces(e)
    BY <1>1 DEF Grows, Reduces
  <2>2. /\ Book(s.b) \in Books /\ Book(s.b).qty = s.b.qty
        /\ Book(s.b).rev = s.b.rev /\ Book(s.b).entered = s.b.entered /\ Book(s.b).taken = s.b.taken
    BY <1>0, BookIs
  <2>3. Takes(e, Book(s.b))
    BY <2>1 DEF Takes
  <2>4. Book(b) = Turned(e, Book(s.b))
    <3>1. PICK n : n = Turned(e, Book(s.b))
      OBVIOUS
    <3>2. /\ n \in Books /\ n.qty = s.b.qty /\ n.entered = s.b.entered /\ n.taken = s.b.taken
          /\ n.stop = level /\ n.rev = s.b.rev + 1
      BY <1>1, <2>2, <2>3, <3>1, TurnedIs DEF level
    <3>3. n = [qty |-> n.qty, entered |-> n.entered, taken |-> n.taken, stop |-> n.stop, rev |-> n.rev]
      BY <3>2 DEF Books
    <3> QED
      BY <1>3, <3>1, <3>2, <3>3 DEF Book
  <2>5. Tellable(s, e, b)
    BY <1>1, <1>3, <2>1, <2>3, <2>4 DEF Tellable, OnRoad, OwnOK
  <2> QED
    BY <1>1, <1>3, <2>5, AnsweredOn
<1> QED
  BY <1>2, <1>4, <1>5

LEMMA ExitedOn ==
  ASSUME TypeInv, OutcomeInv, RowsOK, pc \in Simulating, NEW s, SimOK(s), NEW rest \in SUBSET Commands,
         OneOpenIncrease, BarOK(s, rest), OnRoad(s.b, s.q, rest), \A d \in rest : order[d].kind \in Kinds,
         NEW c \in rest, s.b.answer[c] = "ACK", order[c].kind \in Exits,
         order[c].size \in Nat, order[c].size > 0, NEW t, t = cursor + 1
  PROVE  LET n == Exited(s, c, rest \ {c}, t) IN OnRoad(n.b, n.q, rest \ {c})
<1> DEFINE k == IF order[c].kind = "CLOSE" THEN s.b.qty ELSE order[c].size
           stop == IF k = s.b.qty THEN 0 ELSE s.b.stop
           b == [s.b EXCEPT !.qty = @ - k, !.rev = @ + 1, !.stop = IF k = s.b.qty THEN 0 ELSE @]
           m == [b |-> b, q |-> s.q]
           no == Event(c, "REJECT", 0, t, 0)
           e == Event(c, "FILL", k, t, 0)
           left == rest \ {c}
<1>0. /\ c \in Commands /\ t \in Nat /\ s.b \in BrokerType /\ s.b.qty \in Nat /\ s.b.entered \in Nat
      /\ s.b.stop \in Nat /\ s.b.rev \in Nat /\ order[c].kind \in Kinds /\ k \in Nat /\ (s.b.qty # 0 => k > 0)
  BY FieldsAre, SimulationStarts DEF Kinds
<1>1. Exited(s, c, left, t) =
        IF s.b.qty = 0 \/ k > s.b.qty THEN Answered(s, no) ELSE Cancelled(Answered(m, e), left, t)
  BY DEF Exited
<1>2. order[c].kind = "CLOSE" => k = s.b.qty
  OBVIOUS
<1> HIDE DEF k
<1>3. EventOK(e) /\ e.cmd = c /\ e.status = "FILL" /\ e.qty = k /\ e.bar = t
  BY <1>0 DEF EventOK, Event, EventType, Kinds
<1>4. order[c].kind \notin Increases /\ order[c].kind # "CANCEL" /\ left \in SUBSET Commands
      /\ Kind(c) = order[c].kind /\ c # TargetHit
  BY <1>0, OwnIds DEF Exits, Increases, Kind
<1> HIDE DEF no, e
<1>5. LET n == Answered(s, no) IN OnRoad(n.b, n.q, left)
  BY <1>0, RefusedOn DEF no
<1>6. ASSUME s.b.qty # 0, ~(k > s.b.qty)
      PROVE  LET n == Cancelled(Answered(m, e), left, t) IN OnRoad(n.b, n.q, left)
  <2>1. s.b.qty - k \in Nat /\ stop \in Nat /\ k <= s.b.qty /\ s.b.rev + 1 \in Nat
        /\ b = [s.b EXCEPT !.qty = s.b.qty - k, !.rev = s.b.rev + 1, !.stop = stop]
    BY <1>0, <1>6
  <2> HIDE DEF stop, b
  <2>2. /\ b \in BrokerType /\ b.sched = s.b.sched /\ b.answer = s.b.answer /\ b.known = s.b.known /\ b.since = s.b.since
        /\ b.qty = s.b.qty - k /\ b.entered = s.b.entered /\ b.taken = s.b.taken /\ b.stop = stop
        /\ b.rev = s.b.rev + 1 /\ b.opened = s.b.opened
    BY <1>0, <2>1 DEF BrokerType
  <2>3. Reduces(e) /\ ~Grows(e)
    BY <1>3, <1>4 DEF Reduces, Grows
  <2>4. /\ Book(s.b) \in Books /\ Book(s.b).qty = s.b.qty /\ Book(s.b).stop = s.b.stop
        /\ Book(s.b).rev = s.b.rev /\ Book(s.b).entered = s.b.entered /\ Book(s.b).taken = s.b.taken
    BY <1>0, BookIs
  <2>5. Takes(e, Book(s.b))
    BY <1>2, <1>3, <1>4, <2>1, <2>4 DEF Takes, Exits
  <2>6. Book(b) = Turned(e, Book(s.b))
    <3>1. PICK n : n = Turned(e, Book(s.b))
      OBVIOUS
    <3>2. /\ n \in Books /\ n.qty = s.b.qty - k /\ n.entered = s.b.entered /\ n.taken = s.b.taken
          /\ n.stop = stop /\ n.rev = s.b.rev + 1
      BY <1>3, <1>4, <2>3, <2>4, <2>5, <3>1, TurnedIs DEF stop
    <3>3. n = [qty |-> n.qty, entered |-> n.entered, taken |-> n.taken, stop |-> n.stop, rev |-> n.rev]
      BY <3>2 DEF Books
    <3> QED
      BY <2>2, <3>1, <3>2, <3>3 DEF Book
  <2>7. Tellable(s, e, b)
    BY <1>3, <2>2, <2>3, <2>5, <2>6 DEF Tellable, OnRoad, OwnOK
  <2> DEFINE x == Answered(m, e)
  <2>8. OnRoad(x.b, x.q, left)
    BY <1>3, <2>2, <2>7, AnsweredOn
  <2>9. SimOK(m) /\ m.b = b /\ m.q = s.q
    BY <2>2, FieldsAre, PositionOK
  <2>10. b.rev = 0 => b.qty = 0
    BY <1>0, <2>2
  <2> HIDE DEF m
  <2>11. /\ MemoryOK(b, rest) /\ WaitsIn(b, rest) = WaitsIn(s.b, rest)
         /\ StreamOK(s.q, WaitsIn(b, rest), b.answer)
    BY <2>2, <2>10, PositionKeeps
  <2>12. BarOK(m, rest)
    BY <2>9, <2>11 DEF BarOK
  <2>13. SimOK(x)
    BY <1>0, <1>3, <2>9, AnsweredOK
  <2>14. Fits(e, s.q)
    BY <1>0, <1>3, <1>6, <2>3 DEF Fits
  <2>15. Tells(m, rest, x, left, c)
    BY <1>3, <1>4, <2>2, <2>9, <2>12, <2>14, TellKeeps
  <2> HIDE DEF x
  <2>16. LET n == Cancelled(x, left, t) IN OnRoad(n.b, n.q, left)
    BY <1>4, <2>8, <2>13, <2>15, CancelledOn DEF Tells
  <2> QED
    BY <2>16 DEF x
<1> QED
  BY <1>1, <1>5, <1>6

-----------------------------------------------------------------------------
(* The stages of a bar.                                                    *)

LEMMA StageStarts ==
  ASSUME TypeInv, OutcomeInv, BookInv, pc \in Simulating
  PROVE  /\ OnRoad(Sim.b, Sim.q, due) /\ RowsOK /\ BarOK(Sim, due) /\ RoomOK(Sim.b, Sim.q, due) /\ SimOK(Sim)
         /\ Sim.b = broker /\ Sim.q = queue /\ batch = <<>> /\ done = 0 /\ Stream = queue
         /\ due \in SUBSET Commands /\ \A c \in due : order[c].kind \in Kinds
         /\ pc # "limits" => BeforeOK(broker, queue) /\ \A c \in broker.sched : broker.since[c] > cursor + 1
<1>1. /\ BarOK(Sim, due) /\ RoomOK(Sim.b, Sim.q, due) /\ SimOK(Sim)
      /\ Sim.b = broker /\ Sim.q = queue /\ batch = <<>> /\ done = 0 /\ Stream = queue
      /\ due \in SUBSET Commands /\ \A c \in due : order[c].kind \in Kinds
  BY BarStarts, SimulationStarts DEF TypeInv, BatchOK
<1>2. ~Outside
  BY DEF Outside
<1>3. Road(broker, queue) /\ HoldsOK(broker, queue) /\ OwnOK(broker, queue) /\ TargetsIn(queue) /\ RowsOK
  BY <1>1, <1>2 DEF BookInv, RoadOK
<1>4. \A c \in Of(WaitsIn(broker, due), {"OPEN"}) : broker.qty = 0
  BY <1>1 DEF RoomOK, BarOK, MemoryOK, WaitsOK, Of, Increases
<1>5. \A x \in applied : x[1] \in WaitsIn(broker, due) /\ x[2] = "ACTIVE" => "stop" \in cut
  BY DEF BookInv, SinceOK
<1>6. OnRoad(broker, queue, due)
  BY <1>3, <1>4, <1>5 DEF OnRoad
<1>7. pc # "limits" => BeforeOK(broker, queue) /\ \A c \in broker.sched : broker.since[c] > cursor + 1
  BY <1>1 DEF BookInv, StagesOK, Before, Behind, Simulating
<1> QED
  BY <1>1, <1>3, <1>6, <1>7

\* A stage that stays on the road keeps the invariant.
LEMMA StageBook ==
  ASSUME TypeInv, OutcomeInv, BookInv, TypeInv', Simulates, pc' \in Simulating, NEW s, NEW left, due' = left,
         broker' = s.b, queue' = s.q, SimOK(s), OnRoad(s.b, s.q, left), left \subseteq due,
         pc' # "limits" => pc # "limits" /\ BeforeOK(s.b, s.q) /\ s.b.sched \subseteq broker.sched
  PROVE  BookInv'
<1> USE DEF journal
<1>1. /\ trade' = trade /\ order' = order /\ applied' = applied /\ bars' = bars /\ cut' = cut /\ cursor' = cursor
      /\ batch' = batch /\ done' = done /\ pc \in Simulating
      /\ pc \notin {"confirm", "sent", "answer", "down"} /\ pc' \notin {"confirm", "sent", "answer", "down"}
  BY DEF Simulates, Simulating
<1>2. /\ batch = <<>> /\ done = 0 /\ ~Outside' /\ Stream' = queue'
      /\ (pc # "limits" => \A c \in broker.sched : broker.since[c] > cursor + 1)
  BY <1>1, StageStarts DEF Outside, Stream
<1>3. PICK b, q, rest : b = s.b /\ q = s.q /\ rest = left
  OBVIOUS
<1>4. BarRuns
  BY <1>1 DEF BookInv, ClockOK, BarRuns
<1>5. BarLeaves(b, q, rest)
  BY <1>3 DEF BarLeaves, OnRoad
<1>6. Road(b, q) /\ EventsOK(q)
  BY <1>3, FieldsAre DEF OnRoad
<1>7. Road(b, q)'
  BY <1>1, <1>2, <1>4, <1>6, RoadOn
<1>8. broker' = b /\ Stream' = q /\ due' = rest /\ queue' = q
  BY <1>2, <1>3
<1>9. RoadOK'
  BY <1>2, <1>7, <1>8 DEF RoadOK
<1>10. \A c \in rest : b.since[c] <= cursor + 1
  <2>1. \A c \in due : broker.since[c] <= cursor + 1
    BY <1>1 DEF BookInv, SinceOK
  <2> QED
    BY <1>3, <2>1 DEF OnRoad
<1>11. Before' => /\ queue' = q /\ BeforeOK(b, q)
                  /\ pc' \in Simulating => \A c \in b.sched : b.since[c] > cursor + 1
  <2>1. Before' => pc' # "limits"
    BY DEF Before, Behind
  <2> QED
    BY <1>2, <1>3, <1>8, <2>1 DEF OnRoad
<1> QED
  BY <1>4, <1>5, <1>8, <1>9, <1>10, <1>11, BarMoves

\* Nothing is entered or taken, and no event of n is of the target or grows.
Steady(s, n) ==
  /\ n.b.known = s.b.known /\ n.b.entered = s.b.entered /\ n.b.taken = s.b.taken
  /\ n.b.opened = s.b.opened /\ n.b.paid = s.b.paid
  /\ \A i \in 1..Len(s.q) : i \in 1..Len(n.q) /\ n.q[i] = s.q[i]
  /\ \A i \in 1..Len(n.q) : i \in 1..Len(s.q) \/ (n.q[i].cmd # TargetHit /\ ~Grows(n.q[i]))

LEMMA SteadyKeeps ==
  ASSUME NEW s, NEW n, Steady(s, n), BeforeOK(s.b, s.q)
  PROVE  BeforeOK(n.b, n.q)
<1>1. \A i \in 1..Len(n.q) : n.q[i].cmd # TargetHit
  BY DEF Steady, BeforeOK
<1>2. (\A i \in 1..Len(n.q) : ~Grows(n.q[i])) <=> (\A i \in 1..Len(s.q) : ~Grows(s.q[i]))
  <2>1. ASSUME \A i \in 1..Len(n.q) : ~Grows(n.q[i]), NEW i \in 1..Len(s.q) PROVE ~Grows(s.q[i])
    BY <2>1 DEF Steady
  <2>2. ASSUME \A i \in 1..Len(s.q) : ~Grows(s.q[i]), NEW i \in 1..Len(n.q) PROVE ~Grows(n.q[i])
    <3>1. CASE i \in 1..Len(s.q)
      <4>1. n.q[i] = s.q[i]
        BY <3>1 DEF Steady
      <4> QED
        BY <2>2, <3>1, <4>1
    <3>2. CASE i \notin 1..Len(s.q)
      BY <3>2 DEF Steady
    <3> QED
      BY <3>1, <3>2
  <2> QED
    BY <2>1, <2>2
<1> QED
  BY <1>1, <1>2 DEF Steady, BeforeOK

LEMMA SteadyOn ==
  ASSUME NEW s, NEW m, NEW n, Steady(s, m), Steady(m, n)
  PROVE  Steady(s, n)
<1>1. ASSUME NEW i \in 1..Len(n.q)
      PROVE  i \in 1..Len(s.q) \/ (n.q[i].cmd # TargetHit /\ ~Grows(n.q[i]))
  <2>1. CASE i \in 1..Len(m.q)
    <3>1. n.q[i] = m.q[i]
      BY <2>1 DEF Steady
    <3> QED
      BY <2>1, <3>1 DEF Steady
  <2>2. CASE i \notin 1..Len(m.q)
    BY <2>2 DEF Steady
  <2> QED
    BY <2>1, <2>2
<1> QED
  BY <1>1 DEF Steady

LEMMA SteadyEvent ==
  ASSUME NEW s, SimOK(s), NEW e, EventOK(e), e.cmd # TargetHit, ~Grows(e), NEW n, n.q = Append(s.q, e),
         n.b.known = s.b.known, n.b.entered = s.b.entered, n.b.taken = s.b.taken,
         n.b.opened = s.b.opened, n.b.paid = s.b.paid
  PROVE  Steady(s, n)
<1>1. s.q \in Seq(EventType) /\ e \in EventType
  BY FieldsAre DEF EventsOK, EventOK
<1>2. Len(n.q) = Len(s.q) + 1 /\ n.q[Len(s.q) + 1] = e /\ Len(s.q) \in Nat /\ \A i \in 1..Len(s.q) : n.q[i] = s.q[i]
  BY <1>1
<1>3. \A i \in 1..Len(n.q) : i \in 1..Len(s.q) \/ n.q[i] = e
  BY <1>2
<1>4. \A i \in 1..Len(s.q) : i \in 1..Len(n.q)
  BY <1>2
<1> QED
  BY <1>2, <1>3, <1>4 DEF Steady

LEMMA SteadyBook ==
  ASSUME NEW s, NEW n, n.q = s.q,
         n.b.known = s.b.known, n.b.entered = s.b.entered, n.b.taken = s.b.taken,
         n.b.opened = s.b.opened, n.b.paid = s.b.paid
  PROVE  Steady(s, n)
  BY DEF Steady

LEMMA SteadyCancelled ==
  ASSUME TypeInv, NEW s, SimOK(s), NEW rest \in SUBSET Commands, NEW t \in Nat, BarOK(s, rest)
  PROVE  Steady(s, Cancelled(s, rest, t))
<1> DEFINE n == Cancelled(s, rest, t)
<1>1. /\ SameHolding(s.b, n.b)
      /\ \/ n.q = s.q /\ n.b.answer = s.b.answer
         \/ \E x \in Of(WaitsIn(s.b, rest), Increases) : n.q = Append(s.q, Event(x, "CANCEL", 0, t, 0))
  BY CancelledBook
<1> HIDE DEF n
<1>2. /\ n.b.known = s.b.known /\ n.b.entered = s.b.entered /\ n.b.taken = s.b.taken
      /\ n.b.opened = s.b.opened /\ n.b.paid = s.b.paid
  BY <1>1 DEF SameHolding
<1>3. CASE n.q = s.q
  BY <1>2, <1>3, SteadyBook DEF n
<1>4. ASSUME NEW x \in Of(WaitsIn(s.b, rest), Increases), n.q = Append(s.q, Event(x, "CANCEL", 0, t, 0))
      PROVE  Steady(s, n)
  <2>1. PICK e : e = Event(x, "CANCEL", 0, t, 0)
    OBVIOUS
  <2>2. x \in Commands /\ order[x].kind \in Increases
    BY FieldsAre DEF Of, WaitsIn, BrokerType
  <2>3. EventOK(e) /\ e.cmd = x /\ e.status = "CANCEL"
    BY <2>1, <2>2 DEF EventOK, Event, EventType, Kinds
  <2>4. ~Grows(e) /\ e.cmd # TargetHit
    BY <2>2, <2>3, OwnIds DEF Grows
  <2> QED
    BY <1>2, <1>4, <2>1, <2>3, <2>4, SteadyEvent
<1>5. Steady(s, n)
  BY <1>1, <1>3, <1>4 DEF n
<1> QED
  BY <1>5 DEF n

LEMMA SteadyAnswered ==
  ASSUME NEW s, SimOK(s), NEW e, EventOK(e), e.cmd \in Commands, ~Grows(e)
  PROVE  Steady(s, Answered(s, e))
<1> DEFINE n == Answered(s, e)
<1>1. n.q = Append(s.q, e) /\ SameHolding(s.b, n.b)
  BY AnsweredIs, AnsweredBook
<1> HIDE DEF n
<1>2. e.cmd # TargetHit
  BY OwnIds
<1>3. Steady(s, n)
  BY <1>1, <1>2, SteadyEvent DEF SameHolding
<1> QED
  BY <1>3 DEF n

LEMMA StopOutSteady ==
  ASSUME TypeInv, NEW s, SimOK(s), NEW rest \in SUBSET Commands, NEW t \in Nat, NEW low, BarOK(s, rest)
  PROVE  Steady(s, StopOut(s, rest, t, low))
<1> DEFINE b == [s.b EXCEPT !.qty = 0, !.stop = 0, !.rev = @ + 1]
           e == Event(StopHit, "FILL", s.b.qty, t, 0)
           m == [b |-> b, q |-> Append(s.q, e)]
<1>1. CASE ~Triggered(s.b, low)
  BY <1>1, SteadyBook DEF StopOut
<1>2. CASE Triggered(s.b, low)
  <2>1. s.b.qty \in Nat /\ s.b.qty > 0 /\ s.b.rev + 1 \in Nat /\ s.b \in BrokerType /\ EventsOK(s.q)
    BY <1>2, FieldsAre DEF Triggered
  <2>2. StopOut(s, rest, t, low) = Cancelled(m, rest, t)
    BY <1>2 DEF StopOut
  <2>3. /\ b \in BrokerType /\ b.sched = s.b.sched /\ b.answer = s.b.answer /\ b.known = s.b.known
        /\ b.qty = 0 /\ b.entered = s.b.entered /\ b.taken = s.b.taken /\ b.opened = s.b.opened /\ b.paid = s.b.paid
    BY <2>1, FieldsAre DEF BrokerType
  <2>4. /\ EventOK(e) /\ e.cmd = StopHit /\ e.cmd # TargetHit /\ e.qty > 0 /\ e.cmd \notin Commands
        /\ Kind(e.cmd) = "STOP"
    BY <2>1, OwnEventOK, OwnIds DEF Event, Kind, StopHit, TargetHit
  <2>5. ~Grows(e) /\ Fits(e, s.q)
    BY <2>4 DEF Grows, Increases, Fits
  <2> HIDE DEF b, e
  <2>6. EventsOK(Append(s.q, e))
    BY <2>1, <2>4, AppendOK
  <2>7. SimOK(m) /\ m.b = b /\ m.q = Append(s.q, e)
    BY <2>3, <2>6, PositionOK
  <2> HIDE DEF m
  <2>8. b.rev = 0 => b.qty = 0
    BY <2>3
  <2>9. /\ MemoryOK(b, rest) /\ WaitsIn(b, rest) = WaitsIn(s.b, rest)
        /\ StreamOK(s.q, WaitsIn(b, rest), b.answer)
    BY <2>3, <2>8, PositionKeeps
  <2>10. StreamOK(m.q, WaitsIn(b, rest), b.answer)
    <3>1. PICK w, a : w = WaitsIn(b, rest) /\ a = b.answer
      OBVIOUS
    <3>2. StreamOK(s.q, w, a) /\ w \in SUBSET w
      BY <2>9, <3>1
    <3>3. StreamOK(Append(s.q, e), w, a)
      BY <2>1, <2>4, <2>5, <3>2, StreamGrows
    <3> QED
      BY <2>7, <3>1, <3>3
  <2>11. BarOK(m, rest)
    BY <2>7, <2>9, <2>10 DEF BarOK
  <2>12. Steady(s, m)
    BY <2>3, <2>4, <2>5, <2>7, SteadyEvent
  <2>13. Steady(m, Cancelled(m, rest, t))
    BY <2>7, <2>11, SteadyCancelled
  <2> QED
    BY <2>2, <2>12, <2>13, SteadyOn
<1> QED
  BY <1>1, <1>2

LEMMA MovedSteady ==
  ASSUME NEW s, SimOK(s), NEW c \in Commands, order[c].kind = "MOVESTOP", order[c].level \in Nat, NEW t \in Nat
  PROVE  Steady(s, Moved(s, c, t))
<1> DEFINE level == order[c].level
           b == [s.b EXCEPT !.stop = level, !.rev = @ + 1]
           m == [b |-> b, q |-> s.q]
           no == Event(c, "REJECT", 0, t, 0)
           e == Event(c, "ACTIVE", 0, t, 0)
<1>1. EventOK(e) /\ EventOK(no) /\ e.cmd = c /\ no.cmd = c /\ ~Grows(e) /\ ~Grows(no)
  BY DEF EventOK, Event, EventType, Kinds, Grows
<1>2. Moved(s, c, t) = IF s.b.qty = 0 THEN Answered(s, no) ELSE Answered(m, e)
  BY DEF Moved
<1>8. s.b \in BrokerType /\ level \in Nat /\ s.b.rev + 1 \in Nat
  BY FieldsAre
<1> HIDE DEF level, no, e
<1>3. /\ b \in BrokerType /\ b.sched = s.b.sched /\ b.answer = s.b.answer /\ b.known = s.b.known
      /\ b.entered = s.b.entered /\ b.taken = s.b.taken /\ b.opened = s.b.opened /\ b.paid = s.b.paid
  BY <1>8 DEF BrokerType
<1> HIDE DEF b
<1>4. SimOK(m) /\ m.b = b /\ m.q = s.q
  BY <1>3, FieldsAre, PositionOK
<1> HIDE DEF m
<1>5. Steady(s, m) /\ Steady(m, Answered(m, e)) /\ Steady(s, Answered(s, no))
  BY <1>1, <1>3, <1>4, SteadyBook, SteadyAnswered
<1> QED
  BY <1>2, <1>5, SteadyOn

LEMMA ExitedSteady ==
  ASSUME TypeInv, NEW s, SimOK(s), NEW rest \in SUBSET Commands, BarOK(s, rest),
         NEW c \in rest, s.b.answer[c] = "ACK", order[c].kind \in Exits,
         order[c].size \in Nat, order[c].size > 0, NEW t \in Nat
  PROVE  Steady(s, Exited(s, c, rest \ {c}, t))
<1> DEFINE k == IF order[c].kind = "CLOSE" THEN s.b.qty ELSE order[c].size
           b == [s.b EXCEPT !.qty = @ - k, !.rev = @ + 1, !.stop = IF k = s.b.qty THEN 0 ELSE @]
           m == [b |-> b, q |-> s.q]
           no == Event(c, "REJECT", 0, t, 0)
           e == Event(c, "FILL", k, t, 0)
           left == rest \ {c}
<1>1. s.b.qty \in Nat /\ k \in Nat /\ (s.b.qty # 0 => k > 0) /\ c \in Commands /\ s.b \in BrokerType
  BY FieldsAre
<1>2. Exited(s, c, left, t) =
        IF s.b.qty = 0 \/ k > s.b.qty THEN Answered(s, no) ELSE Cancelled(Answered(m, e), left, t)
  BY DEF Exited
<1> HIDE DEF k
<1>3. EventOK(no) /\ EventOK(e) /\ no.cmd = c /\ e.cmd = c /\ no.status = "REJECT" /\ e.qty = k
  BY <1>1 DEF EventOK, Event, EventType, Kinds
<1>4. order[c].kind \notin Increases /\ order[c].kind # "CANCEL" /\ left \in SUBSET Commands /\ Kind(c) = order[c].kind
  BY <1>1, OwnIds DEF Exits, Increases, Kind
<1>5. ~Grows(e) /\ ~Grows(no) /\ (k > 0 => Fits(e, s.q))
  BY <1>3, <1>4 DEF Fits, Grows
<1> HIDE DEF no, e
<1>6. Steady(s, Answered(s, no))
  BY <1>1, <1>3, <1>5, SteadyAnswered
<1>7. ASSUME s.b.qty # 0, ~(k > s.b.qty) PROVE Steady(s, Cancelled(Answered(m, e), left, t))
  <2>1. s.b.qty - k \in Nat
    BY <1>1, <1>7
  <2>2. /\ b \in BrokerType /\ b.sched = s.b.sched /\ b.answer = s.b.answer /\ b.known = s.b.known
        /\ b.rev = s.b.rev + 1 /\ b.entered = s.b.entered /\ b.taken = s.b.taken
        /\ b.opened = s.b.opened /\ b.paid = s.b.paid
    BY <2>1, FieldsAre DEF BrokerType
  <2> HIDE DEF b
  <2>3. SimOK(m) /\ m.b = b /\ m.q = s.q
    BY <2>2, FieldsAre, PositionOK
  <2>4. b.rev = 0 => b.qty = 0
    BY <2>2, FieldsAre
  <2> HIDE DEF m
  <2>5. /\ MemoryOK(b, rest) /\ WaitsIn(b, rest) = WaitsIn(s.b, rest)
        /\ StreamOK(s.q, WaitsIn(b, rest), b.answer)
    BY <2>2, <2>4, PositionKeeps
  <2>6. BarOK(m, rest)
    BY <2>3, <2>5 DEF BarOK
  <2> DEFINE x == Answered(m, e)
  <2>7. SimOK(x) /\ Steady(s, m) /\ Steady(m, x)
    BY <1>1, <1>3, <1>5, <2>2, <2>3, AnsweredOK, SteadyBook, SteadyAnswered
  <2>8. Tells(m, rest, x, left, c)
    BY <1>1, <1>3, <1>4, <1>5, <1>7, <2>2, <2>3, <2>6, TellKeeps
  <2> HIDE DEF x
  <2>9. Steady(x, Cancelled(x, left, t))
    BY <1>4, <2>7, <2>8, SteadyCancelled DEF Tells
  <2>10. Steady(s, Cancelled(x, left, t))
    BY <2>7, <2>9, SteadyOn
  <2> QED
    BY <2>10 DEF x
<1> QED
  BY <1>2, <1>6, <1>7

\* A stage before the protection that enters and takes nothing.
LEMMA SteadyStage ==
  ASSUME TypeInv, OutcomeInv, BookInv, TypeInv', Simulates, pc \in {"moves", "opens"}, pc' \in Simulating,
         NEW n, NEW left, left \subseteq due, due' = left, Becomes(n), SimOK(n), OnRoad(n.b, n.q, left),
         Steady(Sim, n), n.b.sched \subseteq broker.sched
  PROVE  BookInv'
<1>1. pc \in Simulating /\ pc # "limits"
  BY DEF Simulating
<1>2. Sim.b = broker /\ Sim.q = queue /\ BeforeOK(broker, queue)
  BY <1>1, StageStarts
<1>3. BeforeOK(n.b, n.q)
  BY <1>2, SteadyKeeps
<1> QED
  BY <1>1, <1>3, StageBook DEF Becomes

LEMMA TakeMoveBook ==
  ASSUME TypeInv, TypeInv', OutcomeInv, BookInv, NEW c \in Commands, TakeMove(c)
  PROVE  BookInv'
<1> USE DEF TakeMove
<1>1. /\ Simulates /\ pc \in {"moves", "opens"} /\ pc \in Simulating /\ pc' \in Simulating
      /\ c \in due /\ order[c].kind = "MOVESTOP"
  BY DEF Simulates, Simulating, First, Of
<1>2. PICK t : t = cursor + 1
  OBVIOUS
<1>3. PICK n : n = Moved(Sim, c, t)
  OBVIOUS
<1>4. order[c].level \in Nat /\ t \in Nat /\ SimOK(Sim) /\ Sim.b = broker
  BY <1>1, <1>2, SimulationStarts DEF OrderType
<1>5. /\ RowsOK /\ BarOK(Sim, due) /\ OnRoad(Sim.b, Sim.q, due) /\ due \in SUBSET Commands
      /\ Sim.b.answer[c] = "ACK"
  <2>1. broker.answer[c] = "ACK"
    BY <1>1 DEF OutcomeInv, MemoryOK, WaitsOK, SentOK, Increases
  <2> QED
    BY <1>1, <1>4, <2>1, StageStarts
<1>6. OnRoad(n.b, n.q, due \ {c})
  BY <1>1, <1>2, <1>3, <1>4, <1>5, MovedOn
<1>7. SimOK(n) /\ n.b.sched = broker.sched
  BY <1>1, <1>3, <1>4, MovedOK
<1>8. Steady(Sim, n)
  BY <1>1, <1>3, <1>4, MovedSteady
<1>9. Becomes(n) /\ due' = due \ {c}
  BY <1>2, <1>3
<1> QED
  BY <1>1, <1>6, <1>7, <1>8, <1>9, SteadyStage

LEMMA OpeningBook ==
  ASSUME TypeInv, TypeInv', OutcomeInv, BookInv, Opening
  PROVE  BookInv'
<1> USE DEF Opening
<1>1. Simulates /\ pc \in {"moves", "opens"} /\ pc \in Simulating /\ pc' \in Simulating
  BY DEF Simulates, Simulating
<1>2. PICK t : t = cursor + 1
  OBVIOUS
<1>3. PICK low : low = bars[t].open
  OBVIOUS
<1>4. PICK n : n = StopOut(Sim, due, t, low)
  OBVIOUS
<1>5. t \in Nat /\ SimOK(Sim) /\ Sim.b = broker
  BY <1>1, <1>2, SimulationStarts
<1>6. /\ RowsOK /\ BarOK(Sim, due) /\ OnRoad(Sim.b, Sim.q, due) /\ due \in SUBSET Commands
      /\ \A c \in due : order[c].kind \in Kinds
  BY <1>1, StageStarts
<1>7. OnRoad(n.b, n.q, due)
  BY <1>1, <1>2, <1>4, <1>5, <1>6, StopOutOn
<1>8. SimOK(n) /\ n.b.sched \subseteq broker.sched
  BY <1>4, <1>5, <1>6, StopOutOK
<1>9. Steady(Sim, n)
  BY <1>4, <1>5, <1>6, StopOutSteady
<1>10. Becomes(n) /\ due' = due
  BY <1>2, <1>3, <1>4
<1> QED
  BY <1>1, <1>7, <1>8, <1>9, <1>10, SteadyStage

LEMMA TakeExitBook ==
  ASSUME TypeInv, TypeInv', OutcomeInv, OneOpenIncrease, BookInv, NEW c \in Commands, TakeExit(c)
  PROVE  BookInv'
<1> USE DEF TakeExit
<1>1. /\ Simulates /\ pc \in {"moves", "opens"} /\ pc \in Simulating /\ pc' \in Simulating
      /\ c \in due /\ order[c].kind \in Exits
  BY DEF Simulates, Simulating, First, Of
<1>2. PICK t : t = cursor + 1
  OBVIOUS
<1>3. PICK n : n = Exited(Sim, c, due \ {c}, t)
  OBVIOUS
<1>4. t \in Nat /\ SimOK(Sim) /\ Sim.b = broker /\ order[c].size \in Nat /\ order[c].size > 0
  BY <1>1, <1>2, SimulationStarts, BarStarts DEF Exits
<1>5. /\ RowsOK /\ BarOK(Sim, due) /\ OnRoad(Sim.b, Sim.q, due) /\ due \in SUBSET Commands
      /\ Sim.b.answer[c] = "ACK" /\ \A d \in due : order[d].kind \in Kinds
  <2>1. broker.answer[c] = "ACK"
    BY <1>1 DEF OutcomeInv, MemoryOK, WaitsOK, SentOK, Increases, Exits
  <2> QED
    BY <1>1, <1>4, <2>1, StageStarts
<1>6. OnRoad(n.b, n.q, due \ {c})
  BY <1>1, <1>2, <1>3, <1>4, <1>5, ExitedOn
<1>7. SimOK(n) /\ n.b.sched \subseteq broker.sched
  BY <1>1, <1>3, <1>4, <1>5, ExitedOK
<1>8. Steady(Sim, n)
  BY <1>1, <1>3, <1>4, <1>5, ExitedSteady
<1>9. Becomes(n) /\ due' = due \ {c}
  BY <1>2, <1>3
<1> QED
  BY <1>1, <1>6, <1>7, <1>8, <1>9, SteadyStage

LEMMA LimitExpiresBook ==
  ASSUME TypeInv, TypeInv', OutcomeInv, BookInv, NEW c \in Commands, LimitExpires(c)
  PROVE  BookInv'
<1> USE DEF LimitExpires
<1>1. pc = "limits" /\ pc \in Simulating /\ pc' \in Simulating /\ pc' = pc /\ c \in due /\ Simulates
  BY DEF Simulates, Simulating
<1>2. PICK t : t = cursor + 1
  OBVIOUS
<1>3. PICK e : e = Event(c, "CANCEL", 0, t, 0)
  OBVIOUS
<1>4. PICK n : n = Answered(Sim, e)
  OBVIOUS
<1>5. order[c].kind \in Increases /\ order[c].kind \in Kinds /\ t \in Nat /\ SimOK(Sim) /\ Sim.b = broker
  BY <1>1, <1>2, SimulationStarts DEF TypeInv, StepOK
<1>6. /\ RowsOK /\ BarOK(Sim, due) /\ OnRoad(Sim.b, Sim.q, due) /\ due \in SUBSET Commands
      /\ Sim.b.answer[c] = "ACK"
  BY <1>1, <1>5, StageStarts, DueWaits
<1>7. OnRoad(n.b, n.q, due \ {c})
  BY <1>1, <1>3, <1>4, <1>5, <1>6, RefusedOn
<1>8. EventOK(e) /\ e.cmd = c
  BY <1>3, <1>5 DEF EventOK, Event, EventType
<1>9. SimOK(n)
  BY <1>4, <1>5, <1>8, AnsweredOK
<1>10. Becomes(n) /\ due' = due \ {c} /\ due \ {c} \subseteq due
  BY <1>2, <1>3, <1>4
<1> QED
  BY <1>1, <1>7, <1>9, <1>10, StageBook DEF Becomes

LEMMA LimitWaitsBook ==
  ASSUME TypeInv, TypeInv', OutcomeInv, BookInv, NEW c \in Commands, LimitWaits(c)
  PROVE  BookInv'
<1> USE DEF LimitWaits
<1>1. pc = "limits" /\ pc \in Simulating /\ pc' \in Simulating /\ pc' = pc /\ c \in due /\ Simulates
  BY DEF Simulates, Simulating
<1>2. PICK b : b = [broker EXCEPT !.sched = @ \cup {c}]
  OBVIOUS
<1>3. PICK s : s = [b |-> b, q |-> queue]
  OBVIOUS
<1>4. PICK left : left = due \ {c}
  OBVIOUS
<1>5. broker \in BrokerType /\ c \in Commands /\ SimOK(Sim) /\ Sim.b = broker /\ Sim.q = queue
  BY <1>1, SimulationStarts DEF TypeInv, BrokerOK
<1>6. /\ b \in BrokerType /\ b.sched = broker.sched \cup {c} /\ b.answer = broker.answer /\ b.known = broker.known
      /\ b.rev = broker.rev /\ b.qty = broker.qty /\ b.entered = broker.entered /\ b.taken = broker.taken
      /\ b.stop = broker.stop /\ b.since = broker.since /\ b.opened = broker.opened
  BY <1>2, <1>5 DEF BrokerType
<1>7. s.b = b /\ s.q = queue
  BY <1>3
<1>8. OnRoad(broker, queue, due)
  BY <1>1, <1>5, StageStarts
<1>9. WaitsIn(b, left) = WaitsIn(broker, due)
  BY <1>1, <1>4, <1>6 DEF WaitsIn
<1>10. b.opened <= cursor + 1 /\ Book(b) = Book(broker)
  BY <1>6, <1>8 DEF OnRoad, OwnOK, Book
<1>11. OnRoad(b, queue, left)
  BY <1>5, <1>6, <1>8, <1>9, <1>10, AlikeOn
<1>12. broker' = b /\ queue' = queue /\ due' = left /\ left \subseteq due
  BY <1>2, <1>4
<1>13. SimOK(s)
  <2>1. order[c].kind \in Increases
    BY <1>1 DEF TypeInv, StepOK
  <2>2. BrokerOK(broker) /\ EventsOK(queue)
    BY <1>5, FieldsAre DEF SimOK
  <2>3. BrokerOK(b)
    BY <1>5, <1>6, <2>1, <2>2 DEF BrokerOK, Scheduled
  <2> QED
    BY <1>3, <1>7, <2>2, <2>3 DEF SimOK
<1> QED
  BY <1>1, <1>7, <1>11, <1>12, <1>13, StageBook

\* What an increase leaves: a refusal, or a growth that was paid at this price.
LEMMA IncreasedIs ==
  ASSUME NEW s, SimOK(s), NEW c \in Commands, order[c].kind \in Increases, order[c].size \in Nat,
         NEW t \in Nat, NEW price \in Nat, NEW opened \in Nat
  PROVE  LET n == Increased(s, c, t, price, opened) IN
         \/ n = Answered(s, Event(c, "REJECT", 0, t, 0))
         \/ \E e : n.q = Append(s.q, e) /\ EventOK(e) /\ Grows(e) /\ e.cmd = c /\ n.b.opened = opened
                 /\ n.b.answer[c] = "FILL"
<1> DEFINE basis == IF order[c].kind = "OPEN" THEN EntryStop ELSE AddStop
           stop == Larger(s.b.stop, basis)
           qty == s.b.qty + order[c].size
           entered == s.b.entered + order[c].size
           rev == s.b.rev + 1
           b == [s.b EXCEPT !.qty = qty, !.entered = entered, !.stop = stop, !.rev = rev, !.opened = opened]
           m == [b |-> b, q |-> s.q]
           e == Event(c, "FILL", order[c].size, t, price)
<1>1. CASE order[c].kind = "ADD" /\ s.b.qty = 0
  BY <1>1 DEF Increased
<1>2. CASE ~(order[c].kind = "ADD" /\ s.b.qty = 0)
  <2>1. Increased(s, c, t, price, opened) = Answered(m, e)
    BY <1>2 DEF Increased
  <2>2. s.b \in BrokerType /\ qty \in Nat /\ entered \in Nat /\ rev \in Nat
    BY FieldsAre
  <2>3. stop \in Nat
    BY FieldsAre, PricesAssumption DEF Larger
  <2>4. EventOK(e) /\ e.cmd = c /\ Grows(e)
    <3>1. Kind(c) = order[c].kind
      BY OwnIds DEF Kind
    <3> QED
      BY <3>1 DEF EventOK, Event, EventType, Kinds, Grows
  <2> HIDE DEF qty, entered, rev, stop, e
  <2>5. /\ b \in BrokerType /\ b.sched = s.b.sched /\ b.answer = s.b.answer /\ b.opened = opened
    BY <2>2, <2>3 DEF BrokerType
  <2> HIDE DEF b
  <2>6. SimOK(m) /\ m.b = b /\ m.q = s.q
    BY <2>5, FieldsAre, PositionOK
  <2> HIDE DEF m
  <2>7. /\ Answered(m, e).q = Append(s.q, e) /\ SameHolding(b, Answered(m, e).b)
        /\ Answered(m, e).b.answer[c] = "FILL"
    <3>1. e.cmd \in Commands /\ e.status = "FILL"
      BY <2>4 DEF Grows
    <3>2. SameHolding(b, Answered(m, e).b)
      BY <2>4, <2>6, <3>1, AnsweredBook, Zenon
    <3>3. Answered(m, e).q = Append(m.q, e) /\ Answered(m, e).b.answer[e.cmd] = "FILL"
      BY <2>4, <2>6, <3>1, AnsweredIs
    <3> QED
      BY <2>4, <2>6, <3>2, <3>3
  <2> QED
    BY <2>1, <2>4, <2>5, <2>7 DEF SameHolding
<1> QED
  BY <1>1, <1>2

\* In a bar whose target was taken an increase is not filled at the open.
LEMMA FillsUnder ==
  ASSUME TypeInv, OutcomeInv, BookInv, pc \in Simulating, NEW c \in due, order[c].kind \in Increases,
         broker.answer[c] # "CANCEL", NEW t, t = cursor + 1, ~Expired(c, t), Taken(t), trade.phase \in Manageable
  PROVE  bars[t].open > Limit(c)
<1>1. broker.answer[c] = "ACK" /\ c \in Commands
  BY SimulationStarts, DueWaits
<1>2. c \in Of(WaitsIn(broker, due), Increases)
  BY <1>1 DEF Of, WaitsIn
<1>3. Blocked(c, broker.since[c], t)
  BY <1>2 DEF BookInv, AgainOK
<1>4. broker.since[c] <= t /\ broker.since[c] \in Nat /\ t \in Nat
  BY <1>1, SimulationStarts DEF BookInv, SinceOK, TypeInv, BrokerOK, BrokerType
<1> QED
  BY <1>3, <1>4 DEF Blocked, Expired

LEMMA FillAtOpenBook ==
  ASSUME TypeInv, TypeInv', OutcomeInv, BookInv, NEW c \in Commands, FillAtOpen(c)
  PROVE  BookInv'
<1>1. /\ pc = "opens" /\ pc \in Simulating /\ pc' \in Simulating /\ c \in due /\ Of(due, Exits) = {} /\ Simulates
      /\ broker.answer[c] # "CANCEL"
  BY DEF FillAtOpen, Simulates, Simulating
<1>2. PICK t : t = cursor + 1
  OBVIOUS
<1>3. PICK price : price = bars[t].open
  OBVIOUS
<1>4. PICK n : n = Increased(Sim, c, t, price, 0)
  OBVIOUS
<1>5. order[c].kind \in Increases
  BY <1>1, OnlyIncreases
<1>6. /\ t \in Nat /\ price \in Nat /\ 0 \in Nat /\ 0 <= t /\ SimOK(Sim) /\ Sim.b = broker /\ Sim.q = queue
      /\ Sim.b.answer[c] = "ACK" /\ order[c].size \in Nat /\ cursor \in Nat
  <2>1. cursor \in Nat
    BY DEF TypeInv
  <2> QED
    BY <1>1, <1>2, <1>3, <1>5, <2>1, SimulationStarts, DueWaits
<1>7. ~(Taken(t) /\ trade.phase \in Manageable)
  <2> SUFFICES ASSUME Taken(t), trade.phase \in Manageable PROVE FALSE
    OBVIOUS
  <2>1. bars[t].open > Limit(c)
    BY <1>1, <1>2, <1>5, FillsUnder DEF FillAtOpen
  <2>2. price <= Limit(c) /\ Limit(c) \in Nat
    BY <1>2, <1>3, PricesAssumption DEF Limit, FillAtOpen
  <2> QED
    BY <1>3, <1>6, <2>1, <2>2
<1>8. /\ RowsOK /\ BarOK(Sim, due) /\ OnRoad(Sim.b, Sim.q, due) /\ RoomOK(Sim.b, Sim.q, due) /\ due \in SUBSET Commands
      /\ BeforeOK(broker, queue)
  BY <1>1, StageStarts
<1>9. OnRoad(n.b, n.q, due \ {c})
  BY <1>1, <1>2, <1>4, <1>5, <1>6, <1>7, <1>8, IncreasedOn
<1>10. SimOK(n) /\ n.b.sched = broker.sched
  <2>1. PICK m : m = 0
    OBVIOUS
  <2>2. n = Increased(Sim, c, t, price, m) /\ m \in Nat
    BY <1>4, <2>1
  <2>3. t \in Nat /\ price \in Nat /\ SimOK(Sim) /\ order[c].size \in Nat
    BY <1>6
  <2>6. PICK s : s = Sim
    OBVIOUS
  <2>4. SimOK(Increased(Sim, c, t, price, m)) /\ Increased(Sim, c, t, price, m).b.sched = Sim.b.sched
    <3>1. \A opened \in Nat : SimOK(Increased(s, c, t, price, opened)) /\ Increased(s, c, t, price, opened).b.sched = s.b.sched
      BY <1>5, <2>3, <2>6, IncreasedOK
    <3> QED
      BY <2>2, <2>6, <3>1
  <2>5. n.b.sched = Sim.b.sched /\ SimOK(n)
    BY <2>2, <2>4
  <2> QED
    BY <1>6, <2>5
<1>11. BeforeOK(n.b, n.q)
  <2>1. CASE n = Answered(Sim, Event(c, "REJECT", 0, t, 0))
    <3>1. PICK e : e = Event(c, "REJECT", 0, t, 0)
      OBVIOUS
    <3>2. EventOK(e) /\ e.cmd = c /\ ~Grows(e)
      <4>1. e.status = "REJECT" /\ e.cmd = c
        BY <3>1 DEF Event
      <4>2. EventOK(e)
        BY <1>5, <1>6, <3>1 DEF EventOK, Event, EventType, Kinds
      <4> QED
        BY <4>1, <4>2 DEF Grows
    <3>3. Steady(Sim, n)
      BY <1>6, <2>1, <3>1, <3>2, SteadyAnswered
    <3> QED
      BY <1>6, <1>8, <3>3, SteadyKeeps
  <2>2. ASSUME NEW e, n.q = Append(queue, e), EventOK(e), Grows(e), e.cmd = c, n.b.opened = 0
        PROVE  BeforeOK(n.b, n.q)
    <3>1. queue \in Seq(EventType) /\ e \in EventType
      BY <1>6, <2>2, FieldsAre DEF EventsOK, EventOK
    <3>2. /\ Len(n.q) = Len(queue) + 1 /\ n.q[Len(queue) + 1] = e /\ Len(queue) \in Nat
          /\ \A i \in 1..Len(queue) : n.q[i] = queue[i]
      BY <2>2, <3>1
    <3>3. \A i \in 1..Len(n.q) : i \in 1..Len(queue) \/ i = Len(queue) + 1
      BY <3>2
    <3>4. Len(n.q) \in 1..Len(n.q) /\ n.q[Len(n.q)] = e
      BY <3>2
    <3>5. e.cmd # TargetHit
      BY <2>2, OwnIds
    <3>6. \A i \in 1..Len(n.q) : n.q[i].cmd # TargetHit
      BY <1>8, <3>2, <3>3, <3>5 DEF BeforeOK
    <3>7. ~(\A i \in 1..Len(n.q) : ~Grows(n.q[i]))
      BY <2>2, <3>4
    <3> QED
      BY <1>2, <1>6, <1>7, <2>2, <3>6, <3>7 DEF BeforeOK
  <2> QED
    BY <1>4, <1>5, <1>6, <2>1, <2>2, IncreasedIs
<1>12. Becomes(n) /\ due' = due \ {c} /\ due \ {c} \subseteq due
  BY <1>2, <1>3, <1>4 DEF FillAtOpen
<1> QED
  BY <1>1, <1>9, <1>10, <1>11, <1>12, StageBook DEF Becomes

LEMMA FillAtLimitBook ==
  ASSUME TypeInv, TypeInv', OutcomeInv, OneOpenIncrease, BookInv, NEW c \in Commands, FillAtLimit(c)
  PROVE  BookInv'
<1> USE DEF FillAtLimit
<1>1. /\ pc = "limits" /\ pc \in Simulating /\ pc' \in Simulating /\ pc' = pc /\ c \in due /\ Simulates
      /\ broker.answer[c] # "CANCEL"
  BY DEF Simulates, Simulating
<1>2. PICK t : t = cursor + 1
  OBVIOUS
<1>3. PICK price : price = Limit(c)
  OBVIOUS
<1>4. PICK filled : filled = Increased(Sim, c, t, price, t)
  OBVIOUS
<1>5. PICK left : left = due \ {c}
  OBVIOUS
<1>6. PICK low : low = bars[t].low
  OBVIOUS
<1>7. PICK n : n = IF filled.b.answer[c] = "REJECT" THEN filled ELSE StopOut(filled, left, t, low)
  OBVIOUS
<1>8. \A x \in due : order[x].kind \in Increases
  BY <1>1 DEF TypeInv, StepOK
<1>9. /\ t \in Nat /\ t <= t /\ price \in Nat /\ SimOK(Sim) /\ Sim.b = broker /\ Sim.q = queue
      /\ Sim.b.answer[c] = "ACK" /\ order[c].size \in Nat /\ order[c].size > 0 /\ bars[t].open \in Nat
      /\ order[c].kind \in Increases
  <2>1. price \in Nat
    BY <1>3, PricesAssumption DEF Limit
  <2> QED
    BY <1>1, <1>2, <1>8, <2>1, SimulationStarts, DueWaits
<1>10. Taken(t) /\ trade.phase \in Manageable => price # bars[t].open
  <2> SUFFICES ASSUME Taken(t), trade.phase \in Manageable PROVE price # bars[t].open
    OBVIOUS
  <2>1. bars[t].open > Limit(c)
    BY <1>1, <1>2, <1>9, FillsUnder
  <2> QED
    BY <1>3, <1>9, <2>1
<1>11. /\ RowsOK /\ BarOK(Sim, due) /\ OnRoad(Sim.b, Sim.q, due) /\ RoomOK(Sim.b, Sim.q, due) /\ due \in SUBSET Commands
  BY <1>1, StageStarts
<1>12. OnRoad(filled.b, filled.q, left)
  BY <1>1, <1>2, <1>4, <1>5, <1>9, <1>10, <1>11, IncreasedOn
<1>13. SimOK(filled)
  BY <1>4, <1>9, IncreasedOK
<1>14. Follows(Sim, due, filled, left)
  BY <1>1, <1>4, <1>5, <1>9, <1>11, IncreasedFollows
<1>15. left \in SUBSET Commands /\ left \subseteq due /\ \A x \in left : order[x].kind \in Kinds
  BY <1>5, <1>8, <1>11 DEF Kinds
<1>16. LET m == StopOut(filled, left, t, low) IN OnRoad(m.b, m.q, left)
  BY <1>1, <1>2, <1>11, <1>12, <1>13, <1>14, <1>15, StopOutOn DEF Follows
<1>17. SimOK(StopOut(filled, left, t, low))
  BY <1>9, <1>13, <1>15, StopOutOK
<1>18. OnRoad(n.b, n.q, left) /\ SimOK(n)
  BY <1>7, <1>12, <1>13, <1>16, <1>17
<1>19. broker' = n.b /\ queue' = n.q /\ due' = left
  BY <1>2, <1>3, <1>4, <1>5, <1>6, <1>7 DEF Becomes
<1> QED
  BY <1>1, <1>15, <1>18, <1>19, StageBook

\* The bar looks at the target: it has not been taken, and no increase that waits
\* could still be filled at its open.
LEMMA TargetOpen ==
  ASSUME TypeInv, OutcomeInv, BookInv, pc \in Simulating, pc # "limits", NEW t, t = cursor + 1,
         \A c \in due : broker.answer[c] = "CANCEL" \/ Expired(c, t) \/ bars[t].open > Limit(c),
         broker.qty > 0, broker.taken < Share(broker.entered), broker.opened # t \/ broker.paid = bars[t].open
  PROVE  MayTake(queue)
<1>0. /\ RowsOK /\ KnownOK /\ ClockOK /\ HoldsOK(broker, Stream) /\ TargetOK /\ SinceOK
      /\ BeforeOK(broker, queue) /\ Stream = queue /\ \A c \in broker.sched : broker.since[c] > cursor + 1
  BY StageStarts DEF BookInv
<1>1. trade.phase \notin Finished /\ broker.known /\ pc \notin {"down", "confirm"}
  BY <1>0 DEF HoldsOK, Zero, Simulating
<1>2. trade.phase \in Phases /\ cursor \in Nat /\ t \in Nat /\ broker.taken \in Nat /\ broker.opened \in Nat
  BY SimulationStarts DEF TypeInv, TradeType, BrokerOK, BrokerType
<1>3. trade.phase # "none"
  BY <1>0, <1>1 DEF KnownOK
<1>4. trade.phase \in Live
  BY <1>1, <1>2, <1>3 DEF Live, Phases
<1>5. \A i \in 1..Len(queue) : queue[i].cmd # TargetHit
  BY <1>0 DEF BeforeOK
<1>6. ~Taken(t)
  <2> SUFFICES ASSUME Taken(t) PROVE FALSE
    OBVIOUS
  <2>1. trade.phase \in Manageable
    BY <1>0, <1>2, <1>4, TakenIs DEF Live, Unopened
  <2>2. \A i \in 1..Len(queue) : ~Grows(queue[i])
    BY <1>0, <2>1 DEF BeforeOK
  <2>3. /\ broker.entered = trade.entered /\ broker.taken = trade.taken
        /\ trade.increased = t => broker.opened = trade.increased /\ broker.paid = trade.paid
    BY <1>0, <1>1, <2>1, <2>2 DEF BeforeOK
  <2>4. Boundary + 1 = t
    BY <1>0, <1>1, <2>1 DEF ClockOK
  <2>5. \/ trade.taken >= Share(trade.entered)
        \/ trade.increased = t /\ trade.paid # bars[t].open
    BY <1>0, <2>1, <2>4 DEF TargetOK, TakenOK
  <2>6. ~(trade.taken >= Share(trade.entered))
    <3>1. PICK m : m = Share(broker.entered)
      OBVIOUS
    <3>2. m \in Int
      BY <3>1 DEF TypeInv, BrokerOK, BrokerType, Share
    <3> QED
      BY <1>2, <2>3, <3>1, <3>2
  <2> QED
    BY <2>3, <2>5, <2>6
<1>7. ASSUME NEW c \in Of(Accepted, Increases)
      PROVE  Blocked(c, order[c].since, t) \/ c \in Told(queue)
  <2>1. c \in Commands /\ c \in Accepted /\ order[c].kind \in Increases /\ order[c].kind # "MOVESTOP"
    BY DEF Of, Accepted, Increases
  <2>2. c \in WaitsIn(broker, due) \/ c \in Told(queue)
    BY <1>0, <1>1, <1>4, <2>1 DEF OutcomeInv, AttendedOK
  <2>3. ASSUME c \in WaitsIn(broker, due) PROVE Blocked(c, order[c].since, t)
    <3>1. broker.since[c] = order[c].since /\ broker.since[c] \in Nat
      BY <1>0, <2>1, <2>3 DEF SinceOK, TypeInv, BrokerOK, BrokerType
    <3>2. CASE c \in broker.sched
      BY <1>0, <3>1, <3>2 DEF Blocked
    <3>3. CASE c \in due
      <4>1. Expired(c, t) \/ bars[t].open > Limit(c)
        BY <2>3, <3>3 DEF WaitsIn
      <4> QED
        BY <3>1, <4>1 DEF Expired, Blocked
    <3> QED
      BY <2>3, <3>2, <3>3 DEF WaitsIn
  <2> QED
    BY <2>2, <2>3
<1> QED
  BY <1>5, <1>6, <1>7 DEF MayTake

LEMMA ProtectionBook ==
  ASSUME TypeInv, TypeInv', OutcomeInv, OneOpenIncrease, BookInv, Protection
  PROVE  BookInv'
<1>1. pc = "opens" /\ pc \in Simulating /\ pc # "limits" /\ pc' \in Simulating /\ pc' = "limits" /\ Simulates
  BY DEF Protection, Simulates, Simulating
<1>2. PICK t : t = cursor + 1
  OBVIOUS
<1>3. PICK bar : bar = bars[t]
  OBVIOUS
<1>4. PICK n : n = Protected(Sim, due, t, bar)
  OBVIOUS
<1>5. \A c \in due : broker.answer[c] = "CANCEL" \/ Expired(c, t) \/ bars[t].open > Limit(c)
  BY <1>2 DEF Protection
<1>6. Becomes(n) /\ due' = due
  BY <1>2, <1>3, <1>4 DEF Protection
<1>7. t \in Nat /\ SimOK(Sim) /\ Sim.b = broker /\ Sim.q = queue
  BY <1>1, <1>2, SimulationStarts
<1>8. /\ RowsOK /\ BarOK(Sim, due) /\ RoomOK(Sim.b, Sim.q, due) /\ OnRoad(Sim.b, Sim.q, due)
      /\ due \in SUBSET Commands /\ \A c \in due : order[c].kind \in Kinds
  BY <1>1, StageStarts
<1>9. broker.qty > 0 /\ broker.taken < Share(broker.entered) /\ (broker.opened # t \/ broker.paid = bar.open)
        => MayTake(queue)
  BY <1>1, <1>2, <1>3, <1>5, TargetOpen
<1>10. Sim.b.qty > 0 /\ Sim.b.taken < Share(Sim.b.entered) /\ (Sim.b.opened # t \/ Sim.b.paid = bar.open)
         => MayTake(Sim.q)
  BY <1>7, <1>9
<1>11. OnRoad(n.b, n.q, due)
  BY <1>1, <1>2, <1>4, <1>7, <1>8, <1>10, ProtectedOn
<1>12. SimOK(n)
  BY <1>4, <1>7, <1>8, ProtectedOK
<1> QED
  BY <1>1, <1>6, <1>11, <1>12, StageBook DEF Becomes

-----------------------------------------------------------------------------
(* Every step.                                                             *)

LEMMA StutterBook ==
  ASSUME TypeInv, OutcomeInv, BookInv, UNCHANGED vars
  PROVE  BookInv'
<1> USE DEF vars, journal, memory
<1>0. /\ Stream' = Stream /\ (Outside' <=> Outside) /\ Reached' = Reached /\ trade' = trade
      /\ \A e : /\ (Grows(e)' <=> Grows(e)) /\ (Reduces(e)' <=> Reduces(e)) /\ (Applied(e)' <=> Applied(e))
                /\ Kind(e.cmd)' = Kind(e.cmd) /\ Basis(e.cmd)' = Basis(e.cmd)
  BY DEF Stream, Outside, Reached, Grows, Reduces, Applied, ExecutionId, Kind, Basis
<1>1. RoadOK'
  <2>1. \A k, l : Alike(k, l)' <=> Alike(k, l)
    BY DEF Alike, StopKept, RevKept
  <2>2. ASSUME NEW e, NEW k PROVE (Takes(e, k)' <=> Takes(e, k)) /\ Turned(e, k)' = Turned(e, k)
    <3>1. /\ (Grows(e)' <=> Grows(e)) /\ (Reduces(e)' <=> Reduces(e)) /\ Kind(e.cmd)' = Kind(e.cmd)
          /\ Basis(e.cmd)' = Basis(e.cmd) /\ order'[e.cmd].level = order[e.cmd].level
      BY <1>0
    <3>2. Takes(e, k)' <=> Takes(e, k)
      BY <3>1 DEF Takes
    <3>3. Turned(e, k)' = Turned(e, k)
      BY <3>1 DEF Turned
    <3> QED
      BY <3>2, <3>3
  <2>3. \A x : Pending(x)' = Pending(x)
    BY <1>0 DEF Pending
  <2>4. ASSUME NEW p, NEW x, NEW b, Leads(p, x, b) PROVE Leads(p, x, b)'
    <3>1. \A i \in 0..Reached : Alike(p[i], trade)
      BY <2>4 DEF Leads
    <3>2. PICK k : k = trade
      OBVIOUS
    <3>3. \A i \in (0..Reached)' : Alike(p[i], k)'
      BY <1>0, <2>1, <3>1, <3>2
    <3>4. \A i \in (0..Reached)' : Alike(p[i], trade)'
      BY <1>0, <3>2, <3>3
    <3> QED
      BY <1>0, <2>1, <2>2, <2>3, <2>4, <3>4 DEF Leads
  <2>5. PICK b, x : b = broker /\ x = Stream
    OBVIOUS
  <2>6. Road(b, x) => Road(b, x)'
    BY <2>4 DEF Road
  <2>7. (b.known => Alike(trade, b)) => (b.known => Alike(trade, b)')
    <3>1. PICK k : k = trade
      OBVIOUS
    <3>2. Alike(k, b)' <=> Alike(k, b)
      BY <2>1
    <3> QED
      BY <1>0, <3>1, <3>2
  <2>8. broker' = b /\ Stream' = x
    BY <1>0, <2>5
  <2> QED
    BY <1>0, <2>5, <2>6, <2>7, <2>8 DEF BookInv, RoadOK
<1>2. HoldsOK(broker, Stream)' /\ RowsOK' /\ KnownOK' /\ ClockOK' /\ OwnOK(broker, Stream)'
  BY DEF BookInv, HoldsOK, Zero, Of, Stream, RowsOK, Unopened, KnownOK, ClockOK, Boundary, Behind, OwnOK
<1>3. TargetOK' /\ AgainOK(broker, due)'
  <2>1. Boundary' = Boundary
    BY DEF Boundary
  <2>2. \A c, since, t : Blocked(c, since, t)' <=> Blocked(c, since, t)
    BY DEF Blocked, Limit
  <2>3. PICK t : t = Boundary + 1
    OBVIOUS
  <2>4. TakenOK(t) => TakenOK(t)'
    BY <2>2 DEF TakenOK, Taken, Of, Accepted
  <2>5. TargetOK'
    BY <2>1, <2>3, <2>4 DEF BookInv, TargetOK
  <2>6. AgainOK(broker, due)'
    BY DEF BookInv, AgainOK, Taken, Of, WaitsIn, Blocked, Limit
  <2> QED
    BY <2>5, <2>6
<1>5. TargetsIn(Stream)'
  <2>1. PICK x : x = Stream
    OBVIOUS
  <2>2. TargetsIn(x)
    BY <2>1 DEF BookInv
  <2>3. TargetsIn(x)'
    BY <1>0, <2>2 DEF TargetsIn, Taken, Blocked, Limit, Of, Accepted
  <2> QED
    BY <1>0, <2>1, <2>3
<1>4. SinceOK' /\ StagesOK'
  BY DEF BookInv, SinceOK, StagesOK, Before, Behind, BeforeOK, Taken, Of, Accepted, WaitsIn, Grows, Kind
<1> QED
  BY <1>1, <1>2, <1>3, <1>4, <1>5 DEF BookInv

LEMMA NextBook ==
  ASSUME TypeInv, TypeInv', OutcomeInv, OneOpenIncrease, BookInv, Next
  PROVE  BookInv'
<1>1. CASE \E b \in Bars : BarCloses(b)
  BY <1>1, BarClosesBook
<1>2. CASE StepBegins \/ WithdrawEnds \/ WithdrawFails \/ StepEnds
  BY <1>2, StepsOnBook
<1>3. CASE WithdrawMark \/ \E c \in Commands : WithdrawCancel(c)
  BY <1>3, MarksBook, WithdrawCancelBook
<1>4. CASE TrackBegins \/ Simulation
  BY <1>4, TrackBeginsBook, OpeningBook, ProtectionBook, DrainBook, TakeMoveBook, TakeExitBook,
     FillAtOpenBook, LimitExpiresBook, LimitWaitsBook, FillAtLimitBook DEF Simulation
<1>5. CASE Journalling
  BY <1>5, ConsumeBook, ConsumeAgainBook, ConfirmStopBook, RestartsBook, CommitEndsBook DEF Journalling
<1>6. CASE Deciding
  BY <1>6, SubmitsBook DEF Deciding
<1>7. CASE Delivering
  BY <1>7, DeliverBook, MarksBook, ConsumeAnswerBook, AnswerFailsBook, DrainQueueBook DEF Delivering
<1>8. CASE Crash \/ Recover
  BY <1>8, CrashBook, RecoverBook
<1> QED
  BY <1>1, <1>2, <1>3, <1>4, <1>5, <1>6, <1>7, <1>8 DEF Next

LEMMA BookInvCorrect == Spec => [](TypeInv /\ OutcomeInv /\ BookInv)
<1>1. Init => BookInv
  BY InitBook
<1>2. TypeInv /\ TypeInv' /\ OutcomeInv /\ OneOpenIncrease /\ BookInv /\ [Next]_vars => BookInv'
  BY NextBook, StutterBook
<1> QED
  BY <1>1, <1>2, OutcomeInvCorrect, OneOpenIncreaseCorrect, PTL DEF Spec

\* The journal never takes from a position more than it holds, nor beyond the
\* target's share: of a batch that was written in part, torn by a death, or begun
\* again after a failure, the next event is still one the reducer accepts
\* (ExecutionReducer.apply_fill, _update_target).
THEOREM NeverOversoldCorrect == Spec => []NeverOversold
<1>1. TypeInv /\ OutcomeInv /\ BookInv => NeverOversold
  <2> SUFFICES ASSUME TypeInv, OutcomeInv, BookInv, HasNext, ~Applied(Upcoming), Reduces(Upcoming)
               PROVE  /\ Upcoming.qty <= trade.qty
                      /\ Upcoming.cmd = TargetHit => trade.taken + Upcoming.qty <= Share(trade.entered)
    BY DEF NeverOversold, Held
  <2>1. Takes(Upcoming, Book(trade))
    BY UpcomingTakes
  <2> QED
    BY <2>1 DEF Takes, Book
<1> QED
  BY <1>1, BookInvCorrect, PTL

\* Whenever nothing is on its way between them, the broker's book and the journal
\* agree, after any death, failed write and bar that was simulated again
\* (resume_trade, JournalBroker): position, entered and taken contracts always,
\* revision and stop unless a failure came between an execution's two writes or
\* before an answer was written; and nothing of a finished trade is left to fill.
THEOREM BookAgreesCorrect == Spec => []BookAgrees
<1>1. TypeInv /\ OutcomeInv /\ BookInv => BookAgrees
  <2> SUFFICES ASSUME TypeInv, OutcomeInv, BookInv, Settled PROVE BookAgrees
    BY DEF BookAgrees
  <2>1. Outside /\ pc # "down" /\ pc \notin {"sent", "answer"}
    BY DEF Settled, Outside, Simulating
  <2>2. ASSUME trade.phase \in Live
        PROVE  /\ broker.known
               /\ broker.qty = trade.qty /\ broker.entered = trade.entered /\ broker.taken = trade.taken
               /\ cut \cap {"stop", "answer"} = {} => broker.rev = trade.rev /\ broker.stop = trade.stop
    <3>1. broker.known
      BY <2>1, <2>2 DEF BookInv, KnownOK
    <3>2. Alike(trade, broker)
      BY <2>1, <3>1 DEF BookInv, RoadOK
    <3> QED
      BY <2>1, <2>2, <3>1, <3>2 DEF Alike, StopKept, RevKept
  <2>3. ASSUME trade.phase \in Finished
        PROVE  trade.qty = 0 /\ broker.qty = 0 /\ Of(broker.sched, Increases) = {}
    <3>1. trade.qty = 0 /\ broker.qty = 0
      BY <2>3 DEF OutcomeInv, JournalOK, BookInv, HoldsOK
    <3>2. ASSUME NEW c \in Of(broker.sched, Increases) PROVE FALSE
      <4>1. c \in Of(WaitsIn(broker, due), Increases)
        BY DEF OutcomeInv, MemoryOK, WaitsOK, Of, WaitsIn
      <4> QED
        BY <2>3, <4>1 DEF OutcomeInv, RoomOK, Room, Past
    <3> QED
      BY <3>1, <3>2
  <2> QED
    BY <2>2, <2>3 DEF BookAgrees
<1> QED
  BY <1>1, BookInvCorrect, PTL

-----------------------------------------------------------------------------
(* What a bar has looked at.                                               *)

\* Behind the protection of bar t: what is held is above its stop, and the
\* target's share is taken unless the position grew inside the bar.
Guarded(b, q, t) ==
  /\ b.qty > 0 => bars[t].low > b.stop
  /\ b.qty > 0 /\ bars[t].high >= TargetPrice =>
       \/ b.taken >= Share(b.entered) \/ trade.increased = t
       \/ \E i \in 1..Len(q) : Grows(q[i])
BehindOK == Behind => Guarded(broker, Stream, cursor + 1)

\* The same of the bar observed last, until an execution follows it.
ObservedOK ==
  trade.phase \in Manageable /\ trade.executed <= trade.observed =>
    /\ trade.observed > 0
    /\ "stop" \notin cut => bars[trade.observed].low > trade.stop
    /\ bars[trade.observed].high >= TargetPrice /\ trade.increased # trade.observed =>
         trade.taken >= Share(trade.entered)

\* The journal knows the latest of its increases, and observes no bar ahead.
GrownOK == \A x \in applied : x[2] = "FILL" /\ x[1] \in Commands => x[3] \in 0..trade.increased
SeenOK == pc # "down" => trade.observed <= cursor

GuardInv == BehindOK /\ ObservedOK /\ GrownOK /\ SeenOK

\* What the observed bar is compared with stays.
SameLook ==
  /\ trade'.phase \in Manageable => trade.phase \in Manageable
  /\ trade'.executed = trade.executed /\ trade'.observed = trade.observed /\ trade'.stop = trade.stop
  /\ trade'.increased = trade.increased /\ trade'.taken = trade.taken /\ trade'.entered = trade.entered

LEMMA GuardStays ==
  ASSUME TypeInv, TypeInv', BookInv, GuardInv, SameLook, BarsKept, cut \subseteq cut',
         \A x \in applied' \ applied : x[2] # "FILL",
         pc' # "down" => pc # "down" /\ cursor' = cursor,
         BehindOK'
  PROVE  GuardInv'
<1>1. PICK o : o = trade.observed
  OBVIOUS
<1>2. ObservedOK'
  <2> SUFFICES ASSUME trade'.phase \in Manageable, trade'.executed <= trade'.observed
               PROVE  /\ o > 0
                      /\ "stop" \notin cut' => bars'[o].low > trade.stop
                      /\ bars'[o].high >= TargetPrice /\ trade.increased # o => trade.taken >= Share(trade.entered)
    BY <1>1 DEF ObservedOK, SameLook
  <2>1. /\ o > 0
        /\ "stop" \notin cut => bars[o].low > trade.stop
        /\ bars[o].high >= TargetPrice /\ trade.increased # o => trade.taken >= Share(trade.entered)
    BY <1>1 DEF GuardInv, ObservedOK, SameLook
  <2>2. o \in 1..Len(bars)
    BY <1>1, <2>1, ClockIs DEF BookInv
  <2>3. bars'[o] = bars[o]
    BY <2>2 DEF BarsKept
  <2> QED
    BY <2>1, <2>3
<1>3. GrownOK'
  BY DEF GuardInv, GrownOK, SameLook
<1>4. SeenOK'
  BY DEF GuardInv, SeenOK, SameLook
<1> QED
  BY <1>2, <1>3, <1>4 DEF GuardInv

LEMMA BehindStays ==
  ASSUME TypeInv, OutcomeInv, BookInv, GuardInv, BarsKept,
         Behind' => /\ Behind /\ RowsSame /\ broker' = broker /\ Stream' = Stream /\ cursor' = cursor
                    /\ trade'.increased = trade.increased
  PROVE  BehindOK'
<1> SUFFICES ASSUME Behind' PROVE Guarded(broker, Stream, cursor + 1)'
  BY DEF BehindOK
<1>1. PICK b, q, t : b = broker /\ q = Stream /\ t = cursor + 1
  OBVIOUS
<1>2. Guarded(b, q, t)
  BY <1>1 DEF GuardInv, BehindOK
<1>3. t \in 1..Len(bars)
  BY <1>1, ClockIs DEF BookInv, ClockOK
<1>4. bars'[t] = bars[t]
  BY <1>3 DEF BarsKept
<1>5. EventsOK(q) /\ RowsSame
  BY <1>1, StreamIs
<1>6. \A i \in 1..Len(q) : EventOK(q[i])
  BY <1>5 DEF EventsOK
<1>7. \A i \in 1..Len(q) : Grows(q[i])' <=> Grows(q[i])
  BY <1>5, <1>6, SameEvents
<1>8. Guarded(b, q, t)'
  BY <1>2, <1>4, <1>7 DEF Guarded
<1> QED
  BY <1>1, <1>8

\* The bar runs, and nothing is behind the protection yet.
LEMMA AheadGuard ==
  ASSUME TypeInv, TypeInv', BookInv, GuardInv, SameLook, BarsKept, cut \subseteq cut', applied' = applied,
         ~Behind', pc' # "down" => pc # "down" /\ cursor' = cursor
  PROVE  GuardInv'
<1>1. BehindOK'
  BY DEF BehindOK
<1> QED
  BY <1>1, GuardStays

-----------------------------------------------------------------------------
(* Steps that look at no bar.                                              *)

LEMMA QuietGuard ==
  ASSUME TypeInv, TypeInv', OutcomeInv, BookInv, GuardInv, trade' = trade, applied' = applied, BarsKept, cut \subseteq cut',
         pc' # "down" => pc # "down" /\ cursor' = cursor,
         Behind' => Behind /\ RowsSame /\ broker' = broker /\ Stream' = Stream /\ cursor' = cursor
  PROVE  GuardInv'
<1>1. BehindOK'
  BY BehindStays
<1>2. SameLook
  BY DEF SameLook
<1> QED
  BY <1>1, <1>2, GuardStays

LEMMA InitGuard ==
  ASSUME Init
  PROVE  GuardInv
<1>1. trade.phase = "none" /\ trade.observed = 0 /\ applied = {} /\ pc = "idle" /\ batch = <<>> /\ cursor = 0
  BY DEF Init, NoTrade
<1>2. ~Behind
  BY <1>1 DEF Behind
<1> QED
  BY <1>1, <1>2 DEF GuardInv, BehindOK, ObservedOK, GrownOK, SeenOK, Manageable

LEMMA StutterGuard ==
  ASSUME TypeInv, OutcomeInv, BookInv, GuardInv, UNCHANGED vars
  PROVE  GuardInv'
<1> USE DEF vars, journal, memory
<1>1. RowsSame /\ BarsKept /\ Stream' = Stream /\ (Behind' <=> Behind) /\ trade' = trade
  BY RowsAsWere DEF RowsSame, Stream, Behind
<1>2. BehindOK'
  BY <1>1, BehindStays
<1> QED
  BY <1>1, <1>2 DEF GuardInv, ObservedOK, GrownOK, SeenOK

LEMMA StepsGuard ==
  ASSUME TypeInv, TypeInv', OutcomeInv, BookInv, GuardInv, StepBegins \/ WithdrawEnds \/ WithdrawFails \/ StepEnds
  PROVE  GuardInv'
<1>1. /\ UNCHANGED <<bars, trade, order, applied, broker, queue, due, batch, done, cursor, cut>>
      /\ pc \in {"idle", "withdraw", "work"} /\ pc' \in {"idle", "withdraw", Executes}
      /\ pc = "work" => batch = <<>> /\ pc' = "idle"
  BY DEF StepBegins, WithdrawEnds, WithdrawFails, StepEnds, journal, memory, OutcomeInv, PlaceOK, Decides
<1>2. RowsSame /\ BarsKept /\ Stream' = Stream
  BY <1>1, RowsAsWere DEF RowsSame, Stream
<1>3. Behind' => Behind
  BY <1>1 DEF Behind, Executes
<1>4. pc # "down"
  BY <1>1
<1> QED
  BY <1>1, <1>2, <1>3, <1>4, QuietGuard

LEMMA BarClosesGuard ==
  ASSUME TypeInv, TypeInv', OutcomeInv, BookInv, GuardInv, NEW b, BarCloses(b)
  PROVE  GuardInv'
<1>1. /\ UNCHANGED <<trade, order, applied, broker, queue, due, batch, done, cursor, pc, cut>>
      /\ bars' = Append(bars, b) /\ bars \in Seq(Bars)
  BY DEF BarCloses, journal, memory, TypeInv
<1>2. BarsKept
  BY <1>1 DEF BarsKept
<1>3. RowsSame /\ Stream' = Stream /\ (Behind' <=> Behind)
  BY <1>1 DEF RowsSame, Stream, Behind
<1> QED
  BY <1>1, <1>2, <1>3, QuietGuard

LEMMA MarksGuard ==
  ASSUME TypeInv, TypeInv', OutcomeInv, BookInv, GuardInv, WithdrawMark \/ MarkSent
  PROVE  GuardInv'
<1>1. order \in [Commands -> OrderType] /\ (pc = "sent" => inflight.cmd \in Commands)
  BY DEF TypeInv, OrdersOK, InflightOK
<1>2. /\ UNCHANGED <<bars, trade, applied, broker, queue, due, batch, done, cursor, cut>>
      /\ pc \notin {"limits", "commit", "confirm", "down"} /\ pc' \notin {"limits", "commit", "confirm", "down"}
  BY DEF WithdrawMark, MarkSent, memory
<1>3. RowsSame
  <2>1. CASE WithdrawMark
    BY <1>1, <2>1 DEF WithdrawMark, RowsSame, OrderType
  <2>2. CASE MarkSent
    BY <1>1, <2>2 DEF MarkSent, RowsSame, OrderType
  <2> QED
    BY <2>1, <2>2
<1>4. BarsKept
  BY <1>2 DEF BarsKept
<1>5. Stream' = Stream /\ (Behind' <=> Behind)
  BY <1>2 DEF Stream, Behind
<1> QED
  BY <1>2, <1>3, <1>4, <1>5, QuietGuard

LEMMA RestartsGuard ==
  ASSUME TypeInv, TypeInv', OutcomeInv, BookInv, GuardInv, Refused \/ CommitFails \/ ConsumeAgain
  PROVE  GuardInv'
<1>1. /\ UNCHANGED <<bars, trade, order, applied, broker, queue, due, batch, cursor>>
      /\ pc \in {"commit", "confirm"} /\ pc' # "down" /\ cut \subseteq cut'
  BY DEF Refused, CommitFails, ConsumeAgain, HasNext, journal
<1>2. RowsSame /\ BarsKept /\ Stream' = Stream /\ Behind
  BY <1>1, RowsAsWere DEF RowsSame, Stream, Behind
<1> QED
  BY <1>1, <1>2, QuietGuard

LEMMA AnswerFailsGuard ==
  ASSUME TypeInv, TypeInv', OutcomeInv, BookInv, GuardInv, AnswerFails
  PROVE  GuardInv'
<1>1. /\ UNCHANGED <<bars, trade, order, applied, batch, cursor>> /\ batch = <<>>
      /\ pc # "down" /\ pc' = "work" /\ cut \subseteq cut'
  BY DEF AnswerFails, journal, OutcomeInv, PlaceOK
<1>2. BarsKept /\ ~Behind'
  BY <1>1, RowsAsWere DEF Behind
<1> QED
  BY <1>1, <1>2, QuietGuard

LEMMA CrashGuard ==
  ASSUME TypeInv, TypeInv', OutcomeInv, BookInv, GuardInv, Crash
  PROVE  GuardInv'
<1>1. UNCHANGED <<bars, trade, order, applied>> /\ batch' = <<>> /\ pc' = "down" /\ cut \subseteq cut'
  BY DEF Crash, journal
<1>2. BarsKept /\ ~Behind'
  BY <1>1, RowsAsWere DEF Behind
<1> QED
  BY <1>1, <1>2, QuietGuard

LEMMA RecoverGuard ==
  ASSUME TypeInv, TypeInv', OutcomeInv, BookInv, GuardInv, Recover
  PROVE  GuardInv'
<1>1. /\ UNCHANGED <<bars, trade, applied, batch, cut>> /\ batch = <<>> /\ pc' = "idle" /\ cursor' = Boundary
      /\ trade \in TradeType
  BY DEF Recover, OutcomeInv, PlaceOK, TypeInv
<1>2. ~Behind'
  BY <1>1 DEF Behind
<1>3. trade.observed <= Boundary
  <2>1. trade.executed \in Nat /\ trade.observed \in Nat /\ trade.observed <= Len(bars)
    BY ClockIs DEF BookInv
  <2> QED
    BY <1>1, <2>1, LiveBoundary DEF RestartAt
<1> QED
  BY <1>1, <1>2, <1>3 DEF GuardInv, BehindOK, ObservedOK, GrownOK, SeenOK

LEMMA TrackBeginsGuard ==
  ASSUME TypeInv, TypeInv', OutcomeInv, BookInv, GuardInv, TrackBegins
  PROVE  GuardInv'
<1>1. UNCHANGED <<bars, trade, order, applied, batch, cursor, cut>> /\ batch = <<>> /\ pc = "work" /\ pc' = "moves"
  BY DEF TrackBegins, journal, OutcomeInv, PlaceOK
<1>2. BarsKept /\ ~Behind'
  BY <1>1, RowsAsWere DEF Behind
<1> QED
  BY <1>1, <1>2, QuietGuard

LEMMA StagesGuard ==
  ASSUME TypeInv, TypeInv', OutcomeInv, BookInv, GuardInv,
         Opening \/ \E c \in Commands : TakeMove(c) \/ TakeExit(c) \/ FillAtOpen(c)
  PROVE  GuardInv'
<1>1. UNCHANGED <<bars, trade, order, applied, batch, cursor, cut>> /\ pc \in {"moves", "opens"} /\ pc' \in {"moves", "opens"}
  BY DEF TakeMove, Opening, TakeExit, FillAtOpen, Simulates, journal
<1>2. batch = <<>>
  BY <1>1 DEF OutcomeInv, PlaceOK, Simulating
<1>3. BarsKept /\ ~Behind'
  BY <1>1, <1>2, RowsAsWere DEF Behind
<1> QED
  BY <1>1, <1>3, QuietGuard

LEMMA DrainGuard ==
  ASSUME TypeInv, TypeInv', OutcomeInv, BookInv, GuardInv, Drain
  PROVE  GuardInv'
<1>1. /\ UNCHANGED <<bars, trade, order, applied, broker, cursor, cut>> /\ pc = "limits" /\ pc' = "commit"
      /\ batch' = queue /\ queue' = <<>> /\ batch = <<>>
  BY DEF Drain, journal, OutcomeInv, PlaceOK, Simulating
<1>2. RowsSame /\ BarsKept /\ Behind
  BY <1>1, RowsAsWere DEF RowsSame, Behind
<1>3. Stream' = Stream
  BY <1>1 DEF Stream
<1> QED
  BY <1>1, <1>2, <1>3, QuietGuard

LEMMA SubmitsGuard ==
  ASSUME TypeInv, TypeInv', OutcomeInv, BookInv, GuardInv, NEW c \in Commands,
         \/ SubmitPlan(c) \/ SubmitAdd(c) \/ SubmitClose(c) \/ SubmitReduce(c)
         \/ \E level \in StopLevels : SubmitMove(c, level)
         \/ \E late \in BOOLEAN : SubmitCancel(c, late)
  PROVE  GuardInv'
<1>1. UNCHANGED <<bars, applied, batch, cursor, pc, cut>> /\ pc = "work" /\ trade \in TradeType
  BY DEF SubmitPlan, SubmitAdd, SubmitClose, SubmitReduce, SubmitMove, SubmitCancel, Insert, Decides, TypeInv
<1>2. BarsKept /\ ~Behind'
  BY <1>1 DEF BarsKept, Behind, OutcomeInv, PlaceOK
<1>3. \/ trade' = trade
      \/ trade' = [trade EXCEPT !.phase = "ENTRY_PENDING"]
      \/ trade.phase \in Manageable /\ trade' = [trade EXCEPT !.moving = c]
  BY DEF SubmitPlan, SubmitAdd, SubmitClose, SubmitReduce, SubmitMove, SubmitCancel
<1>4. SameLook
  <2>1. CASE trade' = trade
    BY <2>1 DEF SameLook
  <2>2. CASE trade' = [trade EXCEPT !.phase = "ENTRY_PENDING"]
    BY <1>1, <2>2 DEF SameLook, TradeType, Manageable
  <2>3. CASE trade.phase \in Manageable /\ trade' = [trade EXCEPT !.moving = c]
    BY <1>1, <2>3 DEF SameLook, TradeType
  <2> QED
    BY <1>3, <2>1, <2>2, <2>3
<1> QED
  BY <1>1, <1>2, <1>4, AheadGuard

LEMMA DeliverGuard ==
  ASSUME TypeInv, TypeInv', OutcomeInv, BookInv, GuardInv, NEW c \in Commands, NEW d \in Delays, Deliver(c, d)
  PROVE  GuardInv'
<1>1. UNCHANGED <<bars, trade, applied, batch, cursor, cut>> /\ pc = "work" /\ pc' = "sent"
  BY DEF Deliver, Decides
<1>2. BarsKept /\ ~Behind'
  BY <1>1 DEF BarsKept, Behind, OutcomeInv, PlaceOK
<1> QED
  BY <1>1, <1>2, QuietGuard

-----------------------------------------------------------------------------
(* Steps that journal an event.                                            *)

LEMMA RowsJournalled ==
  ASSUME TypeInv, NEW e, Reducible(e), Apply(e), OrdersReduced(e)
  PROVE  NewTrade(e) /\ RowsSame
<1>1. NewTrade(e) /\ NewOrders(e)
  BY NewTradeIs, NewOrdersAre
<1> QED
  BY <1>1 DEF RowsSame, OrdersReduced, NewOrders

\* What is no fill changes nothing a bar is compared with.
LEMMA AnswersGuard ==
  ASSUME TypeInv, TypeInv', OutcomeInv, BookInv, GuardInv, NEW e, Reducible(e), Apply(e), OrdersReduced(e),
         e.status # "FILL", bars' = bars, cut' = cut, cursor' = cursor, pc # "down", pc' # "down",
         Behind' => Behind /\ broker' = broker /\ Stream' = Stream
  PROVE  GuardInv'
<1>1. NewTrade(e) /\ RowsSame
  BY RowsJournalled
<1>2. SameLook
  BY <1>1 DEF NewTrade, SameLook, Manageable, Finished
<1>3. \A x \in applied' \ applied : x[2] # "FILL"
  BY DEF Apply, ExecutionId
<1>4. BarsKept
  BY DEF BarsKept
<1>5. BehindOK'
  BY <1>1, <1>2, <1>4, BehindStays DEF SameLook
<1> QED
  BY <1>2, <1>3, <1>4, <1>5, GuardStays

LEMMA WithdrawCancelGuard ==
  ASSUME TypeInv, TypeInv', OutcomeInv, BookInv, GuardInv, NEW c \in Commands, WithdrawCancel(c)
  PROVE  GuardInv'
<1>1. PICK e : e = Event(c, "CANCEL", 0, 0, 0)
  OBVIOUS
<1>2. /\ pc = "withdraw" /\ Apply(e) /\ pc' = pc /\ UNCHANGED <<bars, broker, queue, due, batch, cursor, cut>>
      /\ e.status = "CANCEL"
  BY <1>1 DEF WithdrawCancel, memory, Event
<1>3. Handled(e, Stream) /\ OrdersReduced(e)
  BY <1>1, WithdrawCancelOutcome
<1>4. Stream' = Stream /\ (Behind' <=> Behind)
  BY <1>2 DEF Stream, Behind
<1> QED
  BY <1>2, <1>3, <1>4, AnswersGuard DEF Handled

LEMMA ConsumeAnswerGuard ==
  ASSUME TypeInv, TypeInv', OutcomeInv, BookInv, GuardInv, ConsumeAnswer
  PROVE  GuardInv'
<1>1. PICK e : e = inflight
  OBVIOUS
<1>2. pc = "answer" /\ Apply(e) /\ pc' = "work" /\ UNCHANGED <<bars, broker, queue, due, batch, cursor, cut>>
  BY <1>1 DEF ConsumeAnswer
<1>3. Handled(e, queue) /\ OrdersReduced(e)
  BY <1>1, ConsumeAnswerOutcome
<1>4. e.status # "FILL" /\ ~Behind'
  BY <1>1, <1>2 DEF OutcomeInv, FlightOK, PlaceOK, Behind
<1> QED
  BY <1>2, <1>3, <1>4, AnswersGuard DEF Handled

LEMMA DrainQueueGuard ==
  ASSUME TypeInv, TypeInv', OutcomeInv, BookInv, GuardInv, DrainQueue
  PROVE  GuardInv'
<1>1. PICK e : e = Head(queue)
  OBVIOUS
<1>2. pc = "work" /\ Apply(e) /\ pc' = "work" /\ queue # <<>> /\ UNCHANGED <<bars, broker, batch, cursor, cut>>
  BY <1>1 DEF DrainQueue, Decides
<1>3. Handled(e, Tail(queue)) /\ OrdersReduced(e)
  BY <1>1, DrainQueueOutcome
<1>4. Outside /\ ~Behind' /\ Stream = queue
  BY <1>2 DEF OutcomeInv, PlaceOK, Behind, Outside, Stream, Simulating
<1>5. e.status # "FILL"
  <2>1. queue \in Seq(EventType) /\ \A i \in 1..Len(queue) : queue[i].status = "CANCEL"
    BY <1>4, StreamIs DEF EventsOK
  <2>2. e = queue[1] /\ 1 \in 1..Len(queue)
    BY <1>1, <1>2, <2>1
  <2> QED
    BY <2>1, <2>2
<1> QED
  BY <1>2, <1>3, <1>4, <1>5, AnswersGuard DEF Handled

\* An execution of the bar in hand is behind what was observed, and the next
\* observation has to come after it.
LEMMA ExecutesGuard ==
  ASSUME TypeInv, TypeInv', OutcomeInv, BookInv, GuardInv, pc # "down", pc' # "down", cursor' = cursor,
         trade'.observed = trade.observed, trade'.executed = Larger(trade.executed, cursor + 1),
         GrownOK', BehindOK'
  PROVE  GuardInv'
<1>1. trade.observed \in Nat /\ trade.executed \in Nat /\ cursor \in Nat /\ trade.observed <= cursor
  BY ClockIs DEF BookInv, GuardInv, SeenOK
<1>2. trade'.executed > trade'.observed /\ trade'.executed \in Nat
  BY <1>1 DEF Larger
<1>3. ObservedOK'
  BY <1>1, <1>2 DEF ObservedOK
<1>4. SeenOK'
  BY <1>1 DEF SeenOK
<1> QED
  BY <1>3, <1>4 DEF GuardInv

LEMMA ConsumeGuard ==
  ASSUME TypeInv, TypeInv', OutcomeInv, BookInv, GuardInv, Consume
  PROVE  GuardInv'
<1>1. PICK e : e = Upcoming
  OBVIOUS
<1>2. PICK q, b, t : q = batch /\ b = broker /\ t = cursor + 1
  OBVIOUS
<1>3. /\ HasNext /\ ~Applied(Upcoming) /\ Apply(e) /\ pc = "commit" /\ pc' \in {"commit", "confirm"}
      /\ UNCHANGED <<bars, broker, queue, due, batch, cursor, cut>>
  BY <1>1 DEF Consume, HasNext
<1>4. Handled(e, q) /\ OrdersReduced(e)
  BY <1>1, <1>2, ConsumeOutcome
<1>5. NewTrade(e) /\ RowsSame /\ Reducible(e)
  BY <1>3, <1>4, RowsJournalled DEF Handled
<1>6. Stream = q /\ Stream' = q /\ Behind /\ BarsKept /\ EventOK(e) /\ done + 1 \in 1..Len(q) /\ e = q[done + 1]
  <2>1. Stream = batch /\ EventOK(Upcoming) /\ Upcoming = batch[done + 1] /\ Behind /\ done + 1 \in 1..Len(batch)
    BY <1>3, UpcomingIs
  <2>2. Stream' = Stream
    BY <1>3 DEF Stream
  <2> QED
    BY <1>1, <1>2, <1>3, <2>1, <2>2 DEF BarsKept
<1>7. CASE e.status # "FILL"
  BY <1>3, <1>4, <1>5, <1>6, <1>7, AnswersGuard
<1>8. CASE e.status = "FILL"
  <2>1. e.bar = t
    BY <1>2, <1>6, <1>8 DEF BookInv, OwnOK
  <2>2. /\ trade.increased \in Nat /\ trade.executed \in Nat /\ trade.increased <= trade.executed
        /\ trade.executed <= t /\ t \in Nat
    BY <1>2, <1>3, ClockIs DEF BookInv
  <2>3. /\ trade'.observed = trade.observed /\ trade'.executed = Larger(trade.executed, t)
        /\ trade'.increased = IF Grows(e) THEN t ELSE trade.increased
    BY <1>5, <1>8, <2>1, <1>6, EventIs DEF NewTrade
  <2>4. GrownOK'
    <3>1. applied' = applied \cup {ExecutionId(e)}
      BY <1>3 DEF Apply
    <3>2. \A x \in applied : x[2] = "FILL" /\ x[1] \in Commands => x[3] \in 0..trade'.increased
      BY <2>2, <2>3 DEF GuardInv, GrownOK
    <3>3. e.cmd \in Commands => ExecutionId(e)[3] \in 0..trade'.increased
      <4> SUFFICES ASSUME e.cmd \in Commands PROVE ExecutionId(e)[3] \in 0..trade'.increased
        OBVIOUS
      <4>1. CASE Grows(e)
        BY <2>1, <2>2, <2>3, <4>1 DEF ExecutionId, Grows
      <4>2. CASE ~Grows(e)
        <5>1. Kind(e.cmd) \in Exits /\ Kind(e.cmd) \notin Increases \cup {"STOP", "TARGET"}
          BY <1>5, <1>8, <4>2, OwnIds DEF Reducible, Kind, Grows, Exits, Increases
        <5>2. ExecutionId(e)[3] = 0
          BY <1>8, <5>1 DEF ExecutionId
        <5> QED
          BY <2>2, <2>3, <4>2, <5>2
      <4> QED
        BY <4>1, <4>2
    <3>4. ExecutionId(e)[1] = e.cmd
      BY DEF ExecutionId
    <3> QED
      BY <3>1, <3>2, <3>3, <3>4 DEF GrownOK
  <2>5. BehindOK'
    <3>1. CASE ~Grows(e)
      <4>1. trade'.increased = trade.increased
        BY <2>3, <3>1
      <4> QED
        BY <1>3, <1>5, <1>6, <4>1, BehindStays
    <3>2. CASE Grows(e)
      <4>1. trade'.increased = t
        BY <2>3, <3>2
      <4>2. Guarded(b, q, t)
        BY <1>2, <1>6 DEF GuardInv, BehindOK
      <4>3. Guarded(b, q, t)'
        BY <1>3, <4>1, <4>2 DEF Guarded
      <4> QED
        BY <1>2, <1>3, <1>6, <4>3 DEF BehindOK
    <3> QED
      BY <3>1, <3>2
  <2> QED
    BY <1>2, <1>3, <2>3, <2>4, <2>5, ExecutesGuard
<1> QED
  BY <1>7, <1>8

LEMMA ConfirmStopGuard ==
  ASSUME TypeInv, TypeInv', OutcomeInv, BookInv, GuardInv, ConfirmStop
  PROVE  GuardInv'
<1>1. PICK e : e = batch[done]
  OBVIOUS
<1>2. /\ pc = "confirm" /\ pc' = "commit" /\ order' = order /\ applied' = applied
      /\ UNCHANGED <<bars, broker, queue, batch, done, cursor>>
  BY DEF ConfirmStop, memory
<1>3. done \in 1..Len(batch) /\ e.status = "ACTIVE" /\ batch # <<>> /\ Stream = batch /\ Stream' = Stream
  BY <1>1, <1>2 DEF TypeInv, BatchOK, EventsOK, Stream
<1>4. e.bar = cursor + 1
  BY <1>1, <1>3 DEF BookInv, OwnOK
<1>5. /\ trade'.increased = trade.increased /\ trade'.observed = trade.observed
      /\ trade'.executed = Larger(trade.executed, cursor + 1)
  <2> DEFINE stop == order[e.cmd].level
             executed == Larger(trade.executed, e.bar)
  <2>1. trade' = [trade EXCEPT !.stop = stop, !.moving = 0, !.rev = @ + 1, !.executed = executed]
    BY <1>1 DEF ConfirmStop
  <2> HIDE DEF stop, executed
  <2>2. trade'.increased = trade.increased /\ trade'.observed = trade.observed /\ trade'.executed = executed
    BY <2>1 DEF TypeInv, TradeType
  <2> QED
    BY <1>4, <2>2 DEF executed
<1>6. RowsSame /\ BarsKept /\ Behind
  BY <1>2, RowsAsWere DEF RowsSame, Behind
<1>7. BehindOK'
  BY <1>2, <1>3, <1>5, <1>6, BehindStays
<1>8. GrownOK'
  BY <1>2, <1>5 DEF GuardInv, GrownOK
<1> QED
  BY <1>2, <1>5, <1>7, <1>8, ExecutesGuard

\* With the last event of a batch the journal has the broker's book.
LEMMA CommittedAlike ==
  ASSUME TypeInv, OutcomeInv, BookInv, NEW b, b = broker, pc = "commit", done = Len(batch), b.known
  PROVE  Alike(trade, b)
<1>1. CASE batch = <<>>
  <2>1. Outside
    BY <1>1 DEF Outside, Simulating
  <2> QED
    BY <2>1 DEF BookInv, RoadOK
<1>2. CASE batch # <<>>
  <2>1. Stream = batch /\ ~Outside /\ Len(batch) \in Nat
    BY <1>2, StreamIs DEF Stream, Outside
  <2>2. PICK p : Leads(p, batch, b)
    BY <2>1 DEF BookInv, RoadOK, Road
  <2>3. Len(batch) \in 0..Reached
    BY <2>1 DEF Reached
  <2>4. Alike(p[Len(batch)], b) /\ Alike(p[Len(batch)], trade)
    BY <2>2, <2>3 DEF Leads
  <2> QED
    BY <2>4, AlikeIs
<1> QED
  BY <1>1, <1>2

\* The bar is observed, with what it was compared with.
LEMMA CommitEndsGuard ==
  ASSUME TypeInv, TypeInv', OutcomeInv, BookInv, GuardInv, CommitEnds
  PROVE  GuardInv'
<1>1. PICK t, b, q : t = cursor + 1 /\ b = broker /\ q = Stream
  OBVIOUS
<1>2. /\ UNCHANGED <<bars, applied, broker, cut>> /\ pc = "commit" /\ pc' = "work" /\ cursor' = t /\ batch' = <<>>
      /\ trade' = [trade EXCEPT !.observed = IF trade.qty > 0 \/ trade.executed = t THEN t ELSE @]
      /\ done = Len(batch) /\ trade \in TradeType
  BY <1>1 DEF CommitEnds, TypeInv
<1>3. /\ trade'.phase = trade.phase /\ trade'.executed = trade.executed /\ trade'.stop = trade.stop
      /\ trade'.increased = trade.increased /\ trade'.taken = trade.taken /\ trade'.entered = trade.entered
      /\ trade'.observed = IF trade.qty > 0 \/ trade.executed = t THEN t ELSE trade.observed
  BY <1>2 DEF TradeType
<1>4. Behind /\ ~Behind'
  BY <1>2 DEF Behind
<1>5. /\ trade.increased \in Nat /\ trade.executed \in Nat /\ trade.observed \in Nat /\ trade.observed <= cursor
      /\ trade.increased <= trade.executed /\ trade.executed <= t /\ t \in Nat /\ t > 0 /\ cursor \in Nat
  BY <1>1, <1>2, ClockIs DEF BookInv, GuardInv, SeenOK
<1>6. Guarded(b, q, t)
  BY <1>1, <1>4 DEF GuardInv, BehindOK
<1>7. ObservedOK'
  <2> SUFFICES ASSUME trade.phase \in Manageable
               PROVE  /\ "stop" \notin cut => bars[t].low > trade.stop
                      /\ bars[t].high >= TargetPrice /\ trade.increased # t => trade.taken >= Share(trade.entered)
    <3>1. trade.phase \in Manageable => trade'.observed = t
      BY <1>3 DEF OutcomeInv, JournalOK
    <3> QED
      BY <1>2, <1>3, <1>5, <3>1 DEF ObservedOK
  <2>1. b.known /\ trade.qty > 0 /\ trade.phase \in Live
    BY <1>1, <1>2 DEF BookInv, KnownOK, OutcomeInv, JournalOK, Live
  <2>2. Alike(trade, b)
    BY <1>1, <1>2, <2>1, CommittedAlike
  <2>3. /\ b.qty > 0 /\ b.taken = trade.taken /\ b.entered = trade.entered
        /\ "stop" \notin cut => b.stop = trade.stop
    BY <2>1, <2>2 DEF Alike, StopKept
  <2>4. "stop" \notin cut => bars[t].low > trade.stop
    BY <1>6, <2>3 DEF Guarded
  <2>5. (\E i \in 1..Len(q) : Grows(q[i])) => trade.increased = t
    <3> SUFFICES ASSUME NEW i \in 1..Len(q), Grows(q[i]) PROVE trade.increased = t
      OBVIOUS
    <3>1. PICK e : e = q[i]
      OBVIOUS
    <3>2. q = batch /\ i \in 1..done
      BY <1>1, <1>2 DEF Stream, OutcomeInv, PlaceOK
    <3>3. Applied(e)
      BY <3>1, <3>2 DEF OutcomeInv, PlaceOK
    <3>4. EventOK(e) /\ e.status = "FILL" /\ Kind(e.cmd) \in Increases
      BY <1>1, <3>1, StreamIs DEF EventsOK, Grows
    <3>5. e.cmd \in Commands /\ e.bar = t
      <4>1. Grows(e)
        BY <3>1
      <4>2. q[i].status = "FILL" => q[i].bar = t
        BY <1>1 DEF BookInv, OwnOK
      <4> QED
        BY <3>1, <3>4, <4>1, <4>2, EventIs
    <3>6. <<e.cmd, "FILL", t>> \in applied
      BY <3>3, <3>4, <3>5 DEF Applied, ExecutionId
    <3>7. t \in 0..trade.increased
      BY <3>5, <3>6 DEF GuardInv, GrownOK
    <3> QED
      BY <1>5, <3>7
  <2>6. bars[t].high >= TargetPrice /\ trade.increased # t => trade.taken >= Share(trade.entered)
    BY <1>6, <2>3, <2>5 DEF Guarded
  <2> QED
    BY <2>4, <2>6
<1>8. GrownOK'
  BY <1>2, <1>3 DEF GuardInv, GrownOK
<1>9. SeenOK'
  BY <1>1, <1>2, <1>3, <1>5 DEF SeenOK
<1> QED
  BY <1>4, <1>7, <1>8, <1>9 DEF GuardInv, BehindOK

-----------------------------------------------------------------------------
(* Steps that look at the bar.                                             *)

\* A stop that is hit leaves nothing, and one that is not changes nothing.
LEMMA StopOutIs ==
  ASSUME TypeInv, NEW s, SimOK(s), NEW rest \in SUBSET Commands, NEW t \in Nat, NEW low, BarOK(s, rest)
  PROVE  IF Triggered(s.b, low) THEN StopOut(s, rest, t, low).b.qty = 0 ELSE StopOut(s, rest, t, low) = s
<1> DEFINE b == [s.b EXCEPT !.qty = 0, !.stop = 0, !.rev = @ + 1]
           e == Event(StopHit, "FILL", s.b.qty, t, 0)
           m == [b |-> b, q |-> Append(s.q, e)]
<1>1. CASE ~Triggered(s.b, low)
  BY <1>1 DEF StopOut
<1>2. CASE Triggered(s.b, low)
  <2>1. s.b.qty \in Nat /\ s.b.qty > 0 /\ s.b.rev + 1 \in Nat /\ s.b \in BrokerType /\ EventsOK(s.q)
    BY <1>2, FieldsAre DEF Triggered
  <2>2. StopOut(s, rest, t, low) = Cancelled(m, rest, t)
    BY <1>2 DEF StopOut
  <2>3. /\ b \in BrokerType /\ b.sched = s.b.sched /\ b.answer = s.b.answer /\ b.known = s.b.known /\ b.qty = 0
    BY <2>1, FieldsAre DEF BrokerType
  <2>4. EventOK(e) /\ e.cmd \notin Commands /\ Kind(e.cmd) = "STOP" /\ e.qty > 0
    BY <2>1, OwnEventOK, OwnIds DEF Event, Kind, StopHit
  <2>5. ~Grows(e) /\ Fits(e, s.q)
    BY <2>4 DEF Grows, Increases, Fits
  <2> HIDE DEF b, e
  <2>6. EventsOK(Append(s.q, e))
    BY <2>1, <2>4, AppendOK
  <2>7. SimOK(m) /\ m.b = b /\ m.q = Append(s.q, e)
    BY <2>3, <2>6, PositionOK
  <2> HIDE DEF m
  <2>8. b.rev = 0 => b.qty = 0
    BY <2>3
  <2>9. /\ MemoryOK(b, rest) /\ WaitsIn(b, rest) = WaitsIn(s.b, rest)
        /\ StreamOK(s.q, WaitsIn(b, rest), b.answer)
    BY <2>3, <2>8, PositionKeeps
  <2>10. StreamOK(m.q, WaitsIn(b, rest), b.answer)
    <3>1. PICK w, a : w = WaitsIn(b, rest) /\ a = b.answer
      OBVIOUS
    <3>2. StreamOK(s.q, w, a) /\ w \in SUBSET w
      BY <2>9, <3>1
    <3>3. StreamOK(Append(s.q, e), w, a)
      BY <2>1, <2>4, <2>5, <3>2, StreamGrows
    <3> QED
      BY <2>7, <3>1, <3>3
  <2>11. BarOK(m, rest)
    BY <2>7, <2>9, <2>10 DEF BarOK
  <2>12. Cancelled(m, rest, t).b.qty = b.qty
    BY <2>7, <2>11, CancelledBook DEF SameHolding
  <2> QED
    BY <1>2, <2>2, <2>3, <2>12
<1> QED
  BY <1>1, <1>2

\* What is held behind the target has taken its share.
LEMMA TakeTargetIs ==
  ASSUME TypeInv, NEW s, SimOK(s), NEW rest \in SUBSET Commands, NEW t \in Nat, NEW high \in Nat, BarOK(s, rest)
  PROVE  \/ TakeTarget(s, rest, t, high).b.qty = 0
         \/ /\ TakeTarget(s, rest, t, high).b.stop = s.b.stop
            /\ high >= TargetPrice =>
                 TakeTarget(s, rest, t, high).b.taken >= Share(TakeTarget(s, rest, t, high).b.entered)
<1> DEFINE left == Share(s.b.entered) - s.b.taken
           k == IF left < s.b.qty THEN left ELSE s.b.qty
           stop == IF k = s.b.qty THEN 0 ELSE s.b.stop
           b == [s.b EXCEPT !.qty = @ - k, !.taken = @ + k, !.rev = @ + 1, !.stop = IF k = s.b.qty THEN 0 ELSE @]
           e == Event(TargetHit, "FILL", k, t, 0)
           m == [b |-> b, q |-> Append(s.q, e)]
<1>1. /\ s.b.rev \in Nat /\ s.b.qty \in Nat /\ s.b.taken \in Nat /\ s.b.stop \in Nat /\ s.b.entered \in Nat
      /\ s.b \in BrokerType /\ left \in Int /\ s.b.rev + 1 \in Nat /\ s.b.rev + 1 # 0
      /\ Share(s.b.entered) \in Nat /\ EventsOK(s.q)
  BY FieldsAre, SharesAre
<1>2. TakeTarget(s, rest, t, high) =
        IF s.b.qty = 0 \/ high < TargetPrice \/ left <= 0 THEN s ELSE Cancelled(m, rest, t)
  BY DEF TakeTarget
<1>3. CASE s.b.qty = 0 \/ high < TargetPrice \/ left <= 0
  <2>1. TakeTarget(s, rest, t, high) = s
    BY <1>2, <1>3
  <2>2. TargetPrice \in Nat
    BY PricesAssumption
  <2>3. s.b.qty = 0 \/ ~(high >= TargetPrice) \/ s.b.taken >= Share(s.b.entered)
    BY <1>1, <1>3, <2>2
  <2> QED
    BY <2>1, <2>3
<1>4. CASE ~(s.b.qty = 0 \/ high < TargetPrice \/ left <= 0)
  <2>1. /\ k \in Nat /\ k > 0 /\ s.b.qty - k \in Nat /\ s.b.taken + k \in Nat
        /\ s.b.taken + k >= Share(s.b.entered) \/ k = s.b.qty
    BY <1>1, <1>4
  <2> HIDE DEF k
  <2>2. stop \in Nat /\ b = [s.b EXCEPT !.qty = s.b.qty - k, !.taken = s.b.taken + k, !.rev = s.b.rev + 1, !.stop = stop]
    BY <1>1
  <2>3. stop = IF k = s.b.qty THEN 0 ELSE s.b.stop
    OBVIOUS
  <2> HIDE DEF stop, b
  <2>4. /\ b \in BrokerType /\ b.sched = s.b.sched /\ b.answer = s.b.answer /\ b.known = s.b.known
        /\ b.rev = s.b.rev + 1 /\ b.qty = s.b.qty - k /\ b.taken = s.b.taken + k /\ b.stop = stop
        /\ b.entered = s.b.entered
    BY <1>1, <2>1, <2>2 DEF BrokerType
  <2>5. EventOK(e) /\ e.cmd \notin Commands /\ Kind(e.cmd) = "TARGET" /\ e.qty > 0
    BY <2>1, OwnEventOK, OwnIds DEF Event, Kind, StopHit, TargetHit
  <2>6. ~Grows(e) /\ Fits(e, s.q)
    BY <2>5 DEF Grows, Increases, Fits
  <2> HIDE DEF e
  <2>7. EventsOK(Append(s.q, e))
    BY <1>1, <2>5, AppendOK
  <2>8. SimOK(m) /\ m.b = b /\ m.q = Append(s.q, e)
    BY <2>4, <2>7, PositionOK
  <2> HIDE DEF m
  <2>9. b.rev = 0 => b.qty = 0
    BY <1>1, <2>4
  <2>10. /\ MemoryOK(b, rest) /\ WaitsIn(b, rest) = WaitsIn(s.b, rest)
         /\ StreamOK(s.q, WaitsIn(b, rest), b.answer)
    BY <2>4, <2>9, PositionKeeps
  <2>11. StreamOK(m.q, WaitsIn(b, rest), b.answer)
    <3>1. PICK w, a : w = WaitsIn(b, rest) /\ a = b.answer
      OBVIOUS
    <3>2. StreamOK(s.q, w, a) /\ w \in SUBSET w
      BY <2>10, <3>1
    <3>3. StreamOK(Append(s.q, e), w, a)
      BY <1>1, <2>5, <2>6, <3>2, StreamGrows
    <3> QED
      BY <2>8, <3>1, <3>3
  <2>12. BarOK(m, rest)
    BY <2>8, <2>10, <2>11 DEF BarOK
  <2>13. PICK n : n = TakeTarget(s, rest, t, high).b
    OBVIOUS
  <2>14. n.qty = b.qty /\ n.stop = b.stop /\ n.taken = b.taken /\ n.entered = b.entered
    BY <1>2, <1>4, <2>8, <2>12, <2>13, CancelledBook DEF SameHolding
  <2>15. n.qty = 0 \/ (n.stop = s.b.stop /\ n.taken >= Share(n.entered))
    BY <1>1, <2>1, <2>3, <2>4, <2>14
  <2> QED
    BY <2>13, <2>15
<1> QED
  BY <1>3, <1>4

\* What the protection of a bar leaves was compared with it.
LEMMA ProtectedIs ==
  ASSUME TypeInv, NEW s, SimOK(s), NEW rest \in SUBSET Commands, NEW t \in Nat, t > 0, BarOK(s, rest),
         NEW bar \in [open : Nat, low : Nat, high : Nat], s.b.qty > 0 => s.b.stop > 0,
         NEW n, n = Protected(s, rest, t, bar).b
  PROVE  n.qty > 0 =>
           /\ bar.low > n.stop
           /\ bar.high >= TargetPrice => n.taken >= Share(n.entered) \/ s.b.opened = t
<1> DEFINE open == s.b.qty > 0 /\ s.b.opened = t /\ s.b.paid # 0 /\ s.b.paid = bar.open
           b == IF open THEN [s.b EXCEPT !.opened = 0, !.paid = 0] ELSE s.b
           m == [s EXCEPT !.b = b]
           stopped == StopOut(m, rest, t, bar.low)
<1>1. /\ b \in BrokerType /\ b.sched = s.b.sched /\ b.answer = s.b.answer /\ b.known = s.b.known
      /\ b.rev = s.b.rev /\ b.qty = s.b.qty /\ b.stop = s.b.stop /\ (b.opened = t => s.b.opened = t)
  BY FieldsAre DEF BrokerType
<1>2. Protected(s, rest, t, bar) = IF b.opened = t THEN stopped ELSE TakeTarget(stopped, rest, t, bar.high)
  BY DEF Protected
<1>3. s.b.qty \in Nat /\ s.b.stop \in Nat /\ bar.low \in Nat /\ bar.high \in Nat
  BY FieldsAre
<1> HIDE DEF b
<1>4. m = [b |-> b, q |-> s.q]
  BY FieldsAre
<1> HIDE DEF m
<1>5. SimOK(m) /\ m.b = b /\ m.q = s.q
  BY <1>1, <1>4, FieldsAre, PositionOK
<1>6. b.rev = 0 => b.qty = 0
  BY <1>1 DEF BarOK, MemoryOK, WaitsOK
<1>7. BarOK(m, rest)
  <2>1. /\ MemoryOK(b, rest) /\ WaitsIn(b, rest) = WaitsIn(s.b, rest)
        /\ StreamOK(s.q, WaitsIn(b, rest), b.answer)
    BY <1>1, <1>6, PositionKeeps
  <2> QED
    BY <1>5, <2>1 DEF BarOK
<1>8. IF Triggered(m.b, bar.low) THEN stopped.b.qty = 0 ELSE stopped = m
  BY <1>5, <1>7, StopOutIs
<1> HIDE DEF stopped
<1>9. CASE Triggered(m.b, bar.low)
  <2>1. stopped.b.qty = 0
    BY <1>8, <1>9
  <2>2. TakeTarget(stopped, rest, t, bar.high) = stopped
    BY <2>1 DEF TakeTarget
  <2> QED
    BY <1>2, <2>1, <2>2
<1>10. CASE ~Triggered(m.b, bar.low)
  <2>1. stopped = m
    BY <1>8, <1>10
  <2>2. m.b.qty > 0 => bar.low > m.b.stop
    BY <1>1, <1>3, <1>5, <1>10 DEF Triggered
  <2>3. CASE b.opened = t
    BY <1>1, <1>2, <1>5, <2>1, <2>2, <2>3
  <2>4. CASE b.opened # t
    <3>1. n = TakeTarget(m, rest, t, bar.high).b
      BY <1>2, <2>1, <2>4
    <3>2. n.qty = 0 \/ (n.stop = m.b.stop /\ (bar.high >= TargetPrice => n.taken >= Share(n.entered)))
      BY <1>3, <1>5, <1>7, <3>1, TakeTargetIs
    <3>3. n.qty > 0 => m.b.qty > 0
      BY <1>1, <1>3, <1>5, <3>1 DEF TakeTarget
    <3> QED
      BY <2>2, <3>2, <3>3
  <2> QED
    BY <2>3, <2>4
<1> QED
  BY <1>9, <1>10

LEMMA LooksGuard ==
  ASSUME TypeInv, TypeInv', OutcomeInv, BookInv, GuardInv, Simulates, pc' = "limits", NEW n, Becomes(n),
         NEW t, t = cursor + 1, Guarded(n.b, n.q, t)
  PROVE  GuardInv'
<1>1. PICK b, q : b = n.b /\ q = n.q
  OBVIOUS
<1>2. /\ UNCHANGED <<bars, trade, order, applied, batch, cursor, cut>> /\ broker' = b /\ queue' = q /\ batch = <<>>
      /\ pc # "down"
  BY <1>1 DEF Simulates, Simulating, Becomes, journal, OutcomeInv, PlaceOK
<1>3. Stream' = q /\ BarsKept
  BY <1>2, RowsAsWere DEF Stream
<1>4. Guarded(b, q, t)'
  BY <1>1, <1>2 DEF Guarded, Grows, Kind
<1>5. BehindOK'
  BY <1>2, <1>3, <1>4 DEF BehindOK
<1>6. SameLook
  BY <1>2 DEF SameLook
<1> QED
  BY <1>2, <1>3, <1>5, <1>6, GuardStays

LEMMA ProtectionGuard ==
  ASSUME TypeInv, TypeInv', OutcomeInv, BookInv, GuardInv, Protection
  PROVE  GuardInv'
<1>1. pc = "opens" /\ pc \in Simulating /\ pc # "limits" /\ pc' = "limits" /\ Simulates
  BY DEF Protection, Simulates, Simulating
<1>2. PICK t : t = cursor + 1
  OBVIOUS
<1>3. PICK bar : bar = bars[t]
  OBVIOUS
<1>4. PICK n : n = Protected(Sim, due, t, bar)
  OBVIOUS
<1>5. Becomes(n)
  BY <1>2, <1>3, <1>4 DEF Protection
<1>6. /\ t \in Nat /\ t > 0 /\ SimOK(Sim) /\ Sim.b = broker /\ bar \in [open : Nat, low : Nat, high : Nat]
      /\ cursor \in Nat
  BY <1>1, <1>2, <1>3, SimulationStarts DEF TypeInv
<1>7. BarOK(Sim, due) /\ due \in SUBSET Commands /\ BeforeOK(broker, queue)
  BY <1>1, StageStarts
<1>8. broker.qty > 0 => broker.stop > 0
  BY DEF BookInv, HoldsOK
<1>9. PICK b : b = n.b
  OBVIOUS
<1>10. b.qty > 0 =>
         /\ bar.low > b.stop
         /\ bar.high >= TargetPrice => b.taken >= Share(b.entered) \/ broker.opened = t
  BY <1>4, <1>6, <1>7, <1>8, <1>9, ProtectedIs
<1>11. broker.opened = t => trade.increased = t
  BY <1>2, <1>6, <1>7 DEF BeforeOK
<1>12. Guarded(n.b, n.q, t)
  BY <1>3, <1>9, <1>10, <1>11 DEF Guarded
<1> QED
  BY <1>1, <1>2, <1>5, <1>12, LooksGuard

\* The position is the same and no growth is forgotten.
LEMMA HeldStays ==
  ASSUME NEW s, NEW n, NEW t, Guarded(s.b, s.q, t), SameHolding(s.b, n.b),
         \A i \in 1..Len(s.q) : i \in 1..Len(n.q) /\ n.q[i] = s.q[i]
  PROVE  Guarded(n.b, n.q, t)
<1>1. (\E i \in 1..Len(s.q) : Grows(s.q[i])) => \E i \in 1..Len(n.q) : Grows(n.q[i])
  <2> SUFFICES ASSUME NEW i \in 1..Len(s.q), Grows(s.q[i]) PROVE \E j \in 1..Len(n.q) : Grows(n.q[j])
    OBVIOUS
  <2>1. i \in 1..Len(n.q) /\ Grows(n.q[i])
    OBVIOUS
  <2> QED
    BY <2>1
<1> QED
  BY <1>1 DEF Guarded, SameHolding

LEMMA LimitExpiresGuard ==
  ASSUME TypeInv, TypeInv', OutcomeInv, BookInv, GuardInv, NEW c \in Commands, LimitExpires(c)
  PROVE  GuardInv'
<1>1. pc = "limits" /\ pc \in Simulating /\ pc' = pc /\ c \in due /\ Simulates
  BY DEF LimitExpires, Simulates, Simulating
<1>2. PICK t : t = cursor + 1
  OBVIOUS
<1>3. PICK e : e = Event(c, "CANCEL", 0, t, 0)
  OBVIOUS
<1>4. PICK n : n = Answered(Sim, e)
  OBVIOUS
<1>5. order[c].kind \in Increases /\ order[c].kind \in Kinds /\ t \in Nat /\ SimOK(Sim) /\ Sim.b = broker /\ Sim.q = queue
  BY <1>1, <1>2, SimulationStarts DEF TypeInv, StepOK
<1>6. EventOK(e) /\ e.cmd = c
  BY <1>3, <1>5 DEF EventOK, Event, EventType
<1>7. SameHolding(Sim.b, n.b) /\ n.q = Append(Sim.q, e)
  BY <1>4, <1>5, <1>6, AnsweredBook, AnsweredOK
<1>8. Becomes(n)
  BY <1>2, <1>3, <1>4 DEF LimitExpires
<1>9. Guarded(Sim.b, Sim.q, t)
  BY <1>1, <1>2, <1>5, StageStarts DEF GuardInv, BehindOK, Behind
<1>10. \A i \in 1..Len(Sim.q) : i \in 1..Len(n.q) /\ n.q[i] = Sim.q[i]
  BY <1>5, <1>7, FieldsAre DEF EventsOK
<1>11. Guarded(n.b, n.q, t)
  BY <1>7, <1>9, <1>10, HeldStays
<1> QED
  BY <1>1, <1>2, <1>8, <1>11, LooksGuard

LEMMA LimitWaitsGuard ==
  ASSUME TypeInv, TypeInv', OutcomeInv, BookInv, GuardInv, NEW c \in Commands, LimitWaits(c)
  PROVE  GuardInv'
<1>1. pc = "limits" /\ pc \in Simulating /\ pc' = "limits" /\ Simulates
  BY DEF LimitWaits, Simulates, Simulating
<1>2. PICK t : t = cursor + 1
  OBVIOUS
<1>3. PICK b : b = [broker EXCEPT !.sched = @ \cup {c}]
  OBVIOUS
<1>4. PICK n : n = [b |-> b, q |-> queue]
  OBVIOUS
<1>5. broker \in BrokerType /\ SimOK(Sim) /\ Sim.b = broker /\ Sim.q = queue
  BY <1>1, SimulationStarts DEF TypeInv, BrokerOK
<1>6. n.b = b /\ n.q = Sim.q /\ SameHolding(Sim.b, n.b)
  BY <1>3, <1>4, <1>5 DEF BrokerType, SameHolding
<1>7. Becomes(n)
  BY <1>3, <1>4, <1>6 DEF LimitWaits, Becomes
<1>8. Guarded(Sim.b, Sim.q, t)
  BY <1>1, <1>2, <1>5, StageStarts DEF GuardInv, BehindOK, Behind
<1>9. Guarded(n.b, n.q, t)
  BY <1>6, <1>8, HeldStays
<1> QED
  BY <1>1, <1>2, <1>7, <1>9, LooksGuard

LEMMA FillAtLimitGuard ==
  ASSUME TypeInv, TypeInv', OutcomeInv, OneOpenIncrease, BookInv, GuardInv, NEW c \in Commands, FillAtLimit(c)
  PROVE  GuardInv'
<1>1. /\ pc = "limits" /\ pc \in Simulating /\ pc' = pc /\ c \in due /\ Simulates
      /\ broker.answer[c] # "CANCEL"
  BY DEF FillAtLimit, Simulates, Simulating
<1>2. PICK t, price, left : t = cursor + 1 /\ price = Limit(c) /\ left = due \ {c}
  OBVIOUS
<1>3. PICK low : low = bars[t].low
  OBVIOUS
<1>4. PICK filled : filled = Increased(Sim, c, t, price, t)
  OBVIOUS
<1>5. PICK n : n = IF filled.b.answer[c] = "REJECT" THEN filled ELSE StopOut(filled, left, t, low)
  OBVIOUS
<1>6. /\ t \in Nat /\ price \in Nat /\ SimOK(Sim) /\ Sim.b = broker /\ Sim.q = queue /\ low \in Nat
      /\ Sim.b.answer[c] = "ACK" /\ order[c].size \in Nat /\ order[c].size > 0 /\ order[c].kind \in Increases
  <2>1. order[c].kind \in Increases
    BY <1>1 DEF TypeInv, StepOK
  <2>2. price \in Nat
    BY <1>2, PricesAssumption DEF Limit
  <2> QED
    BY <1>1, <1>2, <1>3, <2>1, <2>2, SimulationStarts, DueWaits
<1>7. BarOK(Sim, due) /\ RoomOK(Sim.b, Sim.q, due) /\ due \in SUBSET Commands /\ Stream = queue
  BY <1>1, StageStarts
<1>8. SimOK(filled)
  BY <1>4, <1>6, IncreasedOK
<1>9. BarOK(filled, left) /\ left \in SUBSET Commands
  BY <1>1, <1>2, <1>4, <1>6, <1>7, IncreasedFollows DEF Follows
<1>10. Becomes(n) /\ broker' = n.b
  BY <1>2, <1>3, <1>4, <1>5 DEF FillAtLimit, Becomes
<1>11. n.b.qty > 0 => n.b.stop > 0
  BY <1>10, FillAtLimitBook DEF BookInv, HoldsOK
<1>12. CASE filled = Answered(Sim, Event(c, "REJECT", 0, t, 0))
  <2>1. PICK e : e = Event(c, "REJECT", 0, t, 0)
    OBVIOUS
  <2>2. EventOK(e) /\ e.cmd = c /\ e.status = "REJECT"
    BY <1>6, <2>1 DEF EventOK, Event, EventType, Increases, Kinds
  <2>3. SameHolding(Sim.b, filled.b) /\ filled.q = Append(Sim.q, e) /\ filled.b.answer[c] = "REJECT"
    BY <1>6, <1>12, <2>1, <2>2, AnsweredBook, AnsweredIs
  <2>4. n = filled
    BY <1>5, <2>3
  <2>5. Guarded(Sim.b, Sim.q, t)
    BY <1>1, <1>2, <1>6, <1>7 DEF GuardInv, BehindOK, Behind
  <2>6. \A i \in 1..Len(Sim.q) : i \in 1..Len(n.q) /\ n.q[i] = Sim.q[i]
    BY <1>6, <2>3, <2>4, FieldsAre DEF EventsOK
  <2>7. Guarded(n.b, n.q, t)
    BY <2>3, <2>4, <2>5, <2>6, HeldStays
  <2> QED
    BY <1>1, <1>2, <1>10, <2>7, LooksGuard
<1>13. CASE \E e : filled.q = Append(Sim.q, e) /\ EventOK(e) /\ Grows(e) /\ filled.b.answer[c] = "FILL"
  <2>1. PICK e : filled.q = Append(Sim.q, e) /\ EventOK(e) /\ Grows(e) /\ filled.b.answer[c] = "FILL"
    BY <1>13
  <2>2. n = StopOut(filled, left, t, low)
    BY <1>5, <2>1
  <2>3. IF Triggered(filled.b, low) THEN n.b.qty = 0 ELSE n = filled
    BY <1>6, <1>8, <1>9, <2>2, StopOutIs
  <2>4. \E i \in 1..Len(filled.q) : Grows(filled.q[i])
    <3>1. Sim.q \in Seq(EventType) /\ e \in EventType
      BY <1>6, <2>1, FieldsAre DEF EventsOK, EventOK
    <3>2. Len(filled.q) \in 1..Len(filled.q) /\ filled.q[Len(filled.q)] = e
      BY <2>1, <3>1
    <3> QED
      BY <2>1, <3>2
  <2>5. CASE Triggered(filled.b, low)
    BY <1>1, <1>2, <1>10, <2>3, <2>5, LooksGuard DEF Guarded
  <2>6. CASE ~Triggered(filled.b, low)
    <3>1. n = filled /\ n.b.qty \in Nat /\ n.b.stop \in Nat
      BY <1>8, <2>3, <2>6, FieldsAre
    <3>2. n.b.qty > 0 => low > n.b.stop
      BY <1>6, <1>11, <2>6, <3>1 DEF Triggered
    <3>3. Guarded(n.b, n.q, t)
      BY <1>3, <2>4, <3>1, <3>2 DEF Guarded
    <3> QED
      BY <1>1, <1>2, <1>10, <3>3, LooksGuard
  <2> QED
    BY <2>5, <2>6
<1>14. PICK s : s = Sim
  OBVIOUS
<1>15. \/ Increased(s, c, t, price, t) = Answered(s, Event(c, "REJECT", 0, t, 0))
       \/ \E e : /\ Increased(s, c, t, price, t).q = Append(s.q, e) /\ EventOK(e) /\ Grows(e)
                /\ Increased(s, c, t, price, t).b.answer[c] = "FILL"
  <2>1. SimOK(s) /\ order[c].kind \in Increases /\ order[c].size \in Nat /\ t \in Nat /\ price \in Nat
    BY <1>6, <1>14
  <2>2. \A op \in Nat :
          \/ Increased(s, c, t, price, op) = Answered(s, Event(c, "REJECT", 0, t, 0))
          \/ \E e : /\ Increased(s, c, t, price, op).q = Append(s.q, e) /\ EventOK(e) /\ Grows(e)
                   /\ Increased(s, c, t, price, op).b.answer[c] = "FILL"
    BY <2>1, IncreasedIs
  <2> QED
    BY <2>1, <2>2
<1>16. \/ filled = Answered(Sim, Event(c, "REJECT", 0, t, 0))
       \/ \E e : filled.q = Append(Sim.q, e) /\ EventOK(e) /\ Grows(e) /\ filled.b.answer[c] = "FILL"
  BY <1>4, <1>14, <1>15
<1> QED
  BY <1>12, <1>13, <1>16

LEMMA NextGuard ==
  ASSUME TypeInv, TypeInv', OutcomeInv, OneOpenIncrease, BookInv, GuardInv, Next
  PROVE  GuardInv'
<1>1. CASE \E b \in Bars : BarCloses(b)
  BY <1>1, BarClosesGuard
<1>2. CASE StepBegins \/ WithdrawEnds \/ WithdrawFails \/ StepEnds
  BY <1>2, StepsGuard
<1>3. CASE WithdrawMark \/ \E c \in Commands : WithdrawCancel(c)
  BY <1>3, MarksGuard, WithdrawCancelGuard
<1>4. CASE TrackBegins \/ Simulation
  BY <1>4, TrackBeginsGuard, ProtectionGuard, DrainGuard, StagesGuard,
     LimitExpiresGuard, LimitWaitsGuard, FillAtLimitGuard DEF Simulation
<1>5. CASE Journalling
  BY <1>5, ConsumeGuard, RestartsGuard, ConfirmStopGuard, CommitEndsGuard DEF Journalling
<1>6. CASE Deciding
  BY <1>6, SubmitsGuard DEF Deciding
<1>7. CASE Delivering
  BY <1>7, DeliverGuard, MarksGuard, ConsumeAnswerGuard, AnswerFailsGuard, DrainQueueGuard DEF Delivering
<1>8. CASE Crash \/ Recover
  BY <1>8, CrashGuard, RecoverGuard
<1> QED
  BY <1>1, <1>2, <1>3, <1>4, <1>5, <1>6, <1>7, <1>8 DEF Next

LEMMA GuardInvCorrect == Spec => [](TypeInv /\ OutcomeInv /\ BookInv /\ GuardInv)
<1>1. Init => GuardInv
  BY InitGuard
<1>2. TypeInv /\ TypeInv' /\ OutcomeInv /\ OneOpenIncrease /\ BookInv /\ GuardInv /\ [Next]_vars => GuardInv'
  BY NextGuard, StutterGuard
<1> QED
  BY <1>1, <1>2, BookInvCorrect, OneOpenIncreaseCorrect, PTL DEF Spec

\* No bar that was executed went through the stop of a position still open, unless
\* a failure came between the two writes of a stop, and none reached the target
\* without its share being taken, unless the position grew inside it
\* (_process_addressed_protection): for whatever bar was executed in part, torn and
\* executed again.
THEOREM ProtectionActsCorrect == Spec => []ProtectionActs
<1>1. TypeInv /\ OutcomeInv /\ BookInv /\ GuardInv => ProtectionActs
  <2> SUFFICES ASSUME TypeInv, OutcomeInv, BookInv, GuardInv, Decides, trade.qty > 0 PROVE ProtectionActs
    BY DEF ProtectionActs
  <2>1. pc = "work" /\ cursor >= Len(bars) /\ trade.stop > 0
    BY DEF Decides, BookInv, RowsOK
  <2>2. trade.phase \in Manageable
    <3>1. trade.phase \notin Finished
      BY DEF OutcomeInv, JournalOK
    <3>2. ~Unopened
      BY DEF BookInv, RowsOK, Zero
    <3> QED
      BY <3>1, <3>2 DEF TypeInv, TradeType, Phases, Unopened, Manageable, Finished
  <2>3. cursor = Boundary
    BY <2>1, <2>2 DEF BookInv, ClockOK
  <2>4. Boundary = RestartAt(trade)
    BY <2>2, LiveBoundary DEF TypeInv, Live
  <2>5. /\ trade.executed \in Nat /\ trade.observed \in Nat /\ cursor \in Nat /\ Len(bars) \in Nat
        /\ trade.executed <= Len(bars) /\ cursor <= Len(bars)
    BY ClockIs DEF BookInv
  <2>6. trade.executed <= trade.observed /\ trade.observed = cursor
    BY <2>1, <2>3, <2>4, <2>5 DEF RestartAt
  <2> QED
    BY <2>1, <2>2, <2>6 DEF GuardInv, ObservedOK, ProtectionActs
<1> QED
  BY <1>1, GuardInvCorrect, PTL

=============================================================================
