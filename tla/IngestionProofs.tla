-------------------------- MODULE IngestionProofs --------------------------
(* Proofs about the market data side, for any pairs, minutes, bars, versions,  *)
(* pages, connections, limits, restarts and failures.                          *)
(*                                                                             *)
(* MarketFeed: the reader's cache implements FeedCopy. While the reader        *)
(* follows the producer whose database is in place (InStep), every copy covers *)
(* the reader's cursor and the floor of its binding (CopyInv), because a page  *)
(* holds every change behind the cursor up to its last one (PageInv), and this *)
(* is so because the retained edge was not behind the cursor when the page was *)
(* checked (SelectInv). A reader that is out of step rejoins only with an      *)
(* empty cache (EmptyInv). GapResolution, StreamHandoff and CandleStore        *)
(* follow, and the types of all four.                                          *)
EXTENDS MCData, FiniteSetTheorems, WellFoundedInduction, SequenceTheorems, TLAPS

-----------------------------------------------------------------------------
(* MarketFeed.                                                                 *)

CopyType == [source : Nat \ {0}, at : Nat]
RowType == [copy : CopyType \cup {Nothing}, floor : Nat, absent : BOOLEAN]
FrameType == [pair : Traded, copy : CopyType]
ChangeType == [id : Nat, pair : Pairs, kind : {"candle", "absent"}]
PageType == [changes : SUBSET ChangeType, next : Nat, more : BOOLEAN]
Places == {"off", "open", "idle", "bind", "frame", "bound", "select", "apply", "caught", "rebuild", "edge"}
ReaderType == [at : Places, producer : Nat, cursor : Nat, todo : SUBSET Traded, floor : Nat,
               frame : FrameType \cup {Nothing}, page : PageType]

DbTypes ==
    /\ db \in [producer : Nat \ {0}, feed : Seq(Entry), pruned : Nat]
    /\ db.pruned <= Len(db.feed)
    /\ ack \in [producer : Nat, through : Nat]
ReaderTypes ==
    /\ ready \subseteq Traded /\ wanted \subseteq Traded
    /\ cache \in [Traded -> RowType]
    /\ reader \in ReaderType
    /\ applied \in [source : Nat \ {0}, upTo : Nat]

(* Positions of a pair's candles in the feed; v is not older than the first n. *)
IsCandle(p, i) == i \in 1..Len(db.feed) /\ db.feed[i] = [pair |-> p, kind |-> "candle"]
Covers(p, n, v) == \A i \in 1..n : IsCandle(p, i) => i <= v

InStep == reader.producer = db.producer
SourcesInv ==
    /\ applied.source <= db.producer /\ reader.producer <= db.producer
    /\ \A p \in Traded : cache[p].copy # Nothing => cache[p].copy.source <= db.producer
    /\ reader.at \in {"off", "open"} <=> reader.producer = 0
EmptyInv ==
    /\ reader.at \in {"off", "open", "edge"} => \A p \in Traded : cache[p].copy = Nothing
    /\ \A p \in Traded : cache[p].copy = Nothing => cache[p].floor = 0
    /\ reader.at \in {"bind", "frame", "bound", "select", "apply"} => \A p \in reader.todo : cache[p].copy = Nothing
AppliedInv ==
    applied.source = db.producer => /\ applied.upTo <= Len(db.feed)
                                    /\ InStep => applied.upTo <= reader.cursor
CopyInv ==
    InStep =>
      /\ reader.cursor <= Len(db.feed)
      /\ \A p \in Traded : cache[p].copy # Nothing =>
           /\ cache[p].copy.source = db.producer
           /\ cache[p].floor <= Len(db.feed)
           /\ Covers(p, reader.cursor, cache[p].copy.at) /\ Covers(p, cache[p].floor, cache[p].copy.at)
FrameInv ==
    /\ reader.at \in {"frame", "bound"} /\ InStep => reader.floor <= Len(db.feed)
    /\ reader.at = "bound" =>
         LET p == reader.frame.pair
             c == reader.frame.copy
         IN  /\ reader.frame \in FrameType /\ p \notin reader.todo /\ cache[p].copy = Nothing
             /\ c.source <= db.producer
             /\ InStep => c.source = db.producer /\ Covers(p, reader.floor, c.at) /\ Covers(p, reader.cursor, c.at)
             /\ c.source = db.producer => c.at = 0 \/ IsCandle(p, c.at)
             /\ c.source = db.producer /\ applied.source = db.producer => Covers(p, applied.upTo, c.at)
SelectInv == reader.at = "select" => InStep /\ db.pruned <= reader.cursor
PageInv ==
    reader.at = "apply" =>
      /\ \A c \in reader.page.changes : reader.cursor < c.id /\ c.id <= reader.page.next
      /\ reader.cursor <= reader.page.next
      /\ InStep => /\ reader.page.next <= Len(db.feed)
                   /\ \A c \in reader.page.changes : db.feed[c.id] = [pair |-> c.pair, kind |-> c.kind]
                   /\ \A i \in (reader.cursor + 1)..reader.page.next :
                        [id |-> i, pair |-> db.feed[i].pair, kind |-> db.feed[i].kind] \in reader.page.changes

FeedIInv == DbTypes /\ ReaderTypes /\ SourcesInv /\ EmptyInv /\ AppliedInv /\ CopyInv /\ FrameInv /\ SelectInv /\ PageInv

-----------------------------------------------------------------------------
(* Largest members of bounded sets, and the newest candles.                    *)

LEMMA FiniteUpTo == ASSUME NEW n \in Nat PROVE IsFiniteSet(1..n)
BY FS_Interval

LEMMA LargestExists ==
  ASSUME NEW n \in Nat, NEW S, S \subseteq 1..n, S # {}
  PROVE  \E x \in S : \A y \in S : y <= x
<1> DEFINE T == {m..n : m \in S}
<1>1. IsFiniteSet(1..n)
  BY FS_Interval
<1>2. IsWellFoundedOn(StrictSubsetOrdering(1..n), FiniteSubsetsOf(1..n))
  BY FS_StrictSubsetOrderingWellFounded
<1>3. T \subseteq FiniteSubsetsOf(1..n) /\ T # {}
  <2>1. \A m \in S : m..n \subseteq 1..n /\ IsFiniteSet(m..n)
    BY <1>1, FS_Subset, FS_Interval
  <2> QED
    BY <2>1 DEF FiniteSubsetsOf
<1> HIDE DEF T
<1>4. PICK A \in T : \A B \in T : <<B, A>> \notin StrictSubsetOrdering(1..n)
  BY <1>2, <1>3, WFMin
<1>5. PICK x \in S : A = x..n
  BY <1>4 DEF T
<1>6. ASSUME NEW y \in S, y > x PROVE FALSE
  <2>1. y..n \in T /\ y..n \subseteq 1..n /\ A \subseteq 1..n
    BY <1>5 DEF T
  <2>2. y..n \subseteq A /\ x \in A /\ x \notin y..n
    BY <1>5, <1>6
  <2>3. <<y..n, A>> \in StrictSubsetOrdering(1..n)
    BY <2>1, <2>2, <1>1, FS_Subset DEF StrictSubsetOrdering, FiniteSubsetsOf
  <2> QED
    BY <2>1, <2>3, <1>4
<1> QED
  BY <1>6

LEMMA ChosenLargest ==
  ASSUME NEW n \in Nat, NEW S, S \subseteq 1..n, S # {}, NEW x, x = CHOOSE i \in S : \A j \in S : j <= i
  PROVE  x \in S /\ \A y \in S : y <= x
BY LargestExists

LEMMA UpTo ==
  ASSUME NEW p, NEW n \in Nat, db.feed \in Seq(Entry)
  PROVE  /\ Copies!CandleUpTo(p, n) \in 0..n
         /\ Copies!CandleUpTo(p, n) # 0 => IsCandle(p, Copies!CandleUpTo(p, n))
         /\ Covers(p, n, Copies!CandleUpTo(p, n))
<1> DEFINE S == {i \in 1..n : i <= Len(db.feed) /\ db.feed[i] = [pair |-> p, kind |-> "candle"]}
<1> DEFINE x == CHOOSE i \in S : \A j \in S : j <= i
<1>1. Len(db.feed) \in Nat
  BY LenProperties
<1>2. Copies!CandleUpTo(p, n) = IF S = {} THEN 0 ELSE x
  BY DEF Copies!CandleUpTo
<1>3. S \subseteq 1..n /\ \A i \in 1..n : i \in S <=> IsCandle(p, i)
  BY <1>1 DEF IsCandle
<1>4. CASE S = {}
  BY <1>2, <1>3, <1>4 DEF Covers
<1>5. CASE S # {}
  <2>1. x \in S /\ \A y \in S : y <= x
    <3> HIDE DEF S
    <3> QED
      BY <1>3, <1>5, ChosenLargest
  <2> HIDE DEF S, x
  <2> QED
    BY <1>2, <1>3, <1>5, <2>1 DEF Covers
<1> QED
  BY <1>4, <1>5

LEMMA NewestCandle ==
  ASSUME NEW p, db.feed \in Seq(Entry)
  PROVE  /\ Newest(p) \in Nat /\ (Newest(p) = 0 \/ IsCandle(p, Newest(p)))
         /\ \A n \in Nat : n <= Len(db.feed) => Covers(p, n, Newest(p))
<1>1. Len(db.feed) \in Nat
  BY LenProperties
<1>2. Newest(p) = Copies!CandleUpTo(p, Len(db.feed))
  <2>1. Candles(p) = {i \in 1..Len(db.feed) : i <= Len(db.feed) /\ db.feed[i] = [pair |-> p, kind |-> "candle"]}
    BY <1>1 DEF Candles
  <2> QED
    BY <2>1 DEF Newest, Copies!CandleUpTo
<1> HIDE DEF Newest
<1> QED
  BY <1>1, <1>2, UpTo DEF Covers

(* A version the abstract copy may take.                                       *)
LEMMA Versions ==
  ASSUME NEW p, NEW v \in Nat, db.feed \in Seq(Entry), v = 0 \/ IsCandle(p, v)
  PROVE  v \in {Copies!CandleUpTo(p, n) : n \in 0..Len(db.feed)}
<1>1. Len(db.feed) \in Nat
  BY LenProperties
<1>2. v \in 0..Len(db.feed)
  BY <1>1 DEF IsCandle
<1>3. Copies!CandleUpTo(p, v) = v
  BY <1>1, <1>2, UpTo DEF Covers, IsCandle
<1> QED
  BY <1>2, <1>3

LEMMA NotOlderThan ==
  ASSUME NEW p, NEW n \in Nat, NEW v \in Nat, db.feed \in Seq(Entry), Covers(p, n, v)
  PROVE  v >= Copies!CandleUpTo(p, n)
<1>1. Len(db.feed) \in Nat
  BY LenProperties
<1> QED
  BY <1>1, UpTo DEF Covers

-----------------------------------------------------------------------------
(* The invariant.                                                              *)

LEMMA EdgeIsLength ==
  ASSUME DbTypes
  PROVE  Edge = Len(db.feed) /\ Len(db.feed) \in Nat
<1>1. Len(db.feed) \in Nat /\ db.pruned \in Nat /\ db.pruned <= Len(db.feed)
  BY LenProperties DEF DbTypes
<1> QED
  BY <1>1 DEF Edge, Max2

LEMMA FeedInitIInv == FeedInit => FeedIInv
<1> SUFFICES ASSUME FeedInit PROVE FeedIInv
  OBVIOUS
<1> USE DEF FeedInit, FreshDb, NoAck, Unbound, NoReader
<1>1. <<>> \in Seq(Entry) /\ Len(<<>>) = 0
  BY EmptySeq
<1>2. DbTypes
  BY <1>1 DEF DbTypes
<1>3. NoPage \in PageType
  BY DEF NoPage, PageType
<1>4. ReaderTypes
  BY <1>3 DEF ReaderTypes, RowType, ReaderType, Places
<1>5. SourcesInv /\ EmptyInv /\ AppliedInv
  BY <1>1 DEF SourcesInv, EmptyInv, AppliedInv, InStep
<1>6. CopyInv /\ FrameInv /\ SelectInv /\ PageInv
  BY DEF CopyInv, FrameInv, SelectInv, PageInv, InStep
<1> QED
  BY <1>2, <1>4, <1>5, <1>6 DEF FeedIInv

(* A step that leaves the feed, the copies and the reader alone.               *)
LEMMA QuietStep ==
  ASSUME FeedIInv, DbTypes', ReaderTypes', db'.producer = db.producer, db'.feed = db.feed,
         reader.at = "select" => db'.pruned <= reader.cursor,
         UNCHANGED <<cache, reader, applied>>
  PROVE  FeedIInv'
<1> USE DEF FeedIInv
<1>1. SourcesInv' /\ EmptyInv' /\ AppliedInv'
  BY DEF SourcesInv, EmptyInv, AppliedInv, InStep
<1>2. CopyInv'
  BY DEF CopyInv, InStep, Covers, IsCandle
<1>3. FrameInv'
  BY DEF FrameInv, InStep, Covers, IsCandle
<1>4. SelectInv' /\ PageInv'
  BY DEF SelectInv, PageInv, InStep
<1> QED
  BY <1>1, <1>2, <1>3, <1>4

LEMMA PublishStep ==
  ASSUME FeedIInv, NEW p \in Pairs, NEW kind \in {"candle", "absent"}, Publish(p, kind)
  PROVE  FeedIInv'
<1> USE DEF FeedIInv
<1> DEFINE e == [pair |-> p, kind |-> kind]
<1> DEFINE n == Len(db.feed)
<1>1. db' = [db EXCEPT !.feed = Append(db.feed, e)] /\ UNCHANGED <<ready, ack, wanted, cache, reader, applied, spent>>
  BY DEF Publish
<1>2. e \in Entry /\ db.feed \in Seq(Entry) /\ n \in Nat
  BY LenProperties DEF Entry, DbTypes
<1>3. /\ Append(db.feed, e) \in Seq(Entry) /\ Len(Append(db.feed, e)) = n + 1
      /\ \A i \in 1..n : Append(db.feed, e)[i] = db.feed[i]
  BY <1>2, AppendProperties
<1> HIDE DEF e
<1>4. /\ db' \in [producer : Nat \ {0}, feed : Seq(Entry), pruned : Nat] /\ db'.producer = db.producer
      /\ db'.pruned = db.pruned /\ db'.feed = Append(db.feed, e)
  BY <1>1, <1>3 DEF DbTypes
<1>5. Len(db'.feed) = n + 1 /\ \A i \in 1..n : db'.feed[i] = db.feed[i]
  BY <1>3, <1>4
<1>6. db.pruned \in Nat
  BY DEF DbTypes
<1>7. DbTypes' /\ ReaderTypes'
  BY <1>1, <1>2, <1>4, <1>5, <1>6 DEF DbTypes, ReaderTypes
<1>8. \A k \in Nat : k <= n => \A i \in 1..k : i \in 1..n /\ i \in 1..Len(db'.feed) /\ db'.feed[i] = db.feed[i]
  BY <1>2, <1>5
<1>9. \A q \in Traded, k \in Nat, v \in Nat : k <= n => (\A i \in 1..k : i \in 1..Len(db'.feed) /\ db'.feed[i] = [pair |-> q, kind |-> "candle"] => i <= v)
                                                  \/ ~Covers(q, k, v)
  BY <1>8 DEF Covers, IsCandle
<1>10. /\ reader.cursor \in Nat /\ reader.floor \in Nat /\ applied.upTo \in Nat /\ reader.page.next \in Nat
       /\ \A q \in Traded : cache[q].floor \in Nat /\ (cache[q].copy # Nothing => cache[q].copy.at \in Nat)
  BY DEF ReaderTypes, ReaderType, RowType, CopyType, PageType
<1>11. SourcesInv' /\ EmptyInv' /\ AppliedInv'
  BY <1>1, <1>2, <1>4, <1>5, <1>10 DEF SourcesInv, EmptyInv, AppliedInv, InStep
<1>12. CopyInv'
  <2> SUFFICES ASSUME InStep' PROVE CopyInv!2'
    BY DEF CopyInv
  <2>1. InStep
    BY <1>1, <1>4 DEF InStep
  <2>2. reader'.cursor <= Len(db'.feed)
    BY <1>1, <1>2, <1>5, <1>10, <2>1 DEF CopyInv
  <2>3. ASSUME NEW q \in Traded, cache[q].copy # Nothing
        PROVE  /\ cache[q].copy.source = db'.producer
               /\ cache[q].floor <= Len(db'.feed)
               /\ Covers(q, reader.cursor, cache[q].copy.at)'
               /\ Covers(q, cache[q].floor, cache[q].copy.at)'
    <3>1. /\ cache[q].copy.source = db.producer /\ cache[q].floor <= n
          /\ Covers(q, reader.cursor, cache[q].copy.at) /\ Covers(q, cache[q].floor, cache[q].copy.at)
          /\ reader.cursor <= n
      BY <2>1, <2>3 DEF CopyInv
    <3>2. Covers(q, reader.cursor, cache[q].copy.at)' /\ Covers(q, cache[q].floor, cache[q].copy.at)'
      BY <1>1, <1>9, <1>10, <2>3, <3>1 DEF Covers, IsCandle
    <3> QED
      BY <1>2, <1>4, <1>5, <1>10, <3>1, <3>2
  <2> QED
    BY <1>1, <2>2, <2>3
<1>13. FrameInv'
  <2>1. reader.at \in {"frame", "bound"} /\ InStep' => reader'.floor <= Len(db'.feed)
    BY <1>1, <1>2, <1>4, <1>5, <1>10 DEF FrameInv, InStep
  <2>2. ASSUME reader.at = "bound" PROVE FrameInv!2!2'
    <3> DEFINE q == reader.frame.pair
    <3> DEFINE c == reader.frame.copy
    <3>1. reader.frame \in FrameType /\ q \in Traded /\ c \in CopyType
      BY <2>2 DEF FrameInv, FrameType
    <3>2. c.at \in Nat
      BY <3>1 DEF CopyType
    <3>3. InStep' => c.source = db'.producer /\ Covers(q, reader.floor, c.at)' /\ Covers(q, reader.cursor, c.at)'
      <4> SUFFICES ASSUME InStep PROVE c.source = db.producer /\ Covers(q, reader.floor, c.at)' /\ Covers(q, reader.cursor, c.at)'
        BY <1>1, <1>4 DEF InStep
      <4>1. /\ c.source = db.producer /\ Covers(q, reader.floor, c.at) /\ Covers(q, reader.cursor, c.at)
            /\ reader.floor <= n /\ reader.cursor <= n
        BY <2>2 DEF FrameInv, CopyInv
      <4> QED
        BY <1>1, <1>9, <1>10, <3>1, <3>2, <4>1 DEF Covers, IsCandle
    <3>4. c.source = db.producer => c.at = 0 \/ IsCandle(q, c.at)'
      BY <1>1, <1>2, <1>5, <2>2, <3>2 DEF FrameInv, IsCandle
    <3>5. c.source = db.producer /\ applied.source = db.producer => Covers(q, applied.upTo, c.at)'
      <4> SUFFICES ASSUME c.source = db.producer, applied.source = db.producer PROVE Covers(q, applied.upTo, c.at)'
        OBVIOUS
      <4>1. Covers(q, applied.upTo, c.at) /\ applied.upTo <= n
        BY <2>2 DEF FrameInv, AppliedInv
      <4> QED
        BY <1>1, <1>9, <1>10, <3>1, <3>2, <4>1 DEF Covers, IsCandle
    <3> QED
      BY <1>1, <1>4, <2>2, <3>1, <3>3, <3>4, <3>5 DEF FrameInv
  <2> QED
    BY <1>1, <2>1, <2>2 DEF FrameInv
<1>14. SelectInv'
  BY <1>1, <1>4 DEF SelectInv, InStep
<1>15. PageInv'
  <2> SUFFICES ASSUME reader.at = "apply" PROVE PageInv!2'
    BY <1>1 DEF PageInv
  <2>1. /\ \A c \in reader.page.changes : reader.cursor < c.id /\ c.id <= reader.page.next
        /\ reader.cursor <= reader.page.next
    BY DEF PageInv
  <2>2. ASSUME InStep
        PROVE /\ reader.page.next <= n + 1
              /\ \A c \in reader.page.changes : db'.feed[c.id] = [pair |-> c.pair, kind |-> c.kind]
              /\ \A i \in (reader.cursor + 1)..reader.page.next :
                   [id |-> i, pair |-> db'.feed[i].pair, kind |-> db'.feed[i].kind] \in reader.page.changes
    <3>1. /\ reader.page.next <= n
          /\ \A c \in reader.page.changes : db.feed[c.id] = [pair |-> c.pair, kind |-> c.kind]
          /\ \A i \in (reader.cursor + 1)..reader.page.next :
               [id |-> i, pair |-> db.feed[i].pair, kind |-> db.feed[i].kind] \in reader.page.changes
      BY <2>2 DEF PageInv
    <3>2. \A c \in reader.page.changes : c.id \in 1..n
      <4>1. \A c \in reader.page.changes : c.id \in Nat
        BY DEF ReaderTypes, ReaderType, PageType, ChangeType
      <4> QED
        BY <4>1, <2>1, <3>1, <1>2, <1>10
    <3>3. \A i \in (reader.cursor + 1)..reader.page.next : i \in 1..n
      BY <1>2, <1>10, <3>1
    <3>4. reader.page.next <= n + 1
      BY <1>2, <1>10, <3>1
    <3>5. \A i \in 1..n : db'.feed[i] = db.feed[i]
      BY <1>5
    <3> QED
      BY <3>1, <3>2, <3>3, <3>4, <3>5
  <2> QED
    BY <1>1, <1>4, <1>5, <2>1, <2>2 DEF InStep
<1> QED
  BY <1>7, <1>11, <1>12, <1>13, <1>14, <1>15

LEMMA StoreStep ==
  ASSUME FeedIInv, Prune \/ Readiness \/ Acknowledge \/ \E p \in Traded : Want(p)
  PROVE  FeedIInv'
<1> USE DEF FeedIInv
<1>1. CASE Prune
  <2>1. PICK last \in (db.pruned + 1)..Len(db.feed) :
           /\ reader.at = "select" => last <= reader.cursor
           /\ db' = [db EXCEPT !.pruned = last]
           /\ UNCHANGED <<ready, ack, wanted, cache, reader, applied, spent>>
    BY <1>1 DEF Prune
  <2>2. Len(db.feed) \in Nat /\ db.pruned \in Nat
    BY EdgeIsLength DEF DbTypes
  <2>3. last \in Nat /\ last <= Len(db.feed)
    BY <2>2
  <2>4. db' \in [producer : Nat \ {0}, feed : Seq(Entry), pruned : Nat] /\ db'.producer = db.producer
        /\ db'.feed = db.feed /\ db'.pruned = last
    BY <2>1, <2>3 DEF DbTypes
  <2>5. DbTypes' /\ ReaderTypes'
    BY <2>1, <2>3, <2>4 DEF DbTypes, ReaderTypes
  <2> QED
    BY <2>1, <2>4, <2>5, QuietStep
<1>2. CASE Readiness
  <2>1. DbTypes' /\ ReaderTypes'
    BY <1>2 DEF Readiness, DbTypes, ReaderTypes
  <2> QED
    BY <1>2, <2>1, QuietStep DEF Readiness, SelectInv
<1>3. CASE Acknowledge
  <2>1. ack' \in [producer : Nat, through : Nat] /\ UNCHANGED <<db, ready, wanted, cache, reader, applied, spent>>
    BY <1>3 DEF Acknowledge, DbTypes, ReaderTypes, Max2
  <2>2. DbTypes' /\ ReaderTypes'
    BY <2>1 DEF DbTypes, ReaderTypes
  <2> QED
    BY <2>1, <2>2, QuietStep DEF SelectInv
<1>4. ASSUME NEW p \in Traded, Want(p) PROVE FeedIInv'
  <2>1. DbTypes' /\ ReaderTypes'
    BY <1>4 DEF Want, DbTypes, ReaderTypes
  <2> QED
    BY <1>4, <2>1, QuietStep DEF Want, SelectInv
<1> QED
  BY <1>1, <1>2, <1>3, <1>4

LEMMA ReplaceStep ==
  ASSUME FeedIInv, Replace
  PROVE  FeedIInv'
<1> USE DEF FeedIInv
<1>1. /\ db' = [producer |-> db.producer + 1, feed |-> <<>>, pruned |-> 0]
      /\ ready' = {} /\ ack' = [producer |-> 0, through |-> 0] /\ UNCHANGED <<wanted, cache, reader, applied>>
      /\ reader.at # "select"
  BY DEF Replace, FreshDb, NoAck
<1>2. <<>> \in Seq(Entry) /\ Len(<<>>) = 0
  BY EmptySeq
<1>3. db.producer \in Nat /\ applied.source \in Nat /\ reader.producer \in Nat
  BY DEF DbTypes, ReaderTypes, ReaderType
<1>4. DbTypes' /\ ReaderTypes'
  BY <1>1, <1>2, <1>3 DEF DbTypes, ReaderTypes
<1>5. ~InStep' /\ db'.producer = db.producer + 1 /\ applied'.source # db'.producer
  BY <1>1, <1>3 DEF InStep, SourcesInv
<1>6. SourcesInv'
  <2>1. \A p \in Traded : cache[p].copy # Nothing => cache[p].copy.source \in Nat
    BY DEF ReaderTypes, RowType, CopyType
  <2> QED
    BY <1>1, <1>3, <1>5, <2>1 DEF SourcesInv
<1>7. EmptyInv' /\ AppliedInv' /\ CopyInv' /\ SelectInv' /\ PageInv'
  BY <1>1, <1>5 DEF EmptyInv, AppliedInv, CopyInv, SelectInv, PageInv
<1>8. FrameInv'
  <2>1. ASSUME reader.at = "bound"
        PROVE reader.frame.copy.source <= db'.producer /\ reader.frame.copy.source # db'.producer
    <3>1. reader.frame.copy.source <= db.producer /\ reader.frame.copy.source \in Nat
      BY <2>1 DEF FrameInv, FrameType, CopyType
    <3> QED
      BY <1>3, <1>5, <3>1
  <2> QED
    BY <1>1, <1>5, <2>1 DEF FrameInv
<1> QED
  BY <1>4, <1>6, <1>7, <1>8

(* The reader moves on with its cache, its cursor and what it has applied as   *)
(* they are.                                                                   *)
LEMMA CarriedOver ==
  ASSUME FeedIInv, UNCHANGED <<db, cache, applied>>, reader'.cursor = reader.cursor, reader'.producer = reader.producer,
         reader'.at \in {"off", "open"} <=> reader.at \in {"off", "open"}
  PROVE  SourcesInv' /\ AppliedInv' /\ CopyInv'
BY DEF FeedIInv, SourcesInv, AppliedInv, CopyInv, InStep, Covers, IsCandle

LEMMA ContourStartsStep ==
  ASSUME FeedIInv, ContourStarts
  PROVE  FeedIInv'
<1> USE DEF FeedIInv
<1>1. /\ reader.at = "off" /\ reader' = [NoReader EXCEPT !.at = "open"] /\ wanted' \subseteq Traded
      /\ UNCHANGED <<db, ready, ack, cache, applied, spent>>
  BY DEF ContourStarts, Alive
<1>2. NoPage \in PageType
  BY DEF NoPage, PageType
<1>3. /\ reader' \in ReaderType /\ reader'.at = "open" /\ reader'.producer = 0
  BY <1>1, <1>2 DEF NoReader, ReaderType, Places
<1>4. DbTypes' /\ ReaderTypes'
  BY <1>1, <1>3 DEF DbTypes, ReaderTypes
<1>5. ~InStep'
  BY <1>1, <1>3 DEF InStep, DbTypes
<1>6. SourcesInv' /\ EmptyInv' /\ AppliedInv' /\ CopyInv' /\ FrameInv' /\ SelectInv' /\ PageInv'
  BY <1>1, <1>3, <1>5 DEF SourcesInv, EmptyInv, AppliedInv, CopyInv, FrameInv, SelectInv, PageInv, DbTypes
<1> QED
  BY <1>4, <1>6

LEMMA ReaderOpensStep ==
  ASSUME FeedIInv, ReaderOpens
  PROVE  FeedIInv'
<1> USE DEF FeedIInv
<1> DEFINE kept == ack.producer = db.producer /\ ack.through >= db.pruned
<1> DEFINE cursor == IF kept THEN Min2(ack.through, Edge) ELSE Edge
<1>1. /\ reader.at = "open" /\ reader' = [reader EXCEPT !.at = "idle", !.producer = db.producer, !.cursor = cursor]
      /\ applied' = [source |-> db.producer, upTo |-> cursor]
      /\ UNCHANGED <<db, ready, ack, wanted, cache, spent>>
  BY DEF ReaderOpens
<1>2. cursor \in Nat /\ cursor <= Len(db.feed) /\ Len(db.feed) \in Nat
  BY EdgeIsLength DEF Min2, DbTypes
<1> HIDE DEF cursor
<1>3. db.producer \in Nat \ {0}
  BY DEF DbTypes
<1>4. /\ reader' \in ReaderType /\ reader'.at = "idle" /\ reader'.producer = db.producer /\ reader'.cursor = cursor
  BY <1>1, <1>2, <1>3 DEF ReaderTypes, ReaderType, Places
<1>5. DbTypes' /\ ReaderTypes'
  BY <1>1, <1>2, <1>3, <1>4 DEF DbTypes, ReaderTypes
<1>6. \A p \in Traded : cache'[p].copy = Nothing
  BY <1>1 DEF EmptyInv
<1>7. SourcesInv' /\ EmptyInv' /\ AppliedInv' /\ CopyInv' /\ FrameInv' /\ SelectInv' /\ PageInv'
  BY <1>1, <1>2, <1>3, <1>4, <1>6 DEF SourcesInv, EmptyInv, AppliedInv, CopyInv, FrameInv, SelectInv, PageInv
<1> QED
  BY <1>5, <1>7

LEMMA PollStartsStep ==
  ASSUME FeedIInv, PollStarts
  PROVE  FeedIInv'
<1> USE DEF FeedIInv
<1> DEFINE todo == {p \in wanted \cap ready : cache[p].copy = Nothing}
<1>1. /\ reader.at = "idle" /\ cache' = [p \in Traded |-> IF p \in ready THEN cache[p] ELSE Unbound]
      /\ reader' = [reader EXCEPT !.at = "bind", !.todo = todo]
      /\ UNCHANGED <<db, ready, ack, wanted, applied, spent>>
  BY DEF PollStarts
<1>2. todo \subseteq Traded /\ \A p \in todo : cache[p].copy = Nothing
  BY DEF ReaderTypes
<1> HIDE DEF todo
<1>3. /\ reader' \in ReaderType /\ reader'.at = "bind" /\ reader'.producer = reader.producer
      /\ reader'.cursor = reader.cursor /\ reader'.todo = todo
  BY <1>1, <1>2 DEF ReaderTypes, ReaderType, Places
<1>4. Unbound \in RowType /\ Unbound.copy = Nothing /\ Unbound.floor = 0
  BY DEF Unbound, RowType
<1>5. /\ cache' \in [Traded -> RowType]
      /\ \A p \in Traded : cache'[p] = cache[p] \/ cache'[p] = Unbound
      /\ \A p \in Traded : cache[p].copy = Nothing => cache'[p].copy = Nothing
  BY <1>1, <1>4 DEF ReaderTypes
<1>6. DbTypes' /\ ReaderTypes'
  BY <1>1, <1>3, <1>5 DEF DbTypes, ReaderTypes
<1>7. SourcesInv' /\ EmptyInv' /\ AppliedInv' /\ SelectInv' /\ PageInv' /\ FrameInv'
  BY <1>1, <1>2, <1>3, <1>4, <1>5 DEF SourcesInv, EmptyInv, AppliedInv, SelectInv, PageInv, FrameInv, InStep
<1>8. CopyInv'
  BY <1>1, <1>3, <1>4, <1>5 DEF CopyInv, InStep, Covers, IsCandle
<1> QED
  BY <1>6, <1>7, <1>8

LEMMA BindEdgeStep ==
  ASSUME FeedIInv, BindEdge
  PROVE  FeedIInv'
<1> USE DEF FeedIInv
<1>1. /\ reader.at = "bind" /\ reader' = [reader EXCEPT !.at = "frame", !.floor = Edge]
      /\ UNCHANGED <<db, ready, ack, wanted, cache, applied, spent>>
  BY DEF BindEdge
<1>2. Edge = Len(db.feed) /\ Edge \in Nat
  BY EdgeIsLength
<1>3. /\ reader' \in ReaderType /\ reader'.at = "frame" /\ reader'.producer = reader.producer
      /\ reader'.cursor = reader.cursor /\ reader'.floor = Edge /\ reader'.todo = reader.todo
  BY <1>1, <1>2 DEF ReaderTypes, ReaderType, Places
<1>4. DbTypes' /\ ReaderTypes'
  BY <1>1, <1>3 DEF DbTypes, ReaderTypes
<1>5. SourcesInv' /\ AppliedInv' /\ CopyInv'
  BY <1>1, <1>3, CarriedOver
<1>6. EmptyInv' /\ FrameInv' /\ SelectInv' /\ PageInv'
  BY <1>1, <1>2, <1>3 DEF EmptyInv, FrameInv, SelectInv, PageInv
<1> QED
  BY <1>4, <1>5, <1>6

LEMMA BindFrameStep ==
  ASSUME FeedIInv, BindFrame
  PROVE  FeedIInv'
<1> USE DEF FeedIInv
<1>1. PICK p \in reader.todo :
        /\ reader.at = "frame"
        /\ reader' = [reader EXCEPT !.at = "bound", !.todo = @ \ {p},
                       !.frame = [pair |-> p, copy |-> [source |-> db.producer, at |-> Newest(p)]]]
        /\ UNCHANGED <<db, ready, ack, wanted, cache, applied, spent>>
  BY DEF BindFrame
<1> DEFINE f == [pair |-> p, copy |-> [source |-> db.producer, at |-> Newest(p)]]
<1>2. p \in Traded /\ reader.todo \subseteq Traded /\ db.producer \in Nat \ {0} /\ db.feed \in Seq(Entry)
  BY DEF ReaderTypes, ReaderType, DbTypes
<1>3. /\ Newest(p) \in Nat /\ (Newest(p) = 0 \/ IsCandle(p, Newest(p)))
      /\ \A n \in Nat : n <= Len(db.feed) => Covers(p, n, Newest(p))
  BY <1>2, NewestCandle
<1>4. f \in FrameType /\ f.pair = p /\ f.copy.source = db.producer /\ f.copy.at = Newest(p)
  BY <1>2, <1>3 DEF FrameType, CopyType
<1>5. reader' = [reader EXCEPT !.at = "bound", !.todo = @ \ {p}, !.frame = f]
  BY <1>1
<1> HIDE DEF f
<1>6. /\ reader' \in ReaderType /\ reader'.at = "bound" /\ reader'.producer = reader.producer
      /\ reader'.cursor = reader.cursor /\ reader'.floor = reader.floor /\ reader'.todo = reader.todo \ {p} /\ reader'.frame = f
  BY <1>2, <1>4, <1>5 DEF ReaderTypes, ReaderType, Places
<1>7. DbTypes' /\ ReaderTypes'
  BY <1>1, <1>6 DEF DbTypes, ReaderTypes
<1>8. SourcesInv' /\ AppliedInv' /\ CopyInv'
  BY <1>1, <1>6, CarriedOver
<1>9. EmptyInv' /\ SelectInv' /\ PageInv'
  BY <1>1, <1>6 DEF EmptyInv, SelectInv, PageInv
<1>10. FrameInv'
  <2>1. reader.cursor \in Nat /\ reader.floor \in Nat /\ applied.upTo \in Nat /\ Len(db.feed) \in Nat
    BY EdgeIsLength DEF ReaderTypes, ReaderType
  <2>2. InStep => reader.floor <= Len(db.feed) /\ reader.cursor <= Len(db.feed)
    BY <1>1 DEF FrameInv, CopyInv
  <2>3. applied.source = db.producer => applied.upTo <= Len(db.feed)
    BY DEF AppliedInv
  <2>4. cache[p].copy = Nothing
    BY <1>1 DEF EmptyInv
  <2>5. InStep => Covers(p, reader.floor, Newest(p)) /\ Covers(p, reader.cursor, Newest(p))
    BY <1>3, <2>1, <2>2
  <2>6. applied.source = db.producer => Covers(p, applied.upTo, Newest(p))
    BY <1>3, <2>1, <2>3
  <2>7. FrameInv!2!2'
    BY <1>1, <1>2, <1>3, <1>4, <1>6, <2>4, <2>5, <2>6 DEF InStep, Covers, IsCandle
  <2> QED
    BY <1>1, <1>6, <2>2, <2>7 DEF FrameInv, InStep
<1> QED
  BY <1>7, <1>8, <1>9, <1>10

LEMMA BindStep ==
  ASSUME FeedIInv, Bind
  PROVE  FeedIInv'
<1> USE DEF FeedIInv
<1> DEFINE p == reader.frame.pair
<1> DEFINE c == reader.frame.copy
<1> DEFINE row == [copy |-> c, floor |-> Max2(reader.floor, cache[p].floor), absent |-> AbsentNow(p)]
<1>1. /\ reader.at = "bound" /\ cache' = [cache EXCEPT ![p] = row]
      /\ reader' = [reader EXCEPT !.at = "bind", !.frame = Nothing, !.floor = 0]
      /\ UNCHANGED <<db, ready, ack, wanted, applied, spent>>
  BY DEF Bind
<1>2. /\ reader.frame \in FrameType /\ p \in Traded /\ c \in CopyType /\ p \notin reader.todo
      /\ cache[p].copy = Nothing /\ cache[p].floor = 0 /\ c.source <= db.producer /\ reader.floor \in Nat
  BY <1>1 DEF FrameInv, FrameType, EmptyInv, ReaderTypes, ReaderType
<1>3. AbsentNow(p) \in BOOLEAN
  BY DEF AbsentNow
<1>4. row \in RowType /\ row.copy = c /\ row.floor = reader.floor
  <2>1. Max2(reader.floor, cache[p].floor) = reader.floor
    BY <1>2 DEF Max2
  <2> QED
    BY <1>2, <1>3, <2>1 DEF RowType
<1>5. c # Nothing
  BY <1>2, FeedAssumption DEF CopyType
<1> HIDE DEF row
<1>6. /\ cache' \in [Traded -> RowType] /\ cache'[p] = row /\ \A q \in Traded \ {p} : cache'[q] = cache[q]
  BY <1>1, <1>2, <1>4 DEF ReaderTypes
<1>7. /\ reader' \in ReaderType /\ reader'.at = "bind" /\ reader'.producer = reader.producer
      /\ reader'.cursor = reader.cursor /\ reader'.todo = reader.todo
  BY <1>1 DEF ReaderTypes, ReaderType, Places
<1>8. DbTypes' /\ ReaderTypes'
  BY <1>1, <1>6, <1>7 DEF DbTypes, ReaderTypes
<1>9. SourcesInv' /\ EmptyInv' /\ AppliedInv' /\ SelectInv' /\ PageInv' /\ FrameInv'
  BY <1>1, <1>2, <1>4, <1>5, <1>6, <1>7 DEF SourcesInv, EmptyInv, AppliedInv, SelectInv, PageInv, FrameInv, InStep
<1>10. CopyInv'
  <2> SUFFICES ASSUME InStep PROVE CopyInv!2'
    BY <1>1, <1>7 DEF CopyInv, InStep
  <2>1. /\ c.source = db.producer /\ Covers(p, reader.floor, c.at) /\ Covers(p, reader.cursor, c.at)
        /\ reader.floor <= Len(db.feed)
    BY <1>1 DEF FrameInv
  <2>2. ASSUME NEW q \in Traded, cache'[q].copy # Nothing
        PROVE  /\ cache'[q].copy.source = db'.producer
               /\ cache'[q].floor <= Len(db'.feed)
               /\ Covers(q, reader.cursor, cache[q].copy.at)' /\ Covers(q, cache[q].floor, cache[q].copy.at)'
    <3>1. CASE q = p
      BY <3>1, <1>1, <1>4, <1>6, <1>7, <2>1 DEF Covers, IsCandle
    <3>2. CASE q # p
      BY <3>2, <1>1, <1>6, <1>7, <2>2 DEF CopyInv, Covers, IsCandle
    <3> QED
      BY <3>1, <3>2
  <2> QED
    BY <1>1, <1>7, <2>2 DEF CopyInv
<1> QED
  BY <1>8, <1>9, <1>10

LEMMA PageChecksStep ==
  ASSUME FeedIInv, PageChecks
  PROVE  FeedIInv'
<1> USE DEF FeedIInv
<1>1. /\ reader.at = "bind" /\ reader' = [reader EXCEPT !.at = IF Readable THEN "select" ELSE "rebuild"]
      /\ UNCHANGED <<db, ready, ack, wanted, cache, applied, spent>>
  BY DEF PageChecks
<1>2. /\ reader' \in ReaderType /\ reader'.at \in {"select", "rebuild"} /\ (reader'.at = "select" => Readable)
      /\ reader'.producer = reader.producer /\ reader'.cursor = reader.cursor /\ reader'.todo = reader.todo
  BY <1>1 DEF ReaderTypes, ReaderType, Places
<1>3. DbTypes' /\ ReaderTypes'
  BY <1>1, <1>2 DEF DbTypes, ReaderTypes
<1>4. SourcesInv' /\ AppliedInv' /\ CopyInv'
  BY <1>1, <1>2, CarriedOver
<1>5. EmptyInv' /\ FrameInv' /\ PageInv'
  BY <1>1, <1>2 DEF EmptyInv, FrameInv, PageInv
<1>6. SelectInv'
  BY <1>1, <1>2 DEF SelectInv, Readable, InStep, DbTypes, ReaderTypes, ReaderType
<1> QED
  BY <1>3, <1>4, <1>5, <1>6

(* A page holds every change behind the cursor up to its last one.             *)
LEMMA PageIsWhole ==
  ASSUME DbTypes, NEW n \in Nat, db.pruned <= n, n <= Len(db.feed)
  PROVE  /\ PageAfter(n) \in PageType
         /\ n <= PageAfter(n).next /\ PageAfter(n).next <= Len(db.feed)
         /\ \A c \in PageAfter(n).changes : /\ n < c.id /\ c.id <= PageAfter(n).next
                                             /\ db.feed[c.id] = [pair |-> c.pair, kind |-> c.kind]
         /\ \A i \in (n + 1)..PageAfter(n).next :
               [id |-> i, pair |-> db.feed[i].pair, kind |-> db.feed[i].kind] \in PageAfter(n).changes
<1> DEFINE left == {i \in 1..Len(db.feed) : i > n /\ i > db.pruned}
<1> DEFINE got == {i \in left : Cardinality({j \in left : j <= i}) <= FeedPage}
<1> DEFINE more == left # got
<1> DEFINE page == PageAfter(n)
<1>1. /\ page.changes = {[id |-> i, pair |-> db.feed[i].pair, kind |-> db.feed[i].kind] : i \in got}
      /\ page.next = IF got = {} THEN n ELSE CHOOSE i \in got : \A j \in got : j <= i
      /\ page = [changes |-> page.changes, next |-> page.next, more |-> more]
  BY DEF PageAfter
<1>2. Len(db.feed) \in Nat /\ db.pruned \in Nat /\ \A i \in 1..Len(db.feed) : db.feed[i] \in Entry
  BY EdgeIsLength, ElementOfSeq DEF DbTypes
<1>3. /\ \A i \in left : i \in 1..Len(db.feed) /\ n < i
      /\ \A i \in (n + 1)..Len(db.feed) : i \in left
  BY <1>2
<1>4. IsFiniteSet(left)
  <2>1. left \subseteq 1..Len(db.feed)
    OBVIOUS
  <2>2. IsFiniteSet(1..Len(db.feed))
    BY <1>2, FiniteUpTo
  <2> HIDE DEF left
  <2> QED
    BY <2>1, <2>2, FS_Subset
<1>5. \A i \in got, k \in left : k <= i => k \in got
  <2> SUFFICES ASSUME NEW i \in got, NEW k \in left, k <= i PROVE Cardinality({j \in left : j <= k}) <= FeedPage
    OBVIOUS
  <2> DEFINE upI == {j \in left : j <= i}
  <2> DEFINE upK == {j \in left : j <= k}
  <2>1. upK \subseteq upI
    BY <1>2
  <2>2. upI \subseteq left
    OBVIOUS
  <2>3. Cardinality(upI) <= FeedPage
    OBVIOUS
  <2> HIDE DEF upI, upK, left, got
  <2>4. IsFiniteSet(upI)
    BY <1>4, <2>2, FS_Subset
  <2>5. Cardinality(upK) <= Cardinality(upI) /\ Cardinality(upK) \in Nat /\ Cardinality(upI) \in Nat
    BY <2>1, <2>4, FS_Subset, FS_CardinalityType
  <2>6. Cardinality(upK) <= FeedPage
    BY <2>3, <2>5, FeedAssumption
  <2> QED
    BY <2>6 DEF upK
<1>6. got \subseteq left
  OBVIOUS
<1>9. more \in BOOLEAN
  OBVIOUS
<1> HIDE DEF left, got, page, more
<1>7. CASE got = {}
  <2>1. page.next = n /\ page.changes = {}
    BY <1>1, <1>7
  <2>2. page \in PageType
    <3>1. [changes |-> page.changes, next |-> page.next, more |-> more] \in PageType
      BY <1>9, <2>1 DEF PageType
    <3> QED
      BY <1>1, <3>1
  <2> QED
    BY <2>1, <2>2, <1>2 DEF page
<1>8. CASE got # {}
  <2>1. got \subseteq 1..Len(db.feed)
    BY <1>3, <1>6
  <2>2. page.next \in got /\ \A i \in got : i <= page.next
    BY <1>1, <1>2, <1>8, <2>1, ChosenLargest
  <2>3. page.next \in 1..Len(db.feed) /\ n < page.next
    BY <1>3, <1>6, <2>2
  <2>4. \A c \in page.changes : /\ c \in ChangeType /\ n < c.id /\ c.id <= page.next
                                /\ db.feed[c.id] = [pair |-> c.pair, kind |-> c.kind]
    <3> SUFFICES ASSUME NEW i \in got
                 PROVE LET c == [id |-> i, pair |-> db.feed[i].pair, kind |-> db.feed[i].kind]
                       IN  /\ c \in ChangeType /\ n < c.id /\ c.id <= page.next
                           /\ db.feed[c.id] = [pair |-> c.pair, kind |-> c.kind]
      BY <1>1
    <3>1. i \in 1..Len(db.feed) /\ n < i /\ i <= page.next
      BY <1>3, <1>6, <2>2
    <3>2. db.feed[i] \in Entry
      BY <1>2, <3>1
    <3> QED
      BY <3>1, <3>2 DEF Entry, ChangeType
  <2>5. ASSUME NEW i \in (n + 1)..page.next PROVE i \in got
    <3>1. i \in left
      BY <1>2, <1>3, <2>3
    <3>2. i <= page.next
      BY <2>3
    <3> QED
      BY <3>1, <3>2, <1>5, <2>2
  <2>6. page \in PageType
    <3>1. page.next \in Nat
      BY <1>2, <2>3
    <3>2. page.changes \in SUBSET ChangeType
      BY <2>4
    <3>3. [changes |-> page.changes, next |-> page.next, more |-> more] \in PageType
      BY <1>9, <3>1, <3>2 DEF PageType
    <3> QED
      BY <1>1, <3>3
  <2>7. n <= page.next /\ page.next <= Len(db.feed)
    BY <2>3, <1>2
  <2> QED
    BY <1>1, <2>4, <2>5, <2>6, <2>7 DEF page
<1> QED
  BY <1>7, <1>8

LEMMA PageSelectsStep ==
  ASSUME FeedIInv, PageSelects
  PROVE  FeedIInv'
<1> USE DEF FeedIInv
<1> DEFINE page == PageAfter(reader.cursor)
<1>1. /\ reader.at = "select" /\ reader' = [reader EXCEPT !.at = "apply", !.page = page]
      /\ UNCHANGED <<db, ready, ack, wanted, cache, applied, spent>>
  BY DEF PageSelects
<1>2. reader.cursor \in Nat /\ db.pruned <= reader.cursor /\ reader.cursor <= Len(db.feed)
  BY <1>1 DEF SelectInv, CopyInv, ReaderTypes, ReaderType
<1>3. /\ page \in PageType
      /\ reader.cursor <= page.next /\ page.next <= Len(db.feed)
      /\ \A c \in page.changes : /\ reader.cursor < c.id /\ c.id <= page.next
                                 /\ db.feed[c.id] = [pair |-> c.pair, kind |-> c.kind]
      /\ \A i \in (reader.cursor + 1)..page.next :
            [id |-> i, pair |-> db.feed[i].pair, kind |-> db.feed[i].kind] \in page.changes
  BY <1>2, PageIsWhole
<1> HIDE DEF page
<1>4. /\ reader' \in ReaderType /\ reader'.at = "apply" /\ reader'.producer = reader.producer
      /\ reader'.cursor = reader.cursor /\ reader'.page = page /\ reader'.todo = reader.todo
  BY <1>1, <1>3 DEF ReaderTypes, ReaderType, Places
<1>5. DbTypes' /\ ReaderTypes'
  BY <1>1, <1>4 DEF DbTypes, ReaderTypes
<1>6. SourcesInv' /\ AppliedInv' /\ CopyInv'
  BY <1>1, <1>4, CarriedOver
<1>7. EmptyInv' /\ FrameInv' /\ SelectInv'
  BY <1>1, <1>4 DEF EmptyInv, FrameInv, SelectInv
<1>8. PageInv'
  BY <1>1, <1>3, <1>4 DEF PageInv
<1> QED
  BY <1>5, <1>6, <1>7, <1>8

(* What a page does to one pair's row.                                         *)
LEMMA AppliedRow ==
  ASSUME FeedIInv, reader.at = "apply", NEW p \in Traded
  PROVE  /\ Applied(p) \in RowType
         /\ Applied(p).copy = Nothing <=> cache[p].copy = Nothing
         /\ Applied(p).floor = cache[p].floor
         /\ \/ /\ Applied(p).copy = cache[p].copy
               /\ cache[p].copy # Nothing => \A c \in reader.page.changes :
                     c.pair = p /\ c.kind = "candle" => c.id <= cache[p].floor
            \/ /\ Applied(p).copy # Nothing /\ Applied(p).copy.source = reader.producer
               /\ \E c \in reader.page.changes : /\ c.pair = p /\ c.kind = "candle" /\ c.id = Applied(p).copy.at
                                                 /\ c.id > cache[p].floor
               /\ \A c \in reader.page.changes : c.pair = p /\ c.kind = "candle" => c.id <= Applied(p).copy.at
<1> USE DEF FeedIInv
<1> DEFINE found == Fresh(p, "candle")
<1> DEFINE known == cache[p].absent \/ Fresh(p, "absent") # {}
<1> DEFINE last == CHOOSE i \in found : \A j \in found : j <= i
<1>1. /\ cache[p] \in RowType /\ reader.page \in PageType /\ reader.producer \in Nat /\ reader.producer # 0
      /\ reader.page.next \in Nat
  BY DEF ReaderTypes, ReaderType, SourcesInv, PageType
<1>2. \A c \in reader.page.changes : c \in ChangeType /\ c.id \in 1..reader.page.next
  <2>1. \A c \in reader.page.changes : c \in ChangeType /\ reader.cursor < c.id /\ c.id <= reader.page.next
    BY <1>1 DEF PageInv, PageType
  <2>2. reader.cursor \in Nat
    BY DEF ReaderTypes, ReaderType
  <2> QED
    BY <1>1, <2>1, <2>2 DEF ChangeType
<1>3. found = {c.id : c \in {d \in reader.page.changes : d.pair = p /\ d.kind = "candle" /\ d.id > cache[p].floor}}
  BY DEF Fresh
<1>4. Applied(p) = IF cache[p].copy = Nothing THEN cache[p]
                   ELSE IF found = {} THEN [cache[p] EXCEPT !.absent = known]
                   ELSE [cache[p] EXCEPT !.copy = [source |-> reader.producer, at |-> last], !.absent = FALSE]
  BY DEF Applied
<1>5. known \in BOOLEAN
  OBVIOUS
<1> HIDE DEF found, known, last
<1>6. CASE cache[p].copy = Nothing
  BY <1>1, <1>4, <1>6
<1>7. CASE cache[p].copy # Nothing /\ found = {}
  <2>1. \A c \in reader.page.changes : c.pair = p /\ c.kind = "candle" => ~(c.id > cache[p].floor)
    BY <1>3, <1>7
  <2>2. \A c \in reader.page.changes : c.pair = p /\ c.kind = "candle" => c.id <= cache[p].floor
    BY <1>1, <1>2, <2>1 DEF RowType
  <2>3. Applied(p) = [cache[p] EXCEPT !.absent = known]
    BY <1>4, <1>7
  <2>4. Applied(p) \in RowType /\ Applied(p).copy = cache[p].copy /\ Applied(p).floor = cache[p].floor
    BY <1>1, <1>5, <2>3 DEF RowType
  <2> QED
    BY <2>2, <2>4
<1>8. CASE cache[p].copy # Nothing /\ found # {}
  <2>1. found \subseteq 1..reader.page.next
    BY <1>2, <1>3
  <2>2. last \in found /\ \A i \in found : i <= last
    BY <1>1, <1>8, <2>1, ChosenLargest DEF last
  <2> DEFINE c == [source |-> reader.producer, at |-> last]
  <2>3. c \in CopyType /\ c # Nothing /\ c.source = reader.producer /\ c.at = last /\ last \in Nat
    <3>1. last \in Nat
      BY <1>1, <2>1, <2>2
    <3>2. c \in CopyType
      BY <1>1, <3>1 DEF CopyType
    <3> QED
      BY <3>1, <3>2, FeedAssumption DEF CopyType
  <2>4. Applied(p) = [cache[p] EXCEPT !.copy = c, !.absent = FALSE]
    BY <1>4, <1>8
  <2> HIDE DEF c
  <2>5. Applied(p) \in RowType /\ Applied(p).copy = c /\ Applied(p).floor = cache[p].floor
    BY <1>1, <2>3, <2>4 DEF RowType
  <2>6. \E d \in reader.page.changes : d.pair = p /\ d.kind = "candle" /\ d.id = last /\ d.id > cache[p].floor
    BY <1>3, <2>2
  <2>7. ASSUME NEW d \in reader.page.changes, d.pair = p, d.kind = "candle" PROVE d.id <= last
    <3>1. CASE d.id > cache[p].floor
      BY <1>3, <2>2, <2>7, <3>1
    <3>2. CASE ~(d.id > cache[p].floor)
      <4>1. d.id \in Nat /\ cache[p].floor \in Nat /\ last > cache[p].floor
        BY <1>1, <1>2, <2>6 DEF RowType
      <4> QED
        BY <2>3, <3>2, <4>1
    <3> QED
      BY <3>1, <3>2
  <2> QED
    BY <1>8, <2>3, <2>5, <2>6, <2>7
<1> QED
  BY <1>6, <1>7, <1>8

LEMMA PageAppliesStep ==
  ASSUME FeedIInv, PageApplies
  PROVE  FeedIInv'
<1> USE DEF FeedIInv
<1>1. /\ reader.at = "apply" /\ cache' = [p \in Traded |-> Applied(p)]
      /\ reader' = [reader EXCEPT !.cursor = reader.page.next, !.page = NoPage,
                     !.at = IF reader.page.more THEN "bind" ELSE "caught"]
      /\ UNCHANGED <<db, ready, ack, wanted, applied, spent>>
  BY DEF PageApplies
<1>2. NoPage \in PageType /\ reader.page.next \in Nat /\ reader.cursor \in Nat /\ Len(db.feed) \in Nat
  BY EdgeIsLength DEF NoPage, PageType, ReaderTypes, ReaderType
<1>3. /\ reader' \in ReaderType /\ reader'.at \in {"bind", "caught"} /\ reader'.producer = reader.producer
      /\ reader'.cursor = reader.page.next /\ reader'.todo = reader.todo
  BY <1>1, <1>2 DEF ReaderTypes, ReaderType, Places
<1>4. /\ cache' \in [Traded -> RowType] /\ \A p \in Traded : cache'[p] = Applied(p)
  BY <1>1, AppliedRow
<1>5. DbTypes' /\ ReaderTypes'
  BY <1>1, <1>3, <1>4 DEF DbTypes, ReaderTypes
<1>6. reader.cursor <= reader.page.next /\ (InStep => reader.page.next <= Len(db.feed))
  BY <1>1 DEF PageInv
<1>7. SourcesInv'
  <2>1. ASSUME NEW p \in Traded, cache'[p].copy # Nothing PROVE cache'[p].copy.source <= db.producer
    <3>1. cache'[p].copy.source \in {cache[p].copy.source, reader.producer} /\ cache[p].copy # Nothing
      BY <1>1, <1>4, <2>1, AppliedRow
    <3> QED
      BY <3>1 DEF SourcesInv
  <2> QED
    BY <1>1, <1>3, <2>1 DEF SourcesInv
<1>8. AppliedInv'
  <2>1. applied.upTo \in Nat
    BY DEF ReaderTypes
  <2> QED
    BY <1>1, <1>2, <1>3, <1>6, <2>1 DEF AppliedInv, InStep
<1>9. EmptyInv' /\ FrameInv' /\ SelectInv' /\ PageInv'
  <2>1. \A p \in Traded : cache'[p].copy = Nothing => cache[p].copy = Nothing /\ cache'[p].floor = cache[p].floor
    BY <1>1, <1>4, AppliedRow
  <2>2. \A p \in Traded : cache[p].copy = Nothing => cache'[p].copy = Nothing
    BY <1>1, <1>4, AppliedRow
  <2>3. reader.todo \subseteq Traded
    BY DEF ReaderTypes, ReaderType
  <2> QED
    BY <1>1, <1>3, <2>1, <2>2, <2>3 DEF EmptyInv, FrameInv, SelectInv, PageInv
<1>10. CopyInv'
  <2> SUFFICES ASSUME InStep PROVE CopyInv!2'
    BY <1>1, <1>3 DEF CopyInv, InStep
  <2> DEFINE next == reader.page.next
  <2>1. /\ next <= Len(db.feed)
        /\ \A c \in reader.page.changes : /\ reader.cursor < c.id /\ c.id <= next
                                          /\ db.feed[c.id] = [pair |-> c.pair, kind |-> c.kind]
        /\ \A i \in (reader.cursor + 1)..next :
              [id |-> i, pair |-> db.feed[i].pair, kind |-> db.feed[i].kind] \in reader.page.changes
    BY <1>1 DEF PageInv
  <2>2. ASSUME NEW p \in Traded, cache'[p].copy # Nothing
        PROVE  /\ cache'[p].copy.source = db.producer /\ cache'[p].floor <= Len(db.feed)
               /\ Covers(p, next, cache'[p].copy.at) /\ Covers(p, cache'[p].floor, cache'[p].copy.at)
    <3> DEFINE at == cache[p].copy.at
    <3> DEFINE new == cache'[p].copy.at
    <3>1. /\ cache[p].copy # Nothing /\ cache'[p].floor = cache[p].floor /\ cache[p].floor \in Nat
          /\ cache[p].copy \in CopyType /\ at \in Nat /\ cache'[p].copy \in CopyType /\ new \in Nat
      BY <1>1, <1>4, <2>2, AppliedRow DEF ReaderTypes, RowType, CopyType
    <3>2. /\ cache[p].copy.source = db.producer /\ cache[p].floor <= Len(db.feed)
          /\ Covers(p, reader.cursor, at) /\ Covers(p, cache[p].floor, at)
      BY <3>1 DEF CopyInv
    <3>3. ASSUME NEW i \in (reader.cursor + 1)..next, IsCandle(p, i)
          PROVE  \E c \in reader.page.changes : c.id = i /\ c.pair = p /\ c.kind = "candle"
      <4>1. [id |-> i, pair |-> db.feed[i].pair, kind |-> db.feed[i].kind] \in reader.page.changes
        BY <2>1
      <4>2. db.feed[i].pair = p /\ db.feed[i].kind = "candle"
        BY <3>3 DEF IsCandle
      <4> QED
        BY <4>1, <4>2
    <3>4. CASE /\ cache'[p].copy = cache[p].copy
               /\ \A c \in reader.page.changes : c.pair = p /\ c.kind = "candle" => c.id <= cache[p].floor
      <4>1. ASSUME NEW i \in 1..next, IsCandle(p, i) PROVE i <= at
        <5>1. CASE i <= reader.cursor
          BY <1>2, <3>2, <4>1, <5>1 DEF Covers
        <5>2. CASE ~(i <= reader.cursor)
          <6>1. i \in (reader.cursor + 1)..next
            BY <1>2, <5>2
          <6>2. i <= cache[p].floor
            BY <3>3, <3>4, <4>1, <6>1
          <6> QED
            BY <1>2, <3>1, <3>2, <4>1, <6>2 DEF Covers
        <5> QED
          BY <5>1, <5>2
      <4> QED
        BY <3>1, <3>2, <3>4, <4>1 DEF Covers
    <3>5. CASE /\ cache'[p].copy.source = reader.producer
               /\ \E c \in reader.page.changes : /\ c.pair = p /\ c.kind = "candle" /\ c.id = new
                                                 /\ c.id > cache[p].floor
               /\ \A c \in reader.page.changes : c.pair = p /\ c.kind = "candle" => c.id <= new
      <4>1. new > reader.cursor /\ new > cache[p].floor
        BY <2>1, <3>5
      <4>2. ASSUME NEW i \in 1..next, IsCandle(p, i) PROVE i <= new
        <5>1. CASE i <= reader.cursor
          BY <1>2, <3>1, <4>1, <5>1
        <5>2. CASE ~(i <= reader.cursor)
          <6>1. i \in (reader.cursor + 1)..next
            BY <1>2, <5>2
          <6> QED
            BY <3>3, <3>5, <4>2, <6>1
        <5> QED
          BY <5>1, <5>2
      <4>3. \A i \in 1..cache[p].floor : i <= new
        BY <3>1, <4>1
      <4> QED
        BY <3>1, <3>2, <3>5, <4>2, <4>3 DEF Covers, InStep
    <3> QED
      BY <1>1, <1>4, <3>1, <3>4, <3>5, AppliedRow
  <2>3. next <= Len(db.feed)
    BY <2>1
  <2> QED
    BY <1>1, <1>3, <2>2, <2>3 DEF Covers, IsCandle
<1> QED
  BY <1>5, <1>7, <1>8, <1>9, <1>10

LEMMA CaughtStep ==
  ASSUME FeedIInv, Caught
  PROVE  FeedIInv'
<1> USE DEF FeedIInv
<1>1. /\ reader.at = "caught" /\ applied' = [source |-> reader.producer, upTo |-> reader.cursor]
      /\ reader' = [reader EXCEPT !.at = "idle"] /\ UNCHANGED <<db, ready, ack, wanted, cache, spent>>
  BY DEF Caught
<1>2. reader.producer \in Nat \ {0} /\ reader.cursor \in Nat
  BY <1>1 DEF ReaderTypes, ReaderType, SourcesInv
<1>3. /\ reader' \in ReaderType /\ reader'.at = "idle" /\ reader'.producer = reader.producer
      /\ reader'.cursor = reader.cursor
  BY <1>1 DEF ReaderTypes, ReaderType, Places
<1>4. DbTypes' /\ ReaderTypes'
  BY <1>1, <1>2, <1>3 DEF DbTypes, ReaderTypes
<1>5. SourcesInv' /\ EmptyInv' /\ FrameInv' /\ SelectInv' /\ PageInv'
  BY <1>1, <1>3 DEF SourcesInv, EmptyInv, FrameInv, SelectInv, PageInv
<1>6. AppliedInv' /\ CopyInv'
  BY <1>1, <1>2, <1>3 DEF AppliedInv, CopyInv, InStep, Covers, IsCandle
<1> QED
  BY <1>4, <1>5, <1>6

LEMMA RebuildDropsStep ==
  ASSUME FeedIInv, RebuildDrops \/ ContourDies
  PROVE  FeedIInv'
<1> USE DEF FeedIInv
<1>1. /\ cache' = [p \in Traded |-> Unbound] /\ UNCHANGED <<db, ready, ack, applied>> /\ wanted' \subseteq Traded
  BY DEF RebuildDrops, ContourDies, ReaderTypes
<1>2. Unbound \in RowType /\ Unbound.copy = Nothing /\ Unbound.floor = 0
  BY DEF Unbound, RowType
<1>3. cache' \in [Traded -> RowType] /\ \A p \in Traded : cache'[p].copy = Nothing /\ cache'[p].floor = 0
  BY <1>1, <1>2
<1>4. CASE RebuildDrops
  <2>1. /\ reader' \in ReaderType /\ reader'.at = "edge" /\ reader'.producer = reader.producer
        /\ reader'.cursor = reader.cursor /\ reader.at = "rebuild"
    BY <1>4 DEF RebuildDrops, ReaderTypes, ReaderType, Places
  <2> QED
    BY <1>1, <1>3, <2>1 DEF DbTypes, ReaderTypes, SourcesInv, EmptyInv, AppliedInv, CopyInv, FrameInv, SelectInv, PageInv, InStep
<1>5. CASE ContourDies
  <2>1. NoPage \in PageType
    BY DEF NoPage, PageType
  <2>2. reader' \in ReaderType /\ reader'.at = "off" /\ reader'.producer = 0
    BY <1>5, <2>1 DEF ContourDies, NoReader, ReaderType, Places
  <2>3. ~InStep'
    BY <1>1, <2>2 DEF InStep, DbTypes
  <2> QED
    BY <1>1, <1>3, <2>2, <2>3 DEF DbTypes, ReaderTypes, SourcesInv, EmptyInv, AppliedInv, CopyInv, FrameInv, SelectInv, PageInv
<1> QED
  BY <1>4, <1>5

LEMMA RebuildReadsStep ==
  ASSUME FeedIInv, RebuildReads
  PROVE  FeedIInv'
<1> USE DEF FeedIInv
<1>1. /\ reader.at = "edge" /\ reader' = [reader EXCEPT !.at = "idle", !.producer = db.producer, !.cursor = Edge]
      /\ UNCHANGED <<db, ready, ack, wanted, cache, applied, spent>>
  BY DEF RebuildReads
<1>2. Edge = Len(db.feed) /\ Edge \in Nat /\ db.producer \in Nat \ {0}
  BY EdgeIsLength DEF DbTypes
<1>3. /\ reader' \in ReaderType /\ reader'.at = "idle" /\ reader'.producer = db.producer /\ reader'.cursor = Edge
  BY <1>1, <1>2 DEF ReaderTypes, ReaderType, Places
<1>4. DbTypes' /\ ReaderTypes'
  BY <1>1, <1>3 DEF DbTypes, ReaderTypes
<1>5. \A p \in Traded : cache[p].copy = Nothing
  BY <1>1 DEF EmptyInv
<1>6. SourcesInv' /\ EmptyInv' /\ AppliedInv' /\ CopyInv' /\ FrameInv' /\ SelectInv' /\ PageInv'
  BY <1>1, <1>2, <1>3, <1>5 DEF SourcesInv, EmptyInv, AppliedInv, CopyInv, FrameInv, SelectInv, PageInv
<1> QED
  BY <1>4, <1>6

LEMMA ReaderFailsStep ==
  ASSUME FeedIInv, ReaderFails
  PROVE  FeedIInv'
<1> USE DEF FeedIInv
<1>1. /\ reader.at \in {"bind", "frame", "bound", "select", "edge"}
      /\ reader' = [reader EXCEPT !.at = "idle", !.todo = {}, !.floor = 0, !.frame = Nothing]
      /\ UNCHANGED <<db, ready, ack, wanted, cache, applied>>
  BY DEF ReaderFails
<1>2. /\ reader' \in ReaderType /\ reader'.at = "idle" /\ reader'.producer = reader.producer
      /\ reader'.cursor = reader.cursor
  BY <1>1 DEF ReaderTypes, ReaderType, Places
<1>3. DbTypes' /\ ReaderTypes'
  BY <1>1, <1>2 DEF DbTypes, ReaderTypes
<1>4. SourcesInv' /\ AppliedInv' /\ CopyInv'
  BY <1>1, <1>2, CarriedOver
<1>5. EmptyInv' /\ FrameInv' /\ SelectInv' /\ PageInv'
  BY <1>1, <1>2 DEF EmptyInv, FrameInv, SelectInv, PageInv
<1> QED
  BY <1>3, <1>4, <1>5

LEMMA FeedInductive == FeedIInv /\ [FeedNext]_feedVars => FeedIInv'
<1> SUFFICES ASSUME FeedIInv, [FeedNext]_feedVars PROVE FeedIInv'
  OBVIOUS
<1>1. CASE UNCHANGED feedVars
  <2>1. DbTypes' /\ ReaderTypes'
    BY <1>1 DEF feedVars, FeedIInv, DbTypes, ReaderTypes
  <2> QED
    BY <1>1, <2>1, QuietStep DEF feedVars, FeedIInv, SelectInv
<1> QED
  BY <1>1, PublishStep, StoreStep, ReplaceStep, ContourStartsStep, ReaderOpensStep, PollStartsStep, BindEdgeStep,
     BindFrameStep, BindStep, PageChecksStep, PageSelectsStep, PageAppliesStep, CaughtStep, RebuildDropsStep,
     RebuildReadsStep, ReaderFailsStep DEF FeedNext, ReaderStep

\* The invariant holds in every reachable state.
THEOREM FeedSpecIInv == FeedSpec => []FeedIInv
BY FeedInitIInv, FeedInductive, PTL DEF FeedSpec

-----------------------------------------------------------------------------
(* Every step of the reader, of the store and of the core is a step of         *)
(* FeedCopy or changes nothing it sees.                                        *)

copies == [p \in Traded |-> cache[p].copy]

(* Copies that move show versions that the claim leaves open.                  *)
LEMMA TakeStep ==
  ASSUME FeedIInv, FeedIInv', UNCHANGED <<db, applied>>,
         \A p \in Traded : \/ cache'[p].copy \in {Nothing, cache[p].copy}
                           \/ cache'[p].copy.source # db.producer
                           \/ /\ cache'[p].copy.at = 0 \/ IsCandle(p, cache'[p].copy.at)
                              /\ applied.source = db.producer => Covers(p, applied.upTo, cache'[p].copy.at)
  PROVE  Copies!Take
<1> USE DEF FeedIInv
<1>1. db.feed \in Seq(Entry) /\ db.producer \in Nat \ {0} /\ applied.upTo \in Nat
  BY DEF DbTypes, ReaderTypes
<1>2. ASSUME NEW p \in Traded, cache'[p].copy # Nothing
      PROVE  cache'[p].copy \in [source : 1..db.producer, at : Nat] /\ cache'[p].copy.at \in Nat
  <2>1. cache'[p].copy \in CopyType /\ cache'[p].copy.source <= db.producer
    BY <1>2 DEF ReaderTypes, RowType, SourcesInv
  <2> QED
    BY <1>1, <2>1 DEF CopyType
<1>3. copies' \in [Traded -> {Nothing} \cup [source : 1..db.producer, at : Nat]]
  BY <1>2 DEF copies
<1>4. ASSUME NEW p \in Traded
      PROVE  \/ copies'[p] \in {Nothing, copies[p]} \/ copies'[p].source # db.producer
             \/ /\ copies'[p].at \in {Copies!CandleUpTo(p, n) : n \in 0..Len(db.feed)}
                /\ applied.source = db.producer => copies'[p].at >= Copies!CandleUpTo(p, applied.upTo)
  <2>1. copies[p] = cache[p].copy /\ copies'[p] = cache'[p].copy
    BY DEF copies
  <2>2. CASE cache'[p].copy = Nothing
    BY <2>1, <2>2
  <2>3. CASE /\ cache'[p].copy # Nothing
             /\ cache'[p].copy.at = 0 \/ IsCandle(p, cache'[p].copy.at)
             /\ applied.source = db.producer => Covers(p, applied.upTo, cache'[p].copy.at)
    <3>1. cache'[p].copy.at \in Nat
      BY <1>2, <2>3
    <3>2. cache'[p].copy.at \in {Copies!CandleUpTo(p, n) : n \in 0..Len(db.feed)}
      BY <1>1, <2>3, <3>1, Versions
    <3>3. applied.source = db.producer => cache'[p].copy.at >= Copies!CandleUpTo(p, applied.upTo)
      BY <1>1, <2>3, <3>1, NotOlderThan
    <3> QED
      BY <2>1, <3>2, <3>3
  <2> QED
    BY <2>1, <2>2, <2>3
<1> QED
  BY <1>3, <1>4 DEF Copies!Take, copies

LEMMA PollTakes ==
  ASSUME FeedIInv, FeedIInv', PollStarts \/ RebuildDrops \/ ContourDies
  PROVE  Copies!Take
<1>1. UNCHANGED <<db, applied>> /\ \A p \in Traded : cache'[p] \in {cache[p], Unbound}
  BY DEF PollStarts, RebuildDrops, ContourDies
<1>2. \A p \in Traded : cache'[p].copy \in {Nothing, cache[p].copy}
  BY <1>1 DEF Unbound
<1> QED
  BY <1>1, <1>2, TakeStep

LEMMA BindTakes ==
  ASSUME FeedIInv, FeedIInv', Bind
  PROVE  Copies!Take
<1> DEFINE q == reader.frame.pair
<1> DEFINE c == reader.frame.copy
<1>1. /\ q \in Traded
      /\ c.source = db.producer => c.at = 0 \/ IsCandle(q, c.at)
      /\ c.source = db.producer /\ applied.source = db.producer => Covers(q, applied.upTo, c.at)
  BY DEF Bind, FeedIInv, FrameInv, FrameType
<1>2. cache \in [Traded -> RowType] /\ UNCHANGED <<db, applied>>
  BY DEF Bind, FeedIInv, ReaderTypes
<1>3. cache'[q].copy = c /\ \A p \in Traded \ {q} : cache'[p] = cache[p]
  BY <1>1, <1>2 DEF Bind
<1>4. ASSUME NEW p \in Traded
      PROVE  \/ cache'[p].copy \in {Nothing, cache[p].copy}
             \/ cache'[p].copy.source # db.producer
             \/ /\ cache'[p].copy.at = 0 \/ IsCandle(p, cache'[p].copy.at)
                /\ applied.source = db.producer => Covers(p, applied.upTo, cache'[p].copy.at)
  <2>1. CASE p = q
    BY <2>1, <1>1, <1>3
  <2>2. CASE p # q
    BY <2>2, <1>3
  <2> QED
    BY <2>1, <2>2
<1> QED
  BY <1>2, <1>4, TakeStep

LEMMA PageTakes ==
  ASSUME FeedIInv, FeedIInv', PageApplies
  PROVE  Copies!Take
<1> USE DEF FeedIInv
<1>1. /\ reader.at = "apply" /\ UNCHANGED <<db, applied>> /\ \A p \in Traded : cache'[p] = Applied(p)
  BY DEF PageApplies
<1>2. reader.cursor \in Nat /\ applied.upTo \in Nat /\ Len(db.feed) \in Nat
  BY EdgeIsLength DEF ReaderTypes, ReaderType
<1>3. ASSUME NEW p \in Traded
      PROVE  \/ cache'[p].copy \in {Nothing, cache[p].copy}
             \/ cache'[p].copy.source # db.producer
             \/ /\ cache'[p].copy.at = 0 \/ IsCandle(p, cache'[p].copy.at)
                /\ applied.source = db.producer => Covers(p, applied.upTo, cache'[p].copy.at)
  <2> DEFINE new == cache'[p].copy.at
  <2>1. CASE cache'[p].copy = cache[p].copy
    BY <2>1
  <2>2. CASE /\ cache'[p].copy.source = reader.producer
             /\ \E c \in reader.page.changes : c.pair = p /\ c.kind = "candle" /\ c.id = new
    <3> SUFFICES ASSUME InStep
                 PROVE  IsCandle(p, new) /\ (applied.source = db.producer => Covers(p, applied.upTo, new))
      BY <2>2 DEF InStep
    <3>1. PICK c \in reader.page.changes : c.pair = p /\ c.kind = "candle" /\ c.id = new
      BY <2>2
    <3>2. c.id \in Nat /\ reader.page.next \in Nat
      BY DEF ReaderTypes, ReaderType, PageType, ChangeType
    <3>3. /\ reader.cursor < c.id /\ c.id <= reader.page.next /\ reader.page.next <= Len(db.feed)
          /\ db.feed[c.id] = [pair |-> c.pair, kind |-> c.kind]
      BY <1>1 DEF PageInv
    <3>4. new \in 1..Len(db.feed)
      BY <1>2, <3>1, <3>2, <3>3
    <3>5. applied.source = db.producer => applied.upTo <= reader.cursor
      BY DEF AppliedInv
    <3> QED
      BY <1>2, <3>1, <3>2, <3>3, <3>4, <3>5 DEF IsCandle, Covers
  <2> QED
    BY <1>1, <2>1, <2>2, AppliedRow
<1> QED
  BY <1>1, <1>3, TakeStep

(* The reader claims a position when the copies cover it.                      *)
LEMMA ClaimSteps ==
  ASSUME FeedIInv, FeedIInv', ReaderOpens \/ Caught
  PROVE  Copies!Claim
<1> USE DEF FeedIInv
<1>1. /\ UNCHANGED <<db, cache>> /\ applied' \in [source : Nat \ {0}, upTo : Nat] /\ applied'.source <= db.producer
      /\ applied'.source = db.producer => applied'.upTo <= Len(db.feed)
  BY DEF ReaderOpens, Caught, ReaderTypes, SourcesInv, AppliedInv
<1>2. db.feed \in Seq(Entry) /\ db.producer \in Nat \ {0}
  BY DEF DbTypes
<1>3. applied' \in [source : 1..db.producer, upTo : Nat] /\ applied'.upTo \in Nat
  BY <1>1, <1>2
<1>4. ASSUME applied'.source = db.producer, NEW p \in Traded, copies[p] # Nothing
      PROVE  copies[p].source = db.producer /\ copies[p].at >= Copies!CandleUpTo(p, applied'.upTo)
  <2>1. cache[p].copy # Nothing /\ copies[p] = cache[p].copy
    BY <1>4 DEF copies
  <2>2. Caught /\ InStep /\ applied'.upTo = reader.cursor
    <3>1. ~ReaderOpens
      BY <2>1 DEF ReaderOpens, EmptyInv
    <3>2. Caught
      BY <3>1
    <3> QED
      BY <3>2, <1>4 DEF Caught, InStep
  <2>3. cache[p].copy.source = db.producer /\ Covers(p, reader.cursor, cache[p].copy.at)
    BY <2>1, <2>2 DEF CopyInv
  <2>4. cache[p].copy.at \in Nat
    BY <2>1 DEF ReaderTypes, RowType, CopyType
  <2> QED
    BY <1>2, <1>3, <2>1, <2>2, <2>3, <2>4, NotOlderThan
<1>5. UNCHANGED copies
  BY <1>1 DEF copies
<1> QED
  BY <1>1, <1>3, <1>4, <1>5 DEF Copies!Claim, Copies!NotOlder, copies

LEMMA CopyNext ==
  ASSUME FeedIInv, FeedIInv', [FeedNext]_feedVars
  PROVE  [Copies!Next]_(Copies!copyVars)
<1>1. ASSUME NEW p \in Pairs, NEW kind \in {"candle", "absent"}, Publish(p, kind) PROVE Copies!Change
  <2>1. db'.feed = Append(db.feed, [pair |-> p, kind |-> kind]) /\ db'.producer = db.producer /\ UNCHANGED <<cache, applied>>
    BY <1>1 DEF Publish, FeedIInv, DbTypes
  <2> QED
    BY <2>1 DEF Copies!Change
<1>2. CASE Replace
  <2>1. db'.producer = db.producer + 1 /\ db'.feed = <<>> /\ UNCHANGED <<cache, applied>>
    BY <1>2 DEF Replace, FreshDb
  <2> QED
    BY <2>1 DEF Copies!Replace, Copies!Next
<1>3. CASE PollStarts \/ RebuildDrops \/ ContourDies \/ Bind \/ PageApplies
  BY <1>3, PollTakes, BindTakes, PageTakes DEF Copies!Next
<1>4. CASE ReaderOpens \/ Caught
  BY <1>4, ClaimSteps DEF Copies!Next
<1>5. CASE Prune
  <2>1. UNCHANGED <<db.producer, db.feed, cache, applied>>
    BY <1>5 DEF Prune, FeedIInv, DbTypes
  <2> QED
    BY <2>1 DEF Copies!copyVars
<1>6. CASE UNCHANGED <<db, cache, applied>>
  BY <1>6 DEF Copies!copyVars
<1> QED
  BY <1>1, <1>2, <1>3, <1>4, <1>5, <1>6 DEF FeedNext, ReaderStep, feedVars, Copies!Next, Readiness, ContourStarts, Want,
     Acknowledge, BindEdge, BindFrame, PageChecks, PageSelects, RebuildReads, ReaderFails

LEMMA CopyInit == FeedInit => Copies!Init
<1> SUFFICES ASSUME FeedInit PROVE Copies!Init
  OBVIOUS
<1>1. db.producer = 1 /\ db.feed = <<>> /\ \A p \in Traded : cache[p].copy = Nothing
  BY DEF FeedInit, FreshDb, Unbound
<1> QED
  BY <1>1 DEF FeedInit, Copies!Init

\* The cache of a contour shows, whatever is pruned, replaced, restarted or read
\* in pieces, versions the market database has had, and never one older than
\* the position its reader says it has applied.
THEOREM FeedIsCopiedAlways == FeedSpec => FeedIsCopied
<1>1. FeedIInv /\ FeedIInv' /\ [FeedNext]_feedVars => [Copies!Next]_(Copies!copyVars)
  BY CopyNext
<1> QED
  BY <1>1, CopyInit, FeedSpecIInv, PTL DEF FeedSpec, FeedIsCopied, Copies!Spec

-----------------------------------------------------------------------------
(* GapResolution.                                                              *)

States == Resolved \cup Waiting \cup {"none"}

(* What the lanes hold between their reads and their writes.                   *)
LaneTypes ==
    /\ state \in [Opens -> States] /\ checks \in [Opens -> Nat]
    /\ traded \subseteq Opens /\ candles \subseteq traded
    /\ evidence \in [at : {"idle", "asked", "empty"}, minute : Opens \cup {0}]
    /\ complete \in [at : {"idle", "loaded", "final"}, minute : Opens \cup {0}]
    /\ evidence.at # "idle" => evidence.minute \in Opens
    /\ complete.at # "idle" => complete.minute \in Opens
    /\ closing \in ClosedOpens \cup {0}

(* A lane that is about to write an outcome has what proves it.                *)
LanesHaveProof ==
    /\ evidence.at = "empty" => evidence.minute \notin traded
    /\ complete.at = "final" => checks[complete.minute] > Rechecks

(* A candle within the session shows as received.                              *)
CandleShows == \A m \in candles \ ClosedOpens : state[m] = "received"

GapInv == LaneTypes /\ LanesHaveProof /\ CandleShows /\ ResolvedIsProved

LEMMA GapInvInit == GapInit => GapInv
<1> SUFFICES ASSUME GapInit PROVE GapInv
  OBVIOUS
<1>1. LaneTypes
  BY GapAssumption DEF GapInit, LaneTypes, States, IdleLane
<1> QED
  BY <1>1 DEF GapInv, GapInit, LanesHaveProof, CandleShows, ResolvedIsProved, IdleLane, Opens

(* What set_interval_states() may leave in a minute.                           *)
Keeps(after, n, s) ==
    /\ after \in [Opens -> States]
    /\ \A m \in Opens : after[m] \in {state[m]} \cup (IF m = n THEN {s} ELSE {})
    /\ \A m \in Opens : state[m] = "received" => after[m] = "received"

LEMMA WithStateKeeps ==
  ASSUME state \in [Opens -> States], NEW n \in Opens, NEW s \in States
  PROVE  Keeps(WithState(n, s), n, s)
BY DEF WithState, MayWrite, Keeps

(* A step of a waiting or closing state, which no property forbids.            *)
LEMMA HarmlessWrite ==
  ASSUME GapInv, NEW n \in Opens, NEW s \in Waiting \cup {"scheduled_closed"},
         state' = WithState(n, s), UNCHANGED <<traded, candles, checks, evidence, complete, closing>>
  PROVE  GapInv'
<1>1. s \in States
  BY DEF States, Resolved, Waiting, FinalEvidence
<1>2. /\ state' \in [Opens -> States]
      /\ \A m \in Opens : state'[m] \in {state[m]} \cup (IF m = n THEN {s} ELSE {})
      /\ \A m \in Opens : state[m] = "received" => state'[m] = "received"
  <2>1. state \in [Opens -> States]
    BY DEF GapInv, LaneTypes
  <2>2. Keeps(WithState(n, s), n, s)
    BY <1>1, <2>1, WithStateKeeps
  <2> QED
    BY <2>2 DEF Keeps
<1>3. s \notin FinalEvidence
  BY DEF Waiting, FinalEvidence
<1>4. LaneTypes'
  BY <1>2 DEF GapInv, LaneTypes, Opens
<1>5. LanesHaveProof'
  BY DEF GapInv, LanesHaveProof
<1>6. CandleShows'
  BY <1>2 DEF GapInv, CandleShows, LaneTypes
<1>7. ResolvedIsProved'
  BY <1>2, <1>3 DEF GapInv, ResolvedIsProved, FinalEvidence, Opens
<1> QED
  BY <1>4, <1>5, <1>6, <1>7 DEF GapInv

LEMMA GapInvStep == GapInv /\ [GapNext]_gapVars => GapInv'
<1> SUFFICES ASSUME GapInv, [GapNext]_gapVars PROVE GapInv'
  OBVIOUS
<1> USE DEF GapInv
<1>1. CASE UNCHANGED <<traded, coverage, lanes>>
  BY <1>1 DEF coverage, lanes, LaneTypes, LanesHaveProof, CandleShows, ResolvedIsProved, Opens
<1>2. ASSUME NEW m \in Opens, Receive(m) PROVE GapInv'
  <2>1. "received" \in States
    BY DEF States, Resolved
  <2>2. LaneTypes'
    BY <1>2, <2>1 DEF Receive, LaneTypes, lanes, Opens
  <2>3. LanesHaveProof'
    BY <1>2 DEF Receive, LanesHaveProof, lanes
  <2>4. CandleShows' /\ ResolvedIsProved'
    BY <1>2 DEF Receive, CandleShows, ResolvedIsProved, LaneTypes, Opens
  <2> QED
    BY <2>2, <2>3, <2>4
<1>3. ASSUME NEW m \in Opens, Scan(m) PROVE GapInv'
  BY <1>3, HarmlessWrite DEF Scan, Waiting, lanes
<1>4. ASSUME NEW m \in Opens, FindClosed(m) \/ AskTrades(m) \/ CheckHole(m) PROVE GapInv'
  <2>1. UNCHANGED <<traded, state, candles, checks>>
    BY <1>4 DEF FindClosed, AskTrades, CheckHole, coverage
  <2>2. LaneTypes'
    BY <1>4, <2>1 DEF FindClosed, AskTrades, CheckHole, LaneTypes, Opens
  <2>3. LanesHaveProof'
    BY <1>4, <2>1 DEF FindClosed, AskTrades, CheckHole, LanesHaveProof
  <2> QED
    BY <2>1, <2>2, <2>3 DEF CandleShows, ResolvedIsProved, Opens
<1>5. CASE WriteClosed
  <2>1. "scheduled_closed" \in States /\ closing \in ClosedOpens /\ closing \in Opens
    BY <1>5, GapAssumption DEF States, Resolved, WriteClosed, LaneTypes, Opens
  <2>2. LaneTypes'
    BY <1>5, <2>1 DEF WriteClosed, LaneTypes, Opens
  <2>3. LanesHaveProof'
    BY <1>5 DEF WriteClosed, LanesHaveProof
  <2>4. CandleShows' /\ ResolvedIsProved'
    BY <1>5, <2>1 DEF WriteClosed, CandleShows, ResolvedIsProved, LaneTypes, Opens
  <2> QED
    BY <2>2, <2>3, <2>4
<1>6. CASE TradesAnswer
  <2>1. PICK cut \in BOOLEAN : evidence' = [evidence EXCEPT !.at = TradesSay(evidence.minute, cut)]
    BY <1>6 DEF TradesAnswer
  <2>2. UNCHANGED <<traded, state, candles, checks, complete, closing>> /\ evidence.at = "asked"
    BY <1>6 DEF TradesAnswer, coverage
  <2>3. LaneTypes'
    BY <2>1, <2>2 DEF TradesSay, LaneTypes, Opens
  <2>4. LanesHaveProof'
    BY <2>1, <2>2 DEF TradesSay, LanesHaveProof, LaneTypes
  <2> QED
    BY <2>2, <2>3, <2>4 DEF CandleShows, ResolvedIsProved, Opens
<1>7. CASE ConfirmNoTrade
  <2>1. evidence.minute \in Opens \ traded /\ "confirmed_no_trade" \in States
    BY <1>7 DEF ConfirmNoTrade, LaneTypes, LanesHaveProof, States, Resolved, FinalEvidence
  <2>2. state' = WithState(evidence.minute, "confirmed_no_trade")
    BY <1>7, <2>1 DEF ConfirmNoTrade, LaneTypes
  <2>3. /\ state' \in [Opens -> States]
        /\ \A m \in Opens : state'[m] \in {state[m]} \cup
                              (IF m = evidence.minute THEN {"confirmed_no_trade"} ELSE {})
        /\ \A m \in Opens : state[m] = "received" => state'[m] = "received"
    <3>1. Keeps(WithState(evidence.minute, "confirmed_no_trade"), evidence.minute, "confirmed_no_trade")
      BY <2>1, WithStateKeeps DEF LaneTypes
    <3> QED
      BY <2>2, <3>1 DEF Keeps
  <2>4. LaneTypes'
    BY <1>7, <2>3 DEF ConfirmNoTrade, LaneTypes, IdleLane, Opens
  <2>5. LanesHaveProof'
    BY <1>7 DEF ConfirmNoTrade, LanesHaveProof, IdleLane
  <2>6. CandleShows'
    BY <1>7, <2>3 DEF ConfirmNoTrade, CandleShows, LaneTypes
  <2>7. ResolvedIsProved'
    BY <1>7, <2>1, <2>3 DEF ConfirmNoTrade, ResolvedIsProved, Opens
  <2> QED
    BY <2>4, <2>5, <2>6, <2>7
<1>8. CASE CheckFails \/ CheckFull \/ LanesStart
  <2>1. UNCHANGED <<traded, state, candles, checks>> /\ complete' = IdleLane
        /\ evidence' \in {evidence, IdleLane} /\ closing' \in {closing, 0}
    BY <1>8 DEF CheckFails, CheckFull, LanesStart, coverage
  <2>2. LaneTypes'
    BY <2>1 DEF LaneTypes, IdleLane, Opens
  <2>3. LanesHaveProof'
    BY <2>1 DEF LanesHaveProof, IdleLane
  <2> QED
    BY <2>1, <2>2, <2>3 DEF CandleShows, ResolvedIsProved, Opens
<1>9. CASE CheckEmpty
  <2> DEFINE n == complete.minute
             counted == IF LastCheck(checks[n]) THEN checks[n] ELSE checks[n] + 1
  <2>1. n \in Opens /\ checks[n] \in Nat /\ Rechecks \in Nat /\ checks' = [checks EXCEPT ![n] = counted]
    BY <1>9, GapAssumption DEF CheckEmpty, LaneTypes
  <2>2. UNCHANGED <<traded, state, candles, evidence, closing>>
        /\ complete' \in {[complete EXCEPT !.at = "final"], IdleLane}
    BY <1>9 DEF CheckEmpty
  <2>3. counted \in Nat /\ counted >= checks[n]
    BY <2>1
  <2>4. complete'.at = "final" => complete'.minute = n /\ counted > Rechecks
    <3>1. CASE LastCheck(checks[n] + 1)
      BY <1>9, <3>1, <2>1 DEF CheckEmpty, LastCheck, LaneTypes
    <3>2. CASE ~LastCheck(checks[n] + 1)
      BY <1>9, <3>2 DEF CheckEmpty, IdleLane
    <3> QED
      BY <3>1, <3>2
  <2>5. checks' \in [Opens -> Nat] /\ \A m \in Opens : checks'[m] >= checks[m]
    <3>1. \A m \in Opens : checks'[m] = IF m = n THEN counted ELSE checks[m]
      BY <2>1 DEF LaneTypes
    <3> HIDE DEF counted, n
    <3>2. checks' \in [Opens -> Nat]
      BY <2>1, <2>3 DEF LaneTypes
    <3>3. \A m \in Opens : checks[m] \in Nat
      BY DEF LaneTypes
    <3> QED
      BY <2>1, <2>3, <3>1, <3>2, <3>3
  <2>6. LaneTypes'
    BY <2>1, <2>2, <2>5 DEF LaneTypes, IdleLane, Opens
  <2>7. LanesHaveProof'
    BY <2>1, <2>2, <2>4 DEF LanesHaveProof, LaneTypes
  <2>8. \A m \in Opens : checks[m] > Rechecks => checks'[m] > Rechecks
    BY <2>1, <2>5 DEF LaneTypes
  <2>9. CandleShows' /\ ResolvedIsProved'
    BY <2>2, <2>8 DEF CandleShows, ResolvedIsProved, Opens
  <2> QED
    BY <2>6, <2>7, <2>9
<1>10. CASE SourceAbsent
  <2>1. complete.minute \in Opens /\ checks[complete.minute] > Rechecks /\ "source_absent" \in States
    BY <1>10 DEF SourceAbsent, LaneTypes, LanesHaveProof, States, Resolved, FinalEvidence
  <2>2. /\ state' \in [Opens -> States]
        /\ \A m \in Opens : state'[m] \in {state[m]} \cup
                              (IF m = complete.minute THEN {"source_absent"} ELSE {})
        /\ \A m \in Opens : state[m] = "received" => state'[m] = "received"
    <3>1. Keeps(WithState(complete.minute, "source_absent"), complete.minute, "source_absent")
      BY <2>1, WithStateKeeps DEF LaneTypes
    <3> QED
      BY <1>10, <3>1 DEF SourceAbsent, Keeps
  <2>3. LaneTypes'
    BY <1>10, <2>2 DEF SourceAbsent, LaneTypes, IdleLane, Opens
  <2>4. LanesHaveProof'
    BY <1>10 DEF SourceAbsent, LanesHaveProof, IdleLane
  <2>5. CandleShows'
    BY <1>10, <2>2 DEF SourceAbsent, CandleShows, LaneTypes
  <2>6. ResolvedIsProved'
    BY <1>10, <2>1, <2>2, <2>5 DEF SourceAbsent, ResolvedIsProved, CandleShows, Opens
  <2> QED
    BY <2>3, <2>4, <2>5, <2>6
<1>11. CASE Age \/ FeedApplies \/ TakeFrame \/ KeepContiguous \/ Execute
  BY <1>1, <1>11 DEF Age, FeedApplies, TakeFrame, KeepContiguous, Execute
<1> QED
  BY <1>1, <1>2, <1>3, <1>4, <1>5, <1>6, <1>7, <1>8, <1>9, <1>10, <1>11 DEF GapNext, gapVars, coverage, lanes

\* Outcomes without a candle are earned for ever: no order of the stream, of the
\* two lanes, of the calendar and of restarts writes "source_absent" before the
\* last check or over a candle of the session, or "confirmed_no_trade" over trades.
THEOREM ResolvedAlways == GapSpec => []ResolvedIsProved
<1>1. GapInv => ResolvedIsProved
  BY DEF GapInv
<1> QED
  BY <1>1, GapInvInit, GapInvStep, PTL DEF GapSpec

-----------------------------------------------------------------------------
(* StreamHandoff.                                                              *)

EventsTo(n) == [pair : StreamPairs, bar : 1..n, epoch : 0..MaxEpochs]
Events == EventsTo(closed)
Loads == [pair : StreamPairs, epoch : 0..MaxEpochs, upTo : 0..closed]
Handoffs == [epoch : 0..MaxEpochs, upTo : 0..closed]
Members == [on : BOOLEAN, bars : SUBSET Bars, evidence : 0..MaxEpochs,
            transport : {"none", "polling", "stream"}, ready : BOOLEAN]

StreamTypes ==
    /\ polling \in BOOLEAN /\ closed \in Nat
    /\ link \in [at : {"up", "down"}, epoch : 0..MaxEpochs]
    /\ info \in [StreamPairs -> [status : Status, epoch : 0..MaxEpochs]]
    /\ server \in [live : SUBSET StreamPairs, asked : SUBSET StreamPairs]
    /\ events \in [buffer : Seq(Events), taken : Events \cup {NoWork}]
    /\ Len(events.buffer) <= BufferMax
    /\ member \in [StreamPairs -> Members]
    /\ lastOpen \in [StreamPairs -> 0..closed] /\ loss \in [StreamPairs -> 0..closed]
    /\ handoffs \in [StreamPairs -> Handoffs \cup {NoWork}]
    /\ load \in Loads \cup {NoWork}

(* A connection that is gone leaves nothing subscribed, asked or buffered.     *)
LinkOK ==
    /\ link.at = "up" => link.epoch > 0
    /\ link.at = "down" =>
         /\ server.live = {} /\ server.asked = {} /\ events.buffer = <<>>
         /\ \A p \in StreamPairs : info[p].status \notin {"sent"} \cup Served
    /\ \A i \in 1..Len(events.buffer) : events.buffer[i].epoch = link.epoch

(* A pair that is asked for is not served yet, and who is served is served by  *)
(* this connection.                                                            *)
PairsOK == \A p \in StreamPairs :
    /\ p \in server.asked => info[p].status \notin Served
    /\ info[p].status \in Served => info[p].epoch = link.epoch

(* What has closed behind the handoff of a pair that waits for it is stored or *)
(* comes by the connection; a load of this connection has a handoff to take.   *)
Comes(p, b) ==
    \/ InBuffer(events.buffer, p, b)
    \/ events.taken # NoWork /\ events.taken.pair = p /\ events.taken.bar = b /\ events.taken.epoch = link.epoch
    \/ loss[p] > 0 /\ loss[p] <= b
Whole(p, from) == \A b \in Bars : b > from => b \in member[p].bars \/ Comes(p, b)
Trusted(p) == p \in server.live /\ member[p].on /\ member[p].evidence = link.epoch
WholeFor(p) ==
    /\ info[p].status = "ready" /\ p \notin overtaken => Whole(p, 0)
    /\ info[p].status = "acknowledged" /\ handoffs[p] # NoWork =>
         handoffs[p].epoch = link.epoch /\ Whole(p, handoffs[p].upTo)
    /\ info[p].status = "acknowledged" /\ load # NoWork /\ load.pair = p /\ load.epoch = link.epoch =>
         handoffs[p] # NoWork
WholeOK == \A p \in StreamPairs : Trusted(p) => WholeFor(p)

StreamInv == StreamTypes /\ LinkOK /\ PairsOK /\ WholeOK

(* What the helpers of the supervisor do to a pair of the cache.               *)
LEMMA HandedOffIs ==
    ASSUME NEW m \in Members, NEW t \in {"none", "polling", "stream"}, NEW r \in BOOLEAN
    PROVE  /\ HandedOff(m, t, r) \in Members
           /\ HandedOff(m, t, r).on = m.on /\ HandedOff(m, t, r).bars = m.bars
           /\ HandedOff(m, t, r).evidence = m.evidence
  BY DEF HandedOff, Members

LEMMA UnreadyIs ==
    ASSUME NEW m \in Members
    PROVE  /\ Unready(m) \in Members
           /\ Unready(m).on = m.on /\ Unready(m).bars = m.bars /\ Unready(m).evidence = m.evidence
  BY HandedOffIs DEF Unready

LEMMA EvidenceIs ==
    ASSUME NEW m \in Members, NEW e \in 0..MaxEpochs
    PROVE  LET n == [m EXCEPT !.evidence = e] IN n \in Members /\ n.on = m.on /\ n.bars = m.bars /\ n.evidence = e
  BY DEF Members

LEMMA FailedIs ==
    ASSUME NEW m \in Members, polling \in BOOLEAN
    PROVE  /\ Failed(m) \in Members
           /\ Failed(m).on = m.on /\ Failed(m).bars = m.bars /\ Failed(m).evidence = 0
<1>1. 0 \in 0..MaxEpochs
  BY StreamAssumption
<1> DEFINE n == [m EXCEPT !.evidence = 0]
<1>2. n \in Members /\ n.on = m.on /\ n.bars = m.bars /\ n.evidence = 0
  BY <1>1, EvidenceIs
<1>3. (IF polling THEN "polling" ELSE "stream") \in {"none", "polling", "stream"}
  OBVIOUS
<1>4. PICK t \in {"none", "polling", "stream"} : t = IF polling THEN "polling" ELSE "stream"
  BY <1>3
<1>5. PICK r \in BOOLEAN : r = polling
  OBVIOUS
<1>6. Failed(m) = HandedOff(n, t, r)
  BY <1>4, <1>5 DEF Failed
<1> HIDE DEF n
<1>7. /\ HandedOff(n, t, r) \in Members
      /\ HandedOff(n, t, r).on = n.on /\ HandedOff(n, t, r).bars = n.bars
      /\ HandedOff(n, t, r).evidence = n.evidence
  BY <1>2, <1>4, HandedOffIs
<1> QED
  BY <1>2, <1>6, <1>7

(* The earliest known loss.                                                    *)
LEMMA NotedIs ==
    ASSUME closed \in Nat, loss \in [StreamPairs -> 0..closed], NEW p \in StreamPairs, NEW b \in 0..closed + 1
    PROVE  /\ Noted(p, b) \in 0..closed + 1
           /\ b \in 0..closed => Noted(p, b) \in 0..closed
           /\ b > 0 => Noted(p, b) > 0 /\ Noted(p, b) <= b
           /\ loss[p] > 0 => Noted(p, b) > 0 /\ Noted(p, b) <= loss[p]
  BY DEF Noted

(* A pair that loses nothing stays as whole as it was.                         *)
LEMMA WholeKept ==
    ASSUME NEW p \in StreamPairs, NEW n \in Nat, StreamTypes,
           closed' = closed, events' = events, link' = link,
           member[p].bars \subseteq member'[p].bars,
           loss[p] > 0 => loss'[p] \in 1..loss[p],
           Whole(p, n)
    PROVE  Whole(p, n)'
<1> SUFFICES ASSUME NEW b \in Bars, b > n
             PROVE  b \in member'[p].bars \/ Comes(p, b)'
  BY DEF Whole, Bars
<1>1. b \in member[p].bars \/ Comes(p, b)
  BY DEF Whole
<1>2. CASE loss[p] > 0 /\ loss[p] <= b
  BY <1>2 DEF Comes, StreamTypes, Bars
<1>3. CASE ~(loss[p] > 0 /\ loss[p] <= b)
  BY <1>1, <1>3 DEF Comes, InBuffer
<1> QED
  BY <1>2, <1>3

(* Subscribing asks for pairs that wait, or gives them up; the others it does  *)
(* not touch.                                                                  *)
Infos == [StreamPairs -> [status : Status, epoch : 0..MaxEpochs]]
Untouched(p, i, m) == info'[p] = i[p] /\ member'[p] = m[p] /\ handoffs'[p] = handoffs[p]
Waited(p, i) == i[p].status \in {"desired", "busy"} /\ info'[p].status \in {"desired", "sent", "unable"}

LEMMA WantedIs ==
    ASSUME NEW i \in Infos, NEW again
    PROVE  /\ Wanted(i, again) \in Infos
           /\ \A p \in StreamPairs : p \in again => Wanted(i, again)[p].status = "desired"
           /\ \A p \in StreamPairs : p \notin again => Wanted(i, again)[p] = i[p]
<1>1. ASSUME NEW p \in StreamPairs
      PROVE  [i[p] EXCEPT !.status = "desired"] \in [status : Status, epoch : 0..MaxEpochs]
             /\ [i[p] EXCEPT !.status = "desired"].status = "desired"
  BY DEF Infos, Status
<1> QED
  BY <1>1 DEF Wanted, Infos

LEMMA SubscribeIs ==
    ASSUME StreamTypes, NEW i \in Infos, NEW m \in [StreamPairs -> Members], NEW asked \in SUBSET StreamPairs,
           NEW e \in 0..MaxEpochs, NEW want \in SUBSET StreamPairs, Subscribe(i, m, asked, e, want)
    PROVE  /\ info' \in Infos /\ member' \in [StreamPairs -> Members]
           /\ handoffs' \in [StreamPairs -> Handoffs \cup {NoWork}]
           /\ server' \in [live : SUBSET StreamPairs, asked : SUBSET StreamPairs]
           /\ server'.live = server.live
           /\ \A p \in server'.asked : p \in asked \/ info'[p].status = "sent"
           /\ \A p \in StreamPairs : Untouched(p, i, m) \/ Waited(p, i)
<1>1. PICK cooled \in SUBSET Busy(i) :
        \E kept \in SUBSET {p \in want : Wanted(i, cooled)[p].status = "desired"} : \E batch \in SUBSET kept :
          /\ info' = Subscribed(Wanted(i, cooled), e, batch, {p \in want : Wanted(i, cooled)[p].status = "desired"} \ kept)
          /\ server' = [server EXCEPT !.asked = asked \cup batch]
          /\ member' = [p \in StreamPairs |-> IF p \in {q \in want : Wanted(i, cooled)[q].status = "desired"} \ kept
                                              THEN Failed(m[p]) ELSE m[p]]
          /\ handoffs' = [p \in StreamPairs |-> IF p \in {q \in want : Wanted(i, cooled)[q].status = "desired"} \ kept
                                                THEN NoWork ELSE handoffs[p]]
  BY DEF Subscribe
<1> DEFINE tried == Wanted(i, cooled)
           pending == {p \in want : tried[p].status = "desired"}
<1>2. PICK kept \in SUBSET pending, batch \in SUBSET pending :
          /\ info' = Subscribed(tried, e, batch, pending \ kept) /\ batch \subseteq kept
          /\ server' = [server EXCEPT !.asked = asked \cup batch]
          /\ member' = [p \in StreamPairs |-> IF p \in pending \ kept THEN Failed(m[p]) ELSE m[p]]
          /\ handoffs' = [p \in StreamPairs |-> IF p \in pending \ kept THEN NoWork ELSE handoffs[p]]
  BY <1>1
<1>3. /\ tried \in Infos
      /\ \A p \in StreamPairs : p \in cooled => tried[p].status = "desired" /\ i[p].status = "busy"
      /\ \A p \in StreamPairs : p \notin cooled => tried[p] = i[p]
  BY <1>1, WantedIs DEF Busy
<1> HIDE DEF tried
<1>4. pending \subseteq StreamPairs /\ \A p \in pending : i[p].status \in {"desired", "busy"}
  BY <1>3
<1> HIDE DEF pending
<1>5. info' \in Infos
  BY <1>2, <1>3 DEF Infos, Subscribed, Status, Served
<1>6. /\ server' \in [live : SUBSET StreamPairs, asked : SUBSET StreamPairs] /\ server'.live = server.live
      /\ server'.asked = asked \cup batch
  BY <1>2, <1>4 DEF StreamTypes
<1>7. \A p \in batch : info'[p].status = "sent"
  BY <1>2, <1>4 DEF Subscribed
<1>8. ASSUME NEW p \in StreamPairs
      PROVE  /\ member'[p] \in Members /\ handoffs'[p] \in Handoffs \cup {NoWork}
             /\ Untouched(p, i, m) \/ Waited(p, i)
  <2>1. m[p] \in Members /\ handoffs[p] \in Handoffs \cup {NoWork} /\ polling \in BOOLEAN
        /\ tried[p] \in [status : Status, epoch : 0..MaxEpochs]
    BY <1>3 DEF StreamTypes, Infos
  <2>2. member'[p] \in Members /\ handoffs'[p] \in Handoffs \cup {NoWork}
    BY <1>2, <2>1, FailedIs
  <2>3. CASE p \in batch
    BY <1>2, <1>4, <2>2, <2>3 DEF Subscribed, Waited
  <2>4. CASE p \in pending \ kept
    BY <1>2, <1>4, <2>1, <2>2, <2>4 DEF Subscribed, Waited
  <2>5. CASE p \notin batch /\ p \notin pending \ kept
    <3>1. info'[p] = tried[p] /\ member'[p] = m[p] /\ handoffs'[p] = handoffs[p]
      BY <1>2, <2>5 DEF Subscribed
    <3> QED
      BY <1>3, <2>2, <3>1 DEF Untouched, Waited
  <2> QED
    BY <2>2, <2>3, <2>4, <2>5
<1>9. member' \in [StreamPairs -> Members] /\ handoffs' \in [StreamPairs -> Handoffs \cup {NoWork}]
  BY <1>2, <1>8
<1> QED
  BY <1>5, <1>6, <1>7, <1>8, <1>9

(* Arrivals go behind what is buffered and push nothing out.                   *)
LEMMA BufferedIs ==
    ASSUME closed \in Nat, link.epoch \in 0..MaxEpochs, NEW q \in Seq(Events), Len(q) <= BufferMax,
           NEW arrived \in SUBSET StreamPairs, NEW order \in SetToSeqs(arrived), NEW r,
           r = Buffered(q, order, closed + 1)
    PROVE  /\ r \in Seq(EventsTo(closed + 1))
           /\ Len(r) <= BufferMax
           /\ \A k \in 1..Len(q) : k \in 1..Len(r) /\ r[k] = q[k]
           /\ \A k \in 1..Len(r) : (k \in 1..Len(q) /\ r[k] = q[k]) \/ r[k].epoch = link.epoch
<1> DEFINE Later == EventsTo(closed + 1)
           new == [k \in 1..Len(order) |-> Event(order[k], closed + 1)]
           all == q \o new
<1>1. IsFiniteSet(arrived) /\ Cardinality(arrived) \in Nat
  BY StreamAssumption, FS_Subset, FS_CardinalityType
<1>2. order \in [1..Cardinality(arrived) -> arrived]
  BY DEF SetToSeqs
<1>3. order \in Seq(StreamPairs)
  <2>1. order \in [1..Cardinality(arrived) -> StreamPairs]
    BY <1>2
  <2> QED
    BY <1>1, <2>1, SeqDef
<1>4. new \in Seq(Later) /\ Len(new) = Len(order) /\ \A k \in 1..Len(new) : new[k] = Event(order[k], closed + 1)
  <2>1. Len(order) \in Nat /\ \A k \in 1..Len(order) : order[k] \in StreamPairs
    BY <1>3
  <2>2. \A k \in 1..Len(order) : Event(order[k], closed + 1) \in Later
    BY <2>1 DEF Event, EventsTo
  <2>3. new \in [1..Len(order) -> Later]
    BY <2>2
  <2>4. new \in Seq(Later)
    BY <2>1, <2>3, SeqDef
  <2> QED
    BY <2>1, <2>4
<1>5. q \in Seq(Later)
  <2>1. Events \subseteq Later
    BY DEF Events, EventsTo
  <2> QED
    BY <2>1, SeqMonotonic
<1>6. /\ all \in Seq(Later) /\ Len(all) = Len(q) + Len(new)
      /\ \A k \in 1..Len(q) : all[k] = q[k]
      /\ \A k \in 1..Len(all) : k > Len(q) => all[k] = new[k - Len(q)]
  BY <1>4, <1>5
<1>7. \A k \in 1..Len(all) : k > Len(q) => all[k].epoch = link.epoch
  <2>1. \A k \in 1..Len(new) : new[k].epoch = link.epoch
    BY <1>4 DEF Event
  <2> HIDE DEF new, all, Later
  <2> SUFFICES ASSUME NEW k \in 1..Len(all), k > Len(q)
               PROVE  all[k].epoch = link.epoch
    OBVIOUS
  <2>2. Len(q) \in Nat /\ Len(new) \in Nat
    BY <1>4, <1>5
  <2>3. k - Len(q) \in 1..Len(new)
    BY <1>6, <2>2
  <2> QED
    BY <1>6, <2>1, <2>3
<1>8. r = IF Len(all) <= BufferMax THEN all ELSE SubSeq(all, 1, BufferMax)
  BY DEF Buffered
<1> HIDE DEF all, new, Later
<1>9. /\ r \in Seq(Later) /\ Len(r) <= BufferMax /\ Len(r) <= Len(all) /\ Len(r) >= Len(q)
      /\ \A k \in 1..Len(r) : r[k] = all[k]
  <2>1. BufferMax \in Nat /\ Len(q) \in Nat /\ Len(all) \in Nat /\ Len(all) >= Len(q) /\ all \in Seq(Later)
    BY <1>4, <1>5, <1>6, StreamAssumption
  <2>2. CASE Len(all) <= BufferMax
    BY <1>8, <2>1, <2>2
  <2>3. CASE ~(Len(all) <= BufferMax)
    <3>1. r = SubSeq(all, 1, BufferMax) /\ BufferMax <= Len(all) /\ Len(q) <= BufferMax
      BY <1>8, <2>1, <2>3
    <3>2. SubSeq(all, 1, BufferMax) \in Seq(Later) /\ Len(SubSeq(all, 1, BufferMax)) = BufferMax
          /\ \A k \in 1..BufferMax : SubSeq(all, 1, BufferMax)[k] = all[k]
      BY <2>1, <3>1, SMTT(60)
    <3> QED
      BY <2>1, <3>1, <3>2
  <2> QED
    BY <2>2, <2>3
<1>10. Len(q) \in Nat /\ Len(r) \in Nat /\ Len(all) \in Nat
  BY <1>5, <1>6, <1>9
<1>11. \A k \in 1..Len(q) : k \in 1..Len(r) /\ r[k] = q[k]
  BY <1>6, <1>9, <1>10
<1>12. \A k \in 1..Len(r) : (k \in 1..Len(q) /\ r[k] = q[k]) \/ r[k].epoch = link.epoch
  <2> SUFFICES ASSUME NEW k \in 1..Len(r), ~(k \in 1..Len(q))
               PROVE  r[k].epoch = link.epoch
    BY <1>11
  <2>1. k \in 1..Len(all) /\ k > Len(q)
    BY <1>9, <1>10
  <2> QED
    BY <1>7, <1>9, <2>1
<1>13. r \in Seq(Later) /\ Len(r) <= BufferMax
  BY <1>9
<1> QED
  BY <1>11, <1>12, <1>13 DEF Later

(* A pair that is trusted after a step that neither closes a bar nor touches   *)
(* the buffer was trusted before it, and what was promised of it still holds.  *)
Smaller(p) ==
    /\ member[p].bars \subseteq member'[p].bars
    /\ loss[p] > 0 => loss'[p] \in 1..loss[p]
    /\ info'[p] = info[p] /\ handoffs'[p] = handoffs[p]
    /\ load' = load /\ overtaken' = overtaken
LEMMA WholeForKept ==
    ASSUME StreamInv, NEW p \in StreamPairs, Trusted(p), Smaller(p),
           closed' = closed, events' = events, link' = link
    PROVE  WholeFor(p)'
<1>1. \A n \in Nat : Whole(p, n) => Whole(p, n)'
  BY WholeKept DEF StreamInv, Smaller
<1>2. WholeFor(p)
  BY DEF StreamInv, WholeOK
<1>3. info'[p].status = "ready" /\ p \notin overtaken' => Whole(p, 0)'
  BY <1>1, <1>2 DEF WholeFor, Smaller
<1>4. ASSUME handoffs'[p] # NoWork, info'[p].status = "acknowledged"
      PROVE  handoffs[p].epoch = link.epoch /\ Whole(p, handoffs[p].upTo)'
  <2>1. handoffs'[p] = handoffs[p] /\ handoffs[p] \in Handoffs
    BY <1>4 DEF Smaller, StreamInv, StreamTypes
  <2>2. PICK n \in Nat : n = handoffs[p].upTo
    BY <2>1 DEF Handoffs, StreamInv, StreamTypes
  <2>3. n = handoffs'[p].upTo /\ Whole(p, n)'
    BY <1>1, <1>2, <1>4, <2>1, <2>2 DEF WholeFor, Smaller
  <2> QED
    BY <1>2, <1>4, <2>1, <2>3 DEF WholeFor, Smaller
<1> QED
  BY <1>2, <1>3, <1>4 DEF WholeFor, Smaller

(* Of a pair that is not served nothing is promised.                           *)
LEMMA NothingPromised == ASSUME NEW p, info[p].status \notin Served PROVE WholeFor(p)
  BY DEF WholeFor, Served

(* What most steps leave alone.                                                *)
LEMMA TypesKept ==
    ASSUME StreamTypes, UNCHANGED <<polling, closed, load>>,
           link' \in [at : {"up", "down"}, epoch : 0..MaxEpochs],
           events' \in [buffer : Seq(Events), taken : Events \cup {NoWork}], Len(events'.buffer) <= BufferMax,
           info' \in [StreamPairs -> [status : Status, epoch : 0..MaxEpochs]],
           server' \in [live : SUBSET StreamPairs, asked : SUBSET StreamPairs],
           member' \in [StreamPairs -> Members], loss' \in [StreamPairs -> 0..closed],
           lastOpen' \in [StreamPairs -> 0..closed],
           handoffs' \in [StreamPairs -> Handoffs \cup {NoWork}]
    PROVE  StreamTypes'
  BY DEF StreamTypes, Events, EventsTo, Loads, Handoffs, Members, Bars

(* A pair that is served after a subscription was served before it, and is the *)
(* same.                                                                       *)
LEMMA SubscribeKeeps ==
    ASSUME StreamInv, NEW i \in Infos, NEW m \in [StreamPairs -> Members], NEW asked \in SUBSET StreamPairs,
           NEW want \in SUBSET StreamPairs, Subscribe(i, m, asked, link.epoch, want), link.at = "up",
           loss' \in [StreamPairs -> 0..closed],
           \A p \in StreamPairs : i[p].status \in Served =>
                i[p] = info[p] /\ m[p] = member[p] /\ loss'[p] = loss[p],
           \A p \in asked : i[p].status \notin Served,
           UNCHANGED <<polling, closed, link, events, lastOpen, load, overtaken>>
    PROVE  StreamInv'
<1>1. StreamTypes /\ link.epoch \in 0..MaxEpochs
  BY DEF StreamInv, StreamTypes
<1>2. /\ info' \in Infos /\ member' \in [StreamPairs -> Members]
      /\ handoffs' \in [StreamPairs -> Handoffs \cup {NoWork}]
      /\ server' \in [live : SUBSET StreamPairs, asked : SUBSET StreamPairs]
      /\ server'.live = server.live
      /\ \A p \in server'.asked : p \in asked \/ info'[p].status = "sent"
      /\ \A p \in StreamPairs : Untouched(p, i, m) \/ Waited(p, i)
  BY <1>1, SubscribeIs
<1>3. StreamTypes'
  BY <1>1, <1>2, TypesKept DEF StreamTypes, Infos
<1>4. LinkOK'
  BY DEF StreamInv, LinkOK
<1>5. ASSUME NEW p \in StreamPairs, info'[p].status \in Served
      PROVE  /\ info'[p] = info[p] /\ member'[p] = member[p] /\ handoffs'[p] = handoffs[p]
             /\ loss'[p] = loss[p] /\ p \notin server'.asked
  <2>1. Untouched(p, i, m) /\ info'[p].status # "sent"
    BY <1>2, <1>5 DEF Waited, Served
  <2>2. i[p].status \in Served
    BY <1>5, <2>1 DEF Untouched
  <2> QED
    BY <1>2, <2>1, <2>2 DEF Untouched
<1>6. PairsOK'
  BY <1>5 DEF StreamInv, PairsOK
<1>7. ASSUME NEW p \in StreamPairs, Trusted(p)' PROVE WholeFor(p)'
  <2>1. CASE info'[p].status \notin Served
    BY <2>1, NothingPromised DEF WholeFor, Served
  <2>2. CASE info'[p].status \in Served
    <3>1. Trusted(p)
      BY <1>2, <1>5, <1>7, <2>2 DEF Trusted
    <3>2. Smaller(p)
      BY <1>1, <1>5, <2>2 DEF Smaller, StreamTypes
    <3> QED
      BY <3>1, <3>2, WholeForKept
  <2> QED
    BY <2>1, <2>2
<1> QED
  BY <1>3, <1>4, <1>6, <1>7 DEF StreamInv, WholeOK

LEMMA ConnectKeeps == ASSUME StreamInv, Connect PROVE StreamInv'
<1> DEFINE retried == Wanted(info, {p \in StreamPairs : info[p].status \in {"unable", "busy"}})
           on == {p \in StreamPairs : member[p].on}
           e == link.epoch + 1
<1>1. /\ info \in Infos /\ member \in [StreamPairs -> Members] /\ server.asked \in SUBSET StreamPairs
      /\ e \in 0..MaxEpochs /\ e \in Nat /\ on \in SUBSET StreamPairs
      /\ link' = [at |-> "up", epoch |-> e] /\ link.epoch \in Nat
  BY StreamAssumption DEF Connect, StreamInv, StreamTypes, Infos
<1>2. Subscribe(retried, member, server.asked, e, on)
  BY DEF Connect
<1>3. retried \in Infos /\ \A p \in StreamPairs : retried[p].status \notin Served
  BY <1>1, WantedIs DEF Connect, StreamInv, LinkOK, Served
<1>4. UNCHANGED <<polling, closed, events, lastOpen, load, loss>> /\ link.at = "down" /\ StreamTypes
  BY DEF Connect, StreamInv
<1> HIDE DEF retried, on, e
<1>5. /\ info' \in Infos /\ member' \in [StreamPairs -> Members]
      /\ handoffs' \in [StreamPairs -> Handoffs \cup {NoWork}]
      /\ server' \in [live : SUBSET StreamPairs, asked : SUBSET StreamPairs] /\ server'.live = server.live
      /\ \A p \in StreamPairs : Untouched(p, retried, member) \/ Waited(p, retried)
  BY <1>1, <1>2, <1>3, <1>4, SubscribeIs
<1>6. server'.live = {} /\ events'.buffer = <<>>
  BY <1>4, <1>5 DEF StreamInv, LinkOK
<1>7. \A p \in StreamPairs : info'[p].status \notin Served
  BY <1>3, <1>5 DEF Untouched, Waited, Served
<1>8. StreamTypes'
  <2>1. link' \in [at : {"up", "down"}, epoch : 0..MaxEpochs]
    BY <1>1
  <2> QED
    BY <1>4, <1>5, <2>1, TypesKept DEF StreamTypes, Infos
<1>9. LinkOK'
  <2>1. e > 0
    BY <1>1 DEF e
  <2> QED
    BY <1>1, <1>6, <2>1 DEF LinkOK
<1>10. PairsOK' /\ WholeOK'
  BY <1>6, <1>7 DEF PairsOK, WholeOK, Trusted
<1> QED
  BY <1>8, <1>9, <1>10 DEF StreamInv

LEMMA StreamSame ==
    ASSUME StreamInv,
           UNCHANGED <<polling, closed, link, info, server, events, lastOpen, member, handoffs, load, overtaken, loss>>
    PROVE  StreamInv'
<1>1. /\ StreamTypes' /\ LinkOK' /\ PairsOK'
  BY DEF StreamInv, StreamTypes, LinkOK, PairsOK, Events, EventsTo, Loads, Handoffs, Members, Bars
<1>2. WholeOK'
  BY DEF StreamInv, WholeOK, WholeFor, Whole, Comes, Trusted, Bars
<1> QED
  BY <1>1, <1>2 DEF StreamInv

LEMMA WatchKeeps == ASSUME StreamInv, Watch PROVE StreamInv'
<1> DEFINE on == {p \in StreamPairs : member[p].on}
<1>1. /\ on \in SUBSET StreamPairs /\ link.at = "up"
      /\ UNCHANGED <<polling, closed, link, events, lastOpen, load, overtaken, loss>>
      /\ Subscribe(info, member, server.asked, link.epoch, on) \/ UNCHANGED <<info, server, member, handoffs>>
  BY DEF Watch
<1>2. /\ info \in Infos /\ member \in [StreamPairs -> Members] /\ server.asked \in SUBSET StreamPairs
      /\ loss' \in [StreamPairs -> 0..closed]
      /\ \A p \in server.asked : info[p].status \notin Served
  BY <1>1 DEF StreamInv, StreamTypes, PairsOK, Infos
<1> HIDE DEF on
<1>3. CASE Subscribe(info, member, server.asked, link.epoch, on)
  <2>1. \A p \in StreamPairs : loss'[p] = loss[p]
    BY <1>1
  <2> QED
    BY <1>1, <1>2, <1>3, <2>1, SubscribeKeeps
<1>4. CASE UNCHANGED <<info, server, member, handoffs>>
  BY <1>1, <1>2, <1>4, StreamSame
<1> QED
  BY <1>1, <1>3, <1>4

LEMMA DisconnectKeeps == ASSUME StreamInv, Disconnect PROVE StreamInv'
<1> DEFINE cut == {p \in StreamPairs : info[p].status \in {"sent"} \cup Served}
<1>1. /\ link' = [link EXCEPT !.at = "down"]
      /\ info' = [p \in StreamPairs |-> IF p \in cut THEN [info[p] EXCEPT !.status = "desired"] ELSE info[p]]
      /\ member' = [p \in StreamPairs |-> IF p \in cut THEN Unready([member[p] EXCEPT !.evidence = 0]) ELSE member[p]]
      /\ handoffs' = [p \in StreamPairs |-> IF p \in cut THEN NoWork ELSE handoffs[p]]
      /\ loss' = [p \in StreamPairs |-> IF info[p].status = "ready" THEN Noted(p, lastOpen[p]) ELSE loss[p]]
      /\ events' = [events EXCEPT !.buffer = <<>>]
      /\ server' = [live |-> {}, asked |-> {}]
      /\ UNCHANGED <<polling, closed, lastOpen, load>>
  BY DEF Disconnect
<1>2. StreamTypes
  BY DEF StreamInv
<1>3. ASSUME NEW p \in StreamPairs
      PROVE  /\ [info[p] EXCEPT !.status = "desired"] \in [status : Status, epoch : 0..MaxEpochs]
             /\ info'[p] \in [status : Status, epoch : 0..MaxEpochs]
             /\ info'[p].status \notin {"sent"} \cup Served
  <2>1. info[p] \in [status : Status, epoch : 0..MaxEpochs]
    BY <1>2 DEF StreamTypes
  <2>2. [info[p] EXCEPT !.status = "desired"] \in [status : Status, epoch : 0..MaxEpochs]
        /\ [info[p] EXCEPT !.status = "desired"].status = "desired"
    BY <2>1 DEF Status
  <2> QED
    BY <1>1, <2>1, <2>2 DEF Served
<1>4. info' \in [StreamPairs -> [status : Status, epoch : 0..MaxEpochs]]
  BY <1>1, <1>3
<1>5. member' \in [StreamPairs -> Members]
  <2>1. ASSUME NEW p \in StreamPairs PROVE Unready([member[p] EXCEPT !.evidence = 0]) \in Members
    <3>1. member[p] \in Members /\ 0 \in 0..MaxEpochs
      BY <1>2, StreamAssumption DEF StreamTypes
    <3>2. [member[p] EXCEPT !.evidence = 0] \in Members
      BY <3>1, EvidenceIs
    <3> QED
      BY <3>2, UnreadyIs
  <2> QED
    BY <1>1, <1>2, <2>1 DEF StreamTypes
<1>6. loss' \in [StreamPairs -> 0..closed]
  <2>1. \A p \in StreamPairs : lastOpen[p] \in 0..closed /\ closed \in Nat
    BY <1>2 DEF StreamTypes
  <2>2. \A p \in StreamPairs : Noted(p, lastOpen[p]) \in 0..closed
    BY <1>2, <2>1, NotedIs DEF StreamTypes
  <2> QED
    BY <1>1, <1>2, <2>2 DEF StreamTypes
<1>7. handoffs' \in [StreamPairs -> Handoffs \cup {NoWork}]
  BY <1>1, <1>2 DEF StreamTypes
<1>8. link' \in [at : {"up", "down"}, epoch : 0..MaxEpochs] /\ link'.at = "down" /\ link'.epoch = link.epoch
  BY <1>1, <1>2 DEF StreamTypes
<1>9. events' \in [buffer : Seq(Events), taken : Events \cup {NoWork}] /\ events'.buffer = <<>>
  <2>1. <<>> \in Seq(Events)
    BY EmptySeq
  <2> QED
    BY <1>1, <1>2, <2>1 DEF StreamTypes
<1> HIDE DEF cut
<1>10. StreamTypes'
  <2>1. Len(<<>>) <= BufferMax
    BY StreamAssumption
  <2> QED
    BY <1>1, <1>2, <1>4, <1>5, <1>6, <1>7, <1>8, <1>9, <2>1, TypesKept DEF StreamTypes
<1>11. LinkOK'
  <2>1. \A p \in StreamPairs : info'[p].status \notin {"sent"} \cup Served
    BY <1>3
  <2>2. Len(events'.buffer) = 0
    BY <1>9
  <2> QED
    BY <1>1, <1>8, <1>9, <2>1, <2>2 DEF LinkOK, Served
<1>12. PairsOK'
  BY <1>1, <1>3 DEF PairsOK, Served
<1>13. WholeOK'
  BY <1>1 DEF WholeOK, Trusted
<1> QED
  BY <1>10, <1>11, <1>12, <1>13 DEF StreamInv

(* After a refusal or a missing answer nothing is promised of the pair.        *)
LEMMA FailKeeps ==
    ASSUME StreamInv, NEW p \in StreamPairs, NEW status \in {"refused", "unable", "busy"}, FailPair(p, status),
           server' \in [live : SUBSET StreamPairs, asked : SUBSET StreamPairs],
           server'.live = server.live, server'.asked \subseteq server.asked, link.at = "up",
           UNCHANGED <<polling, closed, link, events, lastOpen, load, overtaken, loss>>
    PROVE  StreamInv'
<1>1. /\ info' = [info EXCEPT ![p].status = status]
      /\ member' = [member EXCEPT ![p] = Failed(member[p])]
      /\ handoffs' = [handoffs EXCEPT ![p] = NoWork]
  BY DEF FailPair
<1>2. StreamTypes
  BY DEF StreamInv
<1>3. info' \in [StreamPairs -> [status : Status, epoch : 0..MaxEpochs]]
  <2>1. info \in [StreamPairs -> [status : Status, epoch : 0..MaxEpochs]] /\ status \in Status
    BY <1>2 DEF StreamTypes, Status
  <2> QED
    BY <1>1, <2>1
<1>4. member' \in [StreamPairs -> Members]
  <2>1. member[p] \in Members /\ polling \in BOOLEAN
    BY <1>2 DEF StreamTypes
  <2>2. Failed(member[p]) \in Members
    BY <2>1, FailedIs
  <2> QED
    BY <1>1, <1>2, <2>2 DEF StreamTypes
<1>5. handoffs' \in [StreamPairs -> Handoffs \cup {NoWork}]
  BY <1>1, <1>2 DEF StreamTypes
<1>6. StreamTypes'
  BY <1>2, <1>3, <1>4, <1>5, TypesKept DEF StreamTypes
<1>7. \A q \in StreamPairs : q # p => info'[q] = info[q] /\ member'[q] = member[q] /\ handoffs'[q] = handoffs[q]
  BY <1>1, <1>2 DEF StreamTypes
<1>8. info'[p].status \notin Served
  BY <1>1, <1>2 DEF StreamTypes, Served
<1>9. LinkOK'
  BY DEF StreamInv, LinkOK
<1>10. PairsOK'
  BY <1>7, <1>8 DEF StreamInv, PairsOK, Served
<1>11. ASSUME NEW q \in StreamPairs, Trusted(q)' PROVE WholeFor(q)'
  <2>1. CASE q = p
    BY <1>8, <2>1 DEF WholeFor, Served
  <2>2. CASE q # p
    <3>1. Trusted(q)
      BY <1>7, <1>11, <2>2 DEF Trusted
    <3>2. Smaller(q)
      BY <1>2, <1>7, <2>2 DEF Smaller, StreamTypes
    <3> QED
      BY <3>1, <3>2, WholeForKept
  <2> QED
    BY <2>1, <2>2
<1> QED
  BY <1>6, <1>9, <1>10, <1>11 DEF StreamInv, WholeOK

LEMMA RefuseKeeps == ASSUME StreamInv, NEW p \in StreamPairs, Refuse(p) PROVE StreamInv'
<1>1. PICK status \in {"refused", "unable", "busy"} :
        /\ link.at = "up" /\ FailPair(p, status)
        /\ server' = [server EXCEPT !.asked = @ \ {p}]
        /\ UNCHANGED <<polling, closed, link, events, lastOpen, load, overtaken, loss>>
  BY DEF Refuse
<1>2. /\ server' \in [live : SUBSET StreamPairs, asked : SUBSET StreamPairs]
      /\ server'.live = server.live /\ server'.asked \subseteq server.asked
  BY <1>1 DEF StreamInv, StreamTypes
<1> QED
  BY <1>1, <1>2, FailKeeps

LEMMA AckTimeoutKeeps == ASSUME StreamInv, NEW p \in StreamPairs, AckTimeout(p) PROVE StreamInv'
<1>1. /\ link.at = "up" /\ FailPair(p, "unable")
      /\ UNCHANGED <<polling, closed, link, server, events, lastOpen, load, overtaken, loss>>
  BY DEF AckTimeout
<1>2. server' \in [live : SUBSET StreamPairs, asked : SUBSET StreamPairs]
  BY <1>1 DEF StreamInv, StreamTypes
<1> QED
  BY <1>1, <1>2, FailKeeps

(* An acknowledgement that the pair does not have yet opens its handoff; of    *)
(* what closes from now on the server sends every bar.                         *)
LEMMA AcknowledgedKeeps ==
    ASSUME StreamInv, NEW p \in StreamPairs, Acknowledged(p), link.at = "up",
           info[p].status \in Served => p \in server.live,
           UNCHANGED <<polling, closed, link, events, lastOpen, load, overtaken, loss>>
    PROVE  StreamInv'
<1>1. server' = [live |-> server.live \cup {p}, asked |-> server.asked \ {p}]
      /\ server' \in [live : SUBSET StreamPairs, asked : SUBSET StreamPairs]
  BY DEF Acknowledged, StreamInv, StreamTypes
<1>2. StreamTypes /\ closed \in Nat /\ link.epoch \in 0..MaxEpochs /\ link.epoch \in Nat
  BY DEF StreamInv, StreamTypes
<1>3. CASE info[p].status \in Served
  <2>1. UNCHANGED <<info, member, handoffs>>
    BY <1>3 DEF Acknowledged, StreamInv, PairsOK
  <2>2. server'.live = server.live /\ server'.asked \subseteq server.asked
    BY <1>1, <1>3
  <2>3. StreamTypes'
    BY <1>1, <1>2, <2>1, TypesKept DEF StreamTypes
  <2>4. LinkOK' /\ PairsOK'
    BY <2>1, <2>2 DEF StreamInv, LinkOK, PairsOK
  <2>5. ASSUME NEW q \in StreamPairs, Trusted(q)' PROVE WholeFor(q)'
    <3>1. Trusted(q)
      BY <2>1, <2>2, <2>5 DEF Trusted
    <3>2. Smaller(q)
      BY <1>2, <2>1 DEF Smaller, StreamTypes
    <3> QED
      BY <3>1, <3>2, WholeForKept
  <2> QED
    BY <2>3, <2>4, <2>5 DEF StreamInv, WholeOK
<1>4. CASE info[p].status \notin Served
  <2> DEFINE fresh == [member[p] EXCEPT !.evidence = link.epoch]
             handoff == IF member[p].on THEN [epoch |-> link.epoch, upTo |-> closed] ELSE handoffs[p]
  <2>1. /\ info' = [info EXCEPT ![p] = [status |-> "acknowledged", epoch |-> link.epoch]]
        /\ member' = [member EXCEPT ![p] = Unready(fresh)]
        /\ handoffs' = [handoffs EXCEPT ![p] = handoff]
    BY <1>2, <1>4 DEF Acknowledged, StreamTypes
  <2>2. info' \in [StreamPairs -> [status : Status, epoch : 0..MaxEpochs]]
        /\ info'[p] = [status |-> "acknowledged", epoch |-> link.epoch]
    BY <1>2, <2>1 DEF StreamTypes, Status, Served
  <2>3. fresh \in Members /\ Unready(fresh) \in Members
    <3>1. member[p] \in Members
      BY <1>2 DEF StreamTypes
    <3>2. fresh \in Members
      BY <1>2, <3>1, EvidenceIs
    <3> QED
      BY <3>2, UnreadyIs
  <2>4. member' \in [StreamPairs -> Members]
    BY <1>2, <2>1, <2>3 DEF StreamTypes
  <2>5. member'[p].on = member[p].on
    <3>1. member[p] \in Members
      BY <1>2 DEF StreamTypes
    <3>2. fresh \in Members /\ fresh.on = member[p].on
      BY <1>2, <3>1, EvidenceIs
    <3>3. Unready(fresh).on = member[p].on
      BY <3>2, UnreadyIs
    <3> QED
      BY <1>2, <2>1, <3>3 DEF StreamTypes
  <2>6. handoffs' \in [StreamPairs -> Handoffs \cup {NoWork}]
        /\ (member[p].on => handoffs'[p] = [epoch |-> link.epoch, upTo |-> closed])
    BY <1>2, <2>1 DEF StreamTypes, Handoffs
  <2>7. \A q \in StreamPairs : q # p => info'[q] = info[q] /\ member'[q] = member[q] /\ handoffs'[q] = handoffs[q]
    BY <1>2, <2>1 DEF StreamTypes
  <2> HIDE DEF fresh, handoff
  <2>8. StreamTypes'
    BY <1>1, <1>2, <2>2, <2>4, <2>6, TypesKept DEF StreamTypes
  <2>9. LinkOK'
    BY DEF StreamInv, LinkOK
  <2>10. PairsOK'
    BY <1>1, <2>2, <2>7 DEF StreamInv, PairsOK, Served
  <2>14. ASSUME NEW q \in StreamPairs, Trusted(q)', q # p PROVE WholeFor(q)'
    <3>1. Trusted(q)
      BY <1>1, <2>7, <2>14 DEF Trusted
    <3>2. Smaller(q)
      BY <1>2, <2>7, <2>14 DEF Smaller, StreamTypes
    <3> QED
      BY <3>1, <3>2, WholeForKept
  <2>15. ASSUME Trusted(p)' PROVE WholeFor(p)'
    <3>1. PICK n \in Nat : n = closed
      BY <1>2
    <3>2. Whole(p, n)'
      BY <3>1 DEF Whole, Bars
    <3>3. handoffs'[p] = [epoch |-> link.epoch, upTo |-> closed]
      BY <2>5, <2>6, <2>15 DEF Trusted
    <3>4. handoffs'[p].epoch = link'.epoch /\ Whole(p, handoffs[p].upTo)'
      BY <3>1, <3>2, <3>3
    <3>5. handoffs'[p] # NoWork
      BY <1>2, <3>3, StreamAssumption
    <3> QED
      BY <2>2, <3>4, <3>5 DEF WholeFor
  <2> QED
    BY <2>8, <2>9, <2>10, <2>14, <2>15 DEF StreamInv, WholeOK
<1> QED
  BY <1>3, <1>4

LEMMA AckKeeps == ASSUME StreamInv, NEW p \in StreamPairs, Ack(p) PROVE StreamInv'
  BY AcknowledgedKeeps DEF Ack, StreamInv, PairsOK

LEMMA CheckAnsweredKeeps == ASSUME StreamInv, NEW p \in StreamPairs, CheckAnswered(p) PROVE StreamInv'
  BY AcknowledgedKeeps DEF CheckAnswered

(* Whoever the server did not name in time waits again, served or not.         *)
LEMMA CheckExpiresKeeps == ASSUME StreamInv, CheckExpires PROVE StreamInv'
<1> DEFINE on == {p \in StreamPairs : member[p].on}
           shut == [p \in StreamPairs |-> IF p \in check THEN Unready(member[p]) ELSE member[p]]
           again == Wanted(info, check)
           asked == server.asked \cup (check \cap server.live)
<1>1. /\ link.at = "up" /\ Subscribe(again, shut, asked, link.epoch, on)
      /\ loss' = [p \in StreamPairs |-> IF p \in check THEN Noted(p, lastOpen[p]) ELSE loss[p]]
      /\ UNCHANGED <<polling, closed, link, events, lastOpen, load, overtaken>>
  BY DEF CheckExpires
<1>2. StreamTypes /\ info \in Infos /\ on \in SUBSET StreamPairs /\ asked \in SUBSET StreamPairs
  BY DEF StreamInv, StreamTypes, Infos
<1>3. ASSUME NEW p \in StreamPairs
      PROVE  /\ shut[p] \in Members /\ loss'[p] \in 0..closed
             /\ p \notin check => again[p] = info[p] /\ shut[p] = member[p] /\ loss'[p] = loss[p]
             /\ p \in check => again[p].status = "desired"
  <2>1. member[p] \in Members /\ closed \in Nat /\ lastOpen[p] \in 0..closed /\ loss[p] \in 0..closed
    BY <1>2 DEF StreamTypes
  <2>2. Unready(member[p]) \in Members
    BY <2>1, UnreadyIs
  <2>3. Noted(p, lastOpen[p]) \in 0..closed
    BY <1>2, <2>1, NotedIs DEF StreamTypes
  <2> QED
    BY <1>1, <1>2, <2>1, <2>2, <2>3, WantedIs
<1>4. again \in Infos /\ shut \in [StreamPairs -> Members] /\ loss' \in [StreamPairs -> 0..closed]
  BY <1>1, <1>2, <1>3, WantedIs
<1>5. \A p \in asked : again[p].status \notin Served
  <2>1. \A p \in server.asked : p \in StreamPairs /\ info[p].status \notin Served
    BY <1>2 DEF StreamInv, PairsOK
  <2> QED
    BY <1>2, <1>3, <2>1 DEF Served
<1>6. \A p \in StreamPairs : again[p].status \in Served =>
        again[p] = info[p] /\ shut[p] = member[p] /\ loss'[p] = loss[p]
  <2> HIDE DEF again, shut
  <2> QED
    BY <1>3 DEF Served
<1> HIDE DEF again, shut, asked, on
<1> QED
  BY <1>1, <1>2, <1>4, <1>5, <1>6, SubscribeKeeps

(* A bar that closes reaches every pair that is trusted: in the buffer, or as  *)
(* a loss that is known.                                                       *)
LEMMA BarClosesKeeps == ASSUME StreamInv, BarCloses PROVE StreamInv'
<1> DEFINE latest == closed + 1
           arrived == IF link.at = "up" THEN {p \in server.live : Listening(p)} ELSE {}
           Later == EventsTo(latest)
<1>1. /\ closed' = latest
      /\ loss' = [p \in StreamPairs |-> IF p \in arrived /\ ~InBuffer(events'.buffer, p, latest)
                                        THEN Noted(p, latest) ELSE loss[p]]
      /\ UNCHANGED <<polling, link, info, server, lastOpen, member, handoffs, load, overtaken>>
  BY DEF BarCloses
<1>2. PICK order \in SetToSeqs(arrived) : events' = [events EXCEPT !.buffer = Buffered(events.buffer, order, latest)]
  BY DEF BarCloses
<1>3. /\ StreamTypes /\ closed \in Nat /\ latest \in Nat /\ link.epoch \in 0..MaxEpochs
      /\ events.buffer \in Seq(Events) /\ Len(events.buffer) <= BufferMax
      /\ arrived \in SUBSET StreamPairs
  BY DEF StreamInv, StreamTypes
<1> DEFINE q == events'.buffer
<1>4. /\ q = Buffered(events.buffer, order, latest)
      /\ events'.taken = events.taken /\ events' = [buffer |-> q, taken |-> events.taken]
  BY <1>2, <1>3 DEF StreamTypes
<1> HIDE DEF q
<1>5. /\ q \in Seq(Later) /\ Len(q) <= BufferMax
      /\ \A k \in 1..Len(events.buffer) : k \in 1..Len(q) /\ q[k] = events.buffer[k]
      /\ \A k \in 1..Len(q) : (k \in 1..Len(events.buffer) /\ q[k] = events.buffer[k]) \/ q[k].epoch = link.epoch
  <2> HIDE DEF arrived
  <2>1. PICK r : r = Buffered(events.buffer, order, closed + 1)
    OBVIOUS
  <2>2. r = q
    BY <1>4, <2>1
  <2>3. /\ r \in Seq(EventsTo(closed + 1)) /\ Len(r) <= BufferMax
        /\ \A k \in 1..Len(events.buffer) : k \in 1..Len(r) /\ r[k] = events.buffer[k]
        /\ \A k \in 1..Len(r) : (k \in 1..Len(events.buffer) /\ r[k] = events.buffer[k]) \/ r[k].epoch = link.epoch
    <3>1. closed \in Nat /\ link.epoch \in 0..MaxEpochs /\ arrived \in SUBSET StreamPairs
          /\ events.buffer \in Seq(Events) /\ Len(events.buffer) <= BufferMax
      BY <1>3
    <3>2. order \in SetToSeqs(arrived)
      BY <1>2
    <3>3. PICK a : a = arrived
      OBVIOUS
    <3>4. a \in SUBSET StreamPairs /\ order \in SetToSeqs(a)
      BY <3>1, <3>2, <3>3
    <3> QED
      BY <2>1, <3>1, <3>4, BufferedIs
  <2> QED
    BY <2>2, <2>3
<1>6. ASSUME NEW p \in StreamPairs
      PROVE  /\ loss'[p] \in 0..latest
             /\ loss[p] > 0 => loss'[p] > 0 /\ loss'[p] <= loss[p]
             /\ p \in arrived => InBuffer(q, p, latest) \/ (loss'[p] > 0 /\ loss'[p] <= latest)
  <2>1. loss[p] \in 0..closed /\ latest \in 0..closed + 1 /\ latest > 0 /\ closed \in Nat
    BY <1>3 DEF StreamTypes
  <2>2. Noted(p, latest) \in 0..latest /\ Noted(p, latest) > 0 /\ Noted(p, latest) <= latest
        /\ (loss[p] > 0 => Noted(p, latest) <= loss[p])
    BY <1>3, <2>1, NotedIs DEF StreamTypes
  <2>3. loss'[p] = IF p \in arrived /\ ~InBuffer(q, p, latest) THEN Noted(p, latest) ELSE loss[p]
    BY <1>1 DEF q
  <2> HIDE DEF arrived
  <2> QED
    BY <2>1, <2>2, <2>3
<1>7. StreamTypes'
  <2>1. loss' \in [StreamPairs -> 0..latest]
    BY <1>1, <1>6
  <2>2. lastOpen' \in [StreamPairs -> 0..latest]
    BY <1>1, <1>3 DEF StreamTypes
  <2>3. Events' = Later /\ Events \subseteq Later
    BY <1>1, <1>3 DEF Events, EventsTo
  <2>4. events' \in [buffer : Seq(Events'), taken : Events' \cup {NoWork}] /\ Len(events'.buffer) <= BufferMax
    BY <1>3, <1>4, <1>5, <2>3 DEF StreamTypes, q
  <2>5. Members \subseteq Members' /\ Handoffs \subseteq Handoffs' /\ Loads \subseteq Loads'
    BY <1>1, <1>3 DEF Members, Handoffs, Loads, Bars
  <2> HIDE DEF latest
  <2> QED
    BY <1>1, <1>3, <2>1, <2>2, <2>4, <2>5 DEF StreamTypes
<1>8. LinkOK'
  <2>1. link.at = "down" => q = <<>>
    <3> SUFFICES ASSUME link.at = "down" PROVE q = <<>>
      OBVIOUS
    <3>1. arrived = {} /\ events.buffer = <<>>
      BY DEF StreamInv, LinkOK
    <3>2. order \in [1..0 -> {}]
      <4>1. Cardinality({}) = 0
        BY FS_EmptySet
      <4> QED
        BY <3>1, <4>1 DEF SetToSeqs
    <3>3. Len(order) = 0
      <4>1. order = <<>>
        BY <3>2
      <4> QED
        BY <4>1
    <3> DEFINE new == [i \in 1..Len(order) |-> Event(order[i], latest)]
    <3>4. new = <<>>
      BY <3>3
    <3>5. <<>> \o new = <<>>
      BY <3>4
    <3> QED
      BY <1>4, <3>1, <3>5, StreamAssumption DEF Buffered
  <2>2. \A k \in 1..Len(q) : q[k].epoch = link.epoch
    BY <1>5 DEF StreamInv, LinkOK
  <2> QED
    BY <1>1, <2>1, <2>2 DEF StreamInv, LinkOK, q
<1>9. PairsOK'
  BY <1>1 DEF StreamInv, PairsOK
<1>10. ASSUME NEW p \in StreamPairs, Trusted(p), info[p].status \in Served, NEW n \in Nat, Whole(p, n) PROVE Whole(p, n)'
  <2> SUFFICES ASSUME NEW b \in 1..latest, b > n
               PROVE  b \in member[p].bars \/ Comes(p, b)'
    BY <1>1 DEF Whole, Bars
  <2>1. CASE b = latest
    <3>1. p \in arrived
      <4>1. link.at = "up"
        BY <1>10 DEF Trusted, StreamInv, LinkOK, StreamTypes
      <4> QED
        BY <1>10, <4>1 DEF Trusted, StreamInv, PairsOK, Listening
    <3> QED
      BY <1>6, <2>1, <3>1 DEF Comes, q
  <2>2. CASE b # latest
    <3>1. b \in Bars
      BY <1>3, <2>2 DEF Bars
    <3>2. b \in member[p].bars \/ Comes(p, b)
      BY <1>10, <2>2, <3>1 DEF Whole
    <3>3. loss[p] \in Nat /\ loss'[p] \in Nat /\ b \in Nat
      BY <1>3, <1>6 DEF StreamTypes
    <3>4. loss[p] > 0 /\ loss[p] <= b => loss'[p] > 0 /\ loss'[p] <= b
      BY <1>6, <3>3
    <3>5. InBuffer(events.buffer, p, b) => InBuffer(q, p, b)
      BY <1>5 DEF InBuffer
    <3> QED
      BY <1>1, <1>4, <3>2, <3>4, <3>5 DEF Comes, q
  <2> QED
    BY <2>1, <2>2
<1>11. ASSUME NEW p \in StreamPairs, Trusted(p)' PROVE WholeFor(p)'
  <2>1. Trusted(p) /\ WholeFor(p)
    BY <1>1, <1>11 DEF Trusted, StreamInv, WholeOK
  <2>2. info[p].status = "ready" /\ p \notin overtaken => Whole(p, 0)'
    BY <1>10, <2>1 DEF WholeFor, Served
  <2>3. ASSUME handoffs[p] # NoWork, info[p].status = "acknowledged" PROVE Whole(p, handoffs[p].upTo)'
    <3>1. PICK n \in Nat : n = handoffs[p].upTo
      BY <1>3, <2>3 DEF StreamTypes, Handoffs
    <3> QED
      BY <1>1, <1>10, <2>1, <2>3, <3>1 DEF WholeFor, Served
  <2> QED
    BY <1>1, <2>1, <2>2, <2>3 DEF WholeFor
<1> QED
  BY <1>7, <1>8, <1>9, <1>11 DEF StreamInv, WholeOK

(* What is taken from the buffer is in the applier's hand.                     *)
LEMMA TakeKeeps == ASSUME StreamInv, Take PROVE StreamInv'
<1> DEFINE q == events.buffer
<1>1. /\ q # <<>> /\ events.taken = NoWork
      /\ events' = [buffer |-> Tail(q), taken |-> Head(q)]
      /\ UNCHANGED <<polling, closed, link, info, server, lastOpen, member, handoffs, load, overtaken, loss>>
  BY DEF Take
<1>2. StreamTypes /\ q \in Seq(Events) /\ Len(q) <= BufferMax /\ BufferMax \in Nat
  BY StreamAssumption DEF StreamInv, StreamTypes
<1>3. /\ Tail(q) \in Seq(Events) /\ Len(Tail(q)) = Len(q) - 1 /\ Len(q) \in Nat /\ Len(q) > 0
      /\ Head(q) = q[1] /\ q[1] \in Events
      /\ \A k \in 1..Len(q) - 1 : Tail(q)[k] = q[k + 1]
  BY <1>1, <1>2
<1>4. Head(q) # NoWork
  <2>1. Events \subseteq [pair : StreamPairs, bar : Nat, epoch : Nat]
    BY <1>2, StreamAssumption DEF Events, EventsTo, Bars, StreamTypes
  <2> QED
    BY <1>3, <2>1, StreamAssumption
<1> HIDE DEF q
<1>5. StreamTypes'
  <2>1. events' \in [buffer : Seq(Events), taken : Events \cup {NoWork}] /\ Len(events'.buffer) <= BufferMax
    BY <1>1, <1>2, <1>3
  <2> QED
    BY <1>1, <1>2, <2>1, TypesKept DEF StreamTypes
<1>6. \A k \in 1..Len(q) : q[k].epoch = link.epoch
  BY DEF StreamInv, LinkOK, q
<1>7. LinkOK'
  <2>1. \A k \in 1..Len(Tail(q)) : Tail(q)[k].epoch = link.epoch
    BY <1>3, <1>6
  <2>2. link.at # "down"
    BY <1>1 DEF StreamInv, LinkOK, q
  <2> QED
    BY <1>1, <2>1, <2>2 DEF StreamInv, LinkOK
<1>8. PairsOK'
  BY <1>1 DEF StreamInv, PairsOK
<1>9. ASSUME NEW p \in StreamPairs, NEW b \in Bars, Comes(p, b) PROVE Comes(p, b)'
  <2>1. CASE InBuffer(q, p, b)
    <3>1. PICK k \in 1..Len(q) : q[k].pair = p /\ q[k].bar = b
      BY <2>1 DEF InBuffer
    <3>2. CASE k = 1
      BY <1>1, <1>3, <1>4, <1>6, <3>1, <3>2 DEF Comes
    <3>3. CASE k # 1
      <4>1. k - 1 \in 1..Len(Tail(q)) /\ Tail(q)[k - 1] = q[k]
        BY <1>3, <3>3
      <4>2. InBuffer(Tail(q), p, b)
        BY <3>1, <4>1 DEF InBuffer
      <4> QED
        BY <1>1, <4>2 DEF Comes
    <3> QED
      BY <3>2, <3>3
  <2>2. CASE ~InBuffer(q, p, b)
    BY <1>1, <1>9, <2>2 DEF Comes, q
  <2> QED
    BY <2>1, <2>2
<1>10. ASSUME NEW p \in StreamPairs, NEW n, Whole(p, n) PROVE Whole(p, n)'
  BY <1>1, <1>9, <1>10 DEF Whole, Bars
<1>11. WholeOK'
  BY <1>1, <1>10 DEF StreamInv, WholeOK, WholeFor, Trusted
<1> QED
  BY <1>5, <1>7, <1>8, <1>11 DEF StreamInv

(* An event of the generation that is trusted is stored.                       *)
LEMMA ApplyKeeps == ASSUME StreamInv, Apply PROVE StreamInv'
<1>1. PICK e : e = events.taken
  OBVIOUS
<1>2. /\ e # NoWork
      /\ member' = IF member[e.pair].on /\ Accepts(e) THEN [member EXCEPT ![e.pair].bars = @ \cup {e.bar}] ELSE member
      /\ lastOpen' = IF member[e.pair].on THEN [lastOpen EXCEPT ![e.pair] = e.bar] ELSE lastOpen
      /\ events' = [events EXCEPT !.taken = NoWork]
      /\ UNCHANGED <<polling, closed, link, info, server, handoffs, load, overtaken, loss>>
  BY <1>1 DEF Apply
<1>3. StreamTypes /\ e \in Events /\ closed \in Nat
  BY <1>1, <1>2 DEF StreamInv, StreamTypes
<1>4. e.pair \in StreamPairs /\ e.bar \in Bars
  BY <1>3 DEF Events, EventsTo, Bars
<1>5. events' = [buffer |-> events.buffer, taken |-> NoWork]
  BY <1>2, <1>3 DEF StreamTypes
<1>6. ASSUME NEW p \in StreamPairs
      PROVE  /\ member'[p] \in Members /\ member'[p].on = member[p].on /\ member'[p].evidence = member[p].evidence
             /\ member[p].bars \subseteq member'[p].bars
             /\ p = e.pair /\ member[p].on /\ Accepts(e) => e.bar \in member'[p].bars
  <2>1. member[p] \in Members /\ member \in [StreamPairs -> Members]
    BY <1>3 DEF StreamTypes
  <2> QED
    BY <1>2, <1>4, <2>1 DEF Members
<1>7. member' \in [StreamPairs -> Members] /\ lastOpen' \in [StreamPairs -> 0..closed]
  <2>1. DOMAIN member' = StreamPairs /\ member' = [p \in StreamPairs |-> member'[p]]
    BY <1>2, <1>3, <1>4 DEF StreamTypes
  <2>2. member' \in [StreamPairs -> Members]
    BY <1>6, <2>1
  <2>3. lastOpen' \in [StreamPairs -> 0..closed]
    BY <1>2, <1>3, <1>4 DEF StreamTypes, Bars
  <2> QED
    BY <2>2, <2>3
<1>8. StreamTypes'
  BY <1>2, <1>3, <1>5, <1>7, TypesKept DEF StreamTypes
<1>9. LinkOK' /\ PairsOK'
  BY <1>2, <1>5 DEF StreamInv, LinkOK, PairsOK
<1>10. ASSUME NEW p \in StreamPairs, NEW n, Trusted(p), Whole(p, n) PROVE Whole(p, n)'
  <2> SUFFICES ASSUME NEW b \in Bars, b > n
               PROVE  b \in member'[p].bars \/ Comes(p, b)'
    BY <1>2 DEF Whole, Bars
  <2>1. b \in member[p].bars \/ Comes(p, b)
    BY <1>10 DEF Whole
  <2>2. e.pair = p /\ e.bar = b /\ e.epoch = link.epoch => b \in member'[p].bars
    BY <1>6, <1>10 DEF Trusted, Accepts
  <2> QED
    BY <1>1, <1>2, <1>5, <1>6, <2>1, <2>2 DEF Comes
<1>11. WholeOK'
  BY <1>2, <1>6, <1>10 DEF StreamInv, WholeOK, WholeFor, Trusted
<1> QED
  BY <1>8, <1>9, <1>11 DEF StreamInv

(* Steps that only change pairs of the cache and what is known of losses: what *)
(* is stored stays stored, and evidence comes from an acknowledgement only.    *)
LEMMA MembersKeep ==
    ASSUME StreamInv, UNCHANGED <<polling, closed, link, info, server, events, lastOpen, handoffs, load, overtaken>>,
           member' \in [StreamPairs -> Members], loss' \in [StreamPairs -> 0..closed],
           \A p \in StreamPairs :
              \/ ~Trusted(p)'
              \/ /\ member'[p].on = member[p].on /\ member'[p].evidence = member[p].evidence
                 /\ \A n \in Nat : Whole(p, n) => Whole(p, n)'
    PROVE  StreamInv'
<1>1. StreamTypes'
  BY TypesKept DEF StreamInv, StreamTypes
<1>2. LinkOK' /\ PairsOK'
  BY DEF StreamInv, LinkOK, PairsOK
<1>3. ASSUME NEW p \in StreamPairs, Trusted(p)' PROVE WholeFor(p)'
  <2>1. /\ Trusted(p) /\ WholeFor(p)
        /\ \A n \in Nat : Whole(p, n) => Whole(p, n)'
    BY <1>3 DEF Trusted, StreamInv, WholeOK
  <2>2. info[p].status = "ready" /\ p \notin overtaken => Whole(p, 0)'
    BY <2>1 DEF WholeFor
  <2>3. ASSUME handoffs[p] # NoWork, info[p].status = "acknowledged" PROVE Whole(p, handoffs[p].upTo)'
    <3>1. PICK n \in Nat : n = handoffs[p].upTo
      BY <2>3 DEF StreamInv, StreamTypes, Handoffs
    <3> QED
      BY <2>1, <2>3, <3>1 DEF WholeFor
  <2> QED
    BY <2>1, <2>2, <2>3 DEF WholeFor
<1> QED
  BY <1>1, <1>2, <1>3 DEF StreamInv, WholeOK

LEMMA PollKeeps == ASSUME StreamInv, NEW p \in StreamPairs, Poll(p) PROVE StreamInv'
<1> DEFINE more == member[p].bars \cup {b \in Bars : \A c \in member[p].bars : c < b}
<1>1. /\ member' = [member EXCEPT ![p].bars = more]
      /\ UNCHANGED <<polling, closed, link, info, server, events, lastOpen, handoffs, load, overtaken, loss>>
  BY DEF Poll
<1>2. StreamTypes /\ more \in SUBSET Bars /\ member[p].bars \subseteq more
  BY DEF StreamInv, StreamTypes, Members
<1> HIDE DEF more
<1>3. ASSUME NEW q \in StreamPairs
      PROVE  /\ member'[q] \in Members /\ member'[q].on = member[q].on /\ member'[q].evidence = member[q].evidence
             /\ member[q].bars \subseteq member'[q].bars
  <2>1. member[q] \in Members /\ member \in [StreamPairs -> Members]
    BY <1>2 DEF StreamTypes
  <2> QED
    BY <1>1, <1>2, <2>1 DEF Members
<1>4. member' \in [StreamPairs -> Members]
  BY <1>1, <1>2, <1>3 DEF StreamTypes
<1>5. ASSUME NEW q \in StreamPairs, NEW n \in Nat, Whole(q, n) PROVE Whole(q, n)'
  <2>1. loss[q] > 0 => loss'[q] \in 1..loss[q]
    BY <1>1, <1>2 DEF StreamTypes
  <2> QED
    BY <1>1, <1>2, <1>3, <1>5, <2>1, WholeKept
<1> QED
  BY <1>1, <1>2, <1>3, <1>4, <1>5, MembersKeep DEF StreamTypes

LEMMA RecoverKeeps == ASSUME StreamInv, NEW p \in StreamPairs, Recover(p) PROVE StreamInv'
<1> DEFINE more == member[p].bars \cup loss[p]..closed
<1>1. /\ loss[p] > 0
      /\ member' = [member EXCEPT ![p].bars = more] /\ loss' = [loss EXCEPT ![p] = 0]
      /\ UNCHANGED <<polling, closed, link, info, server, events, lastOpen, handoffs, load, overtaken>>
  BY DEF Recover
<1>2. StreamTypes /\ more \in SUBSET Bars /\ member[p].bars \subseteq more /\ loss[p]..closed \subseteq more
      /\ closed \in Nat /\ loss[p] \in Nat
  BY <1>1 DEF StreamInv, StreamTypes, Members, Bars
<1> HIDE DEF more
<1>3. ASSUME NEW q \in StreamPairs
      PROVE  /\ member'[q] \in Members /\ member'[q].on = member[q].on /\ member'[q].evidence = member[q].evidence
             /\ member[q].bars \subseteq member'[q].bars
             /\ q = p => member'[q].bars = more
  <2>1. member[q] \in Members /\ member \in [StreamPairs -> Members]
    BY <1>2 DEF StreamTypes
  <2> QED
    BY <1>1, <1>2, <2>1 DEF Members
<1>4. member' \in [StreamPairs -> Members] /\ loss' \in [StreamPairs -> 0..closed]
  <2>1. member' = [q \in StreamPairs |-> member'[q]] /\ loss' = [q \in StreamPairs |-> loss'[q]]
    BY <1>1, <1>2 DEF StreamTypes
  <2>2. \A q \in StreamPairs : loss'[q] \in 0..closed
    BY <1>1, <1>2 DEF StreamTypes
  <2> QED
    BY <1>3, <2>1, <2>2
<1>5. ASSUME NEW q \in StreamPairs, NEW n \in Nat, Whole(q, n), q # p PROVE Whole(q, n)'
  <2>1. loss'[q] = loss[q] /\ loss[q] \in Nat
    BY <1>1, <1>2, <1>5 DEF StreamTypes
  <2> QED
    BY <1>1, <1>2, <1>3, <1>5, <2>1, WholeKept
<1>6. ASSUME NEW n \in Nat, Whole(p, n) PROVE Whole(p, n)'
  <2> SUFFICES ASSUME NEW b \in Bars, b > n
               PROVE  b \in more \/ Comes(p, b)'
    BY <1>1, <1>3 DEF Whole, Bars
  <2>1. b \in member[p].bars \/ Comes(p, b)
    BY <1>6 DEF Whole
  <2>2. loss[p] <= b => b \in more
    BY <1>2 DEF Bars
  <2> QED
    BY <1>1, <1>2, <2>1, <2>2 DEF Comes
<1> QED
  BY <1>1, <1>3, <1>4, <1>5, <1>6, MembersKeep

LEMMA UnregisterKeeps == ASSUME StreamInv, NEW p \in StreamPairs, Unregister(p) PROVE StreamInv'
<1>1. /\ member' = [member EXCEPT ![p] = [member[p] EXCEPT !.on = FALSE, !.evidence = 0,
                                                           !.transport = "none", !.ready = FALSE]]
      /\ UNCHANGED <<polling, closed, link, info, server, events, lastOpen, handoffs, load, overtaken, loss>>
  BY DEF Unregister
<1>2. StreamTypes /\ 0 \in 0..MaxEpochs
  BY StreamAssumption DEF StreamInv
<1>3. member[p] \in Members /\ member \in [StreamPairs -> Members]
  BY <1>2 DEF StreamTypes
<1>4. member'[p] \in Members /\ member'[p].on = FALSE /\ \A q \in StreamPairs : q # p => member'[q] = member[q]
  BY <1>1, <1>2, <1>3 DEF Members
<1>5. member' \in [StreamPairs -> Members]
  BY <1>1, <1>3, <1>4
<1>6. ~Trusted(p)'
  BY <1>4 DEF Trusted
<1>7. ASSUME NEW q \in StreamPairs, NEW n \in Nat, q # p, Whole(q, n) PROVE Whole(q, n)'
  <2>1. loss[q] > 0 => loss'[q] \in 1..loss[q]
    BY <1>1, <1>2 DEF StreamTypes
  <2> QED
    BY <1>1, <1>2, <1>4, <1>7, <2>1, WholeKept
<1> QED
  BY <1>1, <1>2, <1>4, <1>5, <1>6, <1>7, MembersKeep DEF StreamTypes

(* A pair that is asked for again is trusted when the server has acknowledged  *)
(* it anew.                                                                    *)
LEMMA RegisterKeeps == ASSUME StreamInv, NEW p \in StreamPairs, Register(p) PROVE StreamInv'
<1>1. /\ member' = [member EXCEPT ![p] = [NewMember EXCEPT !.bars = Bars]]
      /\ UNCHANGED <<polling, closed, link, info, server, events, lastOpen, handoffs, load, overtaken, loss>>
  BY DEF Register
<1>2. StreamTypes /\ 0 \in 0..MaxEpochs
  BY StreamAssumption DEF StreamInv
<1>3. member \in [StreamPairs -> Members]
  BY <1>2 DEF StreamTypes
<1>4. member'[p] \in Members /\ member'[p].evidence = 0 /\ \A q \in StreamPairs : q # p => member'[q] = member[q]
  BY <1>1, <1>2, <1>3 DEF Members, NewMember
<1>5. member' \in [StreamPairs -> Members]
  BY <1>1, <1>3, <1>4
<1>6. ~Trusted(p)'
  BY <1>1, <1>2, <1>4 DEF Trusted, StreamInv, LinkOK, StreamTypes
<1>7. ASSUME NEW q \in StreamPairs, NEW n \in Nat, q # p, Whole(q, n) PROVE Whole(q, n)'
  <2>1. loss[q] > 0 => loss'[q] \in 1..loss[q]
    BY <1>1, <1>2 DEF StreamTypes
  <2> QED
    BY <1>1, <1>2, <1>4, <1>7, <2>1, WholeKept
<1> QED
  BY <1>1, <1>2, <1>4, <1>5, <1>6, <1>7, MembersKeep DEF StreamTypes

LEMMA ForgetKeeps == ASSUME StreamInv, NEW p \in StreamPairs, Forget(p) PROVE StreamInv'
<1>1. /\ server' = [server EXCEPT !.live = server.live \ {p}]
      /\ UNCHANGED <<polling, closed, link, info, events, lastOpen, member, handoffs, load, overtaken, loss>>
  BY DEF Forget
<1>2. StreamTypes
  BY DEF StreamInv
<1>3. server' \in [live : SUBSET StreamPairs, asked : SUBSET StreamPairs]
      /\ server'.live = server.live \ {p} /\ server'.asked = server.asked
  BY <1>1, <1>2 DEF StreamTypes
<1>4. StreamTypes'
  BY <1>1, <1>2, <1>3, TypesKept DEF StreamTypes
<1>5. LinkOK' /\ PairsOK'
  BY <1>1, <1>3 DEF StreamInv, LinkOK, PairsOK
<1>6. ASSUME NEW q \in StreamPairs, Trusted(q)' PROVE WholeFor(q)'
  <2>1. Trusted(q)
    BY <1>1, <1>3, <1>6 DEF Trusted
  <2>2. Smaller(q)
    BY <1>1, <1>2 DEF Smaller, StreamTypes
  <2> QED
    BY <1>1, <2>1, <2>2, WholeForKept
<1> QED
  BY <1>4, <1>5, <1>6 DEF StreamInv, WholeOK

(* The load takes the promise of its handoff over.                             *)
LEMMA HandoffStartsKeeps == ASSUME StreamInv, NEW p \in StreamPairs, HandoffStarts(p) PROVE StreamInv'
<1>1. /\ load = NoWork /\ handoffs[p] # NoWork
      /\ load' = [pair |-> p, epoch |-> handoffs[p].epoch, upTo |-> handoffs[p].upTo]
      /\ UNCHANGED <<polling, closed, link, info, server, events, lastOpen, member, handoffs, overtaken, loss>>
  BY DEF HandoffStarts
<1>2. StreamTypes /\ handoffs[p] \in Handoffs
  BY <1>1 DEF StreamInv, StreamTypes
<1>3. load' \in Loads
  BY <1>1, <1>2 DEF Loads, Handoffs
<1>4. StreamTypes'
  BY <1>1, <1>2, <1>3 DEF StreamTypes, Events, EventsTo, Loads, Handoffs, Members, Bars
<1>5. LinkOK' /\ PairsOK'
  BY <1>1 DEF StreamInv, LinkOK, PairsOK
<1>7. ASSUME NEW q \in StreamPairs, NEW n PROVE Whole(q, n) => Whole(q, n)'
  BY <1>1 DEF Whole, Comes, Bars
<1>8. WholeOK'
  BY <1>1, <1>7 DEF StreamInv, WholeOK, WholeFor, Trusted
<1> QED
  BY <1>4, <1>5, <1>8 DEF StreamInv

LEMMA HandoffFailsKeeps == ASSUME StreamInv, HandoffFails PROVE StreamInv'
<1>1. /\ load' = NoWork
      /\ UNCHANGED <<polling, closed, link, info, server, events, lastOpen, member, handoffs, overtaken, loss>>
  BY DEF HandoffFails
<1>2. StreamTypes'
  BY <1>1 DEF StreamInv, StreamTypes, Events, EventsTo, Loads, Handoffs, Members, Bars
<1>3. LinkOK' /\ PairsOK'
  BY <1>1 DEF StreamInv, LinkOK, PairsOK
<1>4. ASSUME NEW q \in StreamPairs, NEW n PROVE Whole(q, n) => Whole(q, n)'
  BY <1>1 DEF Whole, Comes, Bars
<1>5. WholeOK'
  BY <1>1, <1>4 DEF StreamInv, WholeOK, WholeFor, Trusted
<1> QED
  BY <1>2, <1>3, <1>5 DEF StreamInv

(* What the load brings and what has come since is all that has closed.        *)
LEMMA HandoffEndsKeeps == ASSUME StreamInv, HandoffEnds PROVE StreamInv'
<1>1. PICK p, e, k : p = load.pair /\ e = load.epoch /\ k = load.upTo
  OBVIOUS
<1> DEFINE stored == [member[p] EXCEPT !.bars = IF member[p].on THEN @ \cup 1..k ELSE @]
           next == IF HandoffOpens(p, e) THEN HandedOff(stored, "stream", TRUE) ELSE stored
<1>2. /\ load # NoWork /\ load' = NoWork
      /\ handoffs' = [handoffs EXCEPT ![p] = NoWork]
      /\ info' = IF HandoffOpens(p, e) THEN [info EXCEPT ![p].status = "ready"] ELSE info
      /\ member' = [member EXCEPT ![p] = next]
      /\ overtaken' = IF HandoffOpens(p, e) /\ Overtakes(p) THEN overtaken \cup {p}
                      ELSE IF HandoffOpens(p, e) THEN overtaken \ {p} ELSE overtaken
      /\ UNCHANGED <<polling, closed, link, server, events, lastOpen, loss>>
  BY <1>1 DEF HandoffEnds
<1>3. /\ StreamTypes /\ p \in StreamPairs /\ e \in 0..MaxEpochs /\ k \in 0..closed /\ closed \in Nat
      /\ member[p] \in Members /\ info[p] \in [status : Status, epoch : 0..MaxEpochs]
  BY <1>1, <1>2 DEF StreamInv, StreamTypes, Loads
<1>4. /\ stored \in Members /\ stored.on = member[p].on /\ stored.evidence = member[p].evidence
      /\ member[p].bars \subseteq stored.bars /\ (member[p].on => 1..k \subseteq stored.bars)
  BY <1>3 DEF Members, Bars
<1> HIDE DEF stored
<1>5. /\ next \in Members /\ next.on = member[p].on /\ next.evidence = member[p].evidence
      /\ member[p].bars \subseteq next.bars /\ (member[p].on => 1..k \subseteq next.bars)
  BY <1>4, HandedOffIs
<1> HIDE DEF next
<1>6. /\ member' \in [StreamPairs -> Members] /\ member'[p] = next
      /\ \A q \in StreamPairs : q # p => member'[q] = member[q]
  BY <1>2, <1>3, <1>5 DEF StreamTypes
<1>7. /\ handoffs' \in [StreamPairs -> Handoffs \cup {NoWork}] /\ handoffs'[p] = NoWork
      /\ \A q \in StreamPairs : q # p => handoffs'[q] = handoffs[q]
  BY <1>2, <1>3 DEF StreamTypes
<1>8. /\ info' \in [StreamPairs -> [status : Status, epoch : 0..MaxEpochs]]
      /\ \A q \in StreamPairs : q # p => info'[q] = info[q]
      /\ info'[p].epoch = info[p].epoch
      /\ HandoffOpens(p, e) => info'[p].status = "ready" /\ info[p].status = "acknowledged" /\ e = link.epoch
      /\ ~HandoffOpens(p, e) => info'[p] = info[p]
  BY <1>2, <1>3 DEF StreamTypes, Status, Served, HandoffOpens
<1>9. StreamTypes'
  BY <1>2, <1>3, <1>6, <1>7, <1>8 DEF StreamTypes, Events, EventsTo, Loads, Handoffs, Members, Bars
<1>10. LinkOK'
  <2>1. link.at = "down" => ~HandoffOpens(p, e)
    BY <1>3, <1>8 DEF StreamInv, LinkOK, Served
  <2> QED
    BY <1>2, <1>8, <2>1 DEF StreamInv, LinkOK
<1>11. PairsOK'
  BY <1>2, <1>3, <1>8 DEF StreamInv, PairsOK, Served
<1>13. ASSUME NEW q \in StreamPairs, NEW n \in Nat, Whole(q, n) PROVE Whole(q, n)'
  <2>1. member[q].bars \subseteq member'[q].bars
    BY <1>5, <1>6
  <2> QED
    BY <1>2, <1>13, <2>1 DEF Whole, Comes, Bars
<1>14. ASSUME NEW q \in StreamPairs, Trusted(q)' PROVE WholeFor(q)'
  <2>1. Trusted(q) /\ WholeFor(q)
    BY <1>2, <1>5, <1>6, <1>14 DEF Trusted, StreamInv, WholeOK
  <2>2. ASSUME handoffs'[q] # NoWork, info'[q].status = "acknowledged"
        PROVE  handoffs'[q].epoch = link.epoch /\ Whole(q, handoffs[q].upTo)'
    <3>1. q # p /\ handoffs'[q] = handoffs[q] /\ info'[q] = info[q]
      BY <1>7, <1>8, <2>2
    <3>2. PICK n \in Nat : n = handoffs[q].upTo
      BY <1>3, <2>2, <3>1 DEF StreamTypes, Handoffs
    <3>3. Whole(q, n) /\ handoffs[q].epoch = link.epoch
      BY <2>1, <2>2, <3>1, <3>2 DEF WholeFor
    <3> QED
      BY <1>13, <3>1, <3>2, <3>3
  <2>3. ASSUME info'[q].status = "ready", q \notin overtaken' PROVE Whole(q, 0)'
    <3>1. CASE ~(q = p /\ HandoffOpens(p, e))
      <4>1. info'[q] = info[q] /\ q \notin overtaken
        BY <1>2, <1>8, <2>3, <3>1
      <4> QED
        BY <1>13, <2>1, <2>3, <4>1 DEF WholeFor
    <3>2. CASE q = p /\ HandoffOpens(p, e)
      <4>1. handoffs[p] # NoWork /\ handoffs[p].epoch = link.epoch /\ Whole(p, handoffs[p].upTo)
        BY <1>1, <1>2, <1>8, <2>1, <3>2 DEF WholeFor
      <4>2. ~Overtakes(p)
        BY <1>2, <2>3, <3>2
      <4>3. PICK n \in Nat : n = handoffs[p].upTo
        BY <1>3, <4>1 DEF StreamTypes, Handoffs
      <4>4. n <= k
        BY <1>1, <1>3, <1>8, <3>2, <4>1, <4>2, <4>3 DEF Overtakes
      <4>5. Whole(p, n)'
        BY <1>13, <1>3, <4>1, <4>3
      <4>6. 1..k \subseteq member'[p].bars
        BY <1>5, <1>6, <2>1, <3>2 DEF Trusted
      <4> QED
        BY <1>2, <1>3, <3>2, <4>4, <4>5, <4>6 DEF Whole, Bars
    <3> QED
      BY <3>1, <3>2
  <2> QED
    BY <1>2, <2>2, <2>3 DEF WholeFor
<1> QED
  BY <1>9, <1>10, <1>11, <1>14 DEF StreamInv, WholeOK

LEMMA StreamInvInit == StreamInit => StreamInv
<1> SUFFICES ASSUME StreamInit PROVE StreamInv
  OBVIOUS
<1>1. /\ closed = 0 /\ link = [at |-> "down", epoch |-> 0] /\ 0 \in 0..MaxEpochs /\ polling \in BOOLEAN
      /\ info = [p \in StreamPairs |-> NewPair] /\ server = [live |-> {}, asked |-> {}]
      /\ events = [buffer |-> <<>>, taken |-> NoWork] /\ load = NoWork
      /\ lastOpen = [p \in StreamPairs |-> 0] /\ loss = [p \in StreamPairs |-> 0]
      /\ member = [p \in StreamPairs |-> NewMember] /\ handoffs = [p \in StreamPairs |-> NoWork]
  BY StreamAssumption DEF StreamInit
<1>2. events.buffer \in Seq(Events) /\ Len(events.buffer) = 0 /\ BufferMax \in Nat
  BY <1>1, EmptySeq, StreamAssumption
<1>3. NewPair \in [status : Status, epoch : 0..MaxEpochs] /\ NewPair.status \notin {"sent"} \cup Served
      /\ NewPair.status # "acknowledged"
  BY <1>1 DEF NewPair, Status, Served
<1>4. NewMember \in Members
  BY <1>1 DEF NewMember, Members
<1>5. StreamTypes
  <2>1. events \in [buffer : Seq(Events), taken : Events \cup {NoWork}] /\ Len(events.buffer) <= BufferMax
    BY <1>1, <1>2
  <2>2. info \in [StreamPairs -> [status : Status, epoch : 0..MaxEpochs]] /\ member \in [StreamPairs -> Members]
    BY <1>1, <1>3, <1>4
  <2> QED
    BY <1>1, <2>1, <2>2 DEF StreamTypes
<1>6. LinkOK
  BY <1>1, <1>2, <1>3 DEF LinkOK
<1>7. PairsOK
  BY <1>1, <1>3 DEF PairsOK, Served
<1>8. WholeOK
  BY <1>1 DEF WholeOK, Trusted
<1> QED
  BY <1>5, <1>6, <1>7, <1>8 DEF StreamInv

LEMMA StreamInvNext == StreamInv /\ [StreamNext]_streamVars => StreamInv'
<1> SUFFICES ASSUME StreamInv, [StreamNext]_streamVars PROVE StreamInv'
  OBVIOUS
<1>1. CASE UNCHANGED streamVars
  BY <1>1, StreamSame DEF streamVars
<1>2. CASE Connect
  BY <1>2, ConnectKeeps
<1>3. CASE Disconnect
  BY <1>3, DisconnectKeeps
<1>4. CASE BarCloses
  BY <1>4, BarClosesKeeps
<1>5. CASE Take
  BY <1>5, TakeKeeps
<1>6. CASE Apply
  BY <1>6, ApplyKeeps
<1>7. CASE Watch
  BY <1>7, WatchKeeps
<1>8. CASE CheckStarts
  BY <1>8, StreamSame DEF CheckStarts
<1>9. CASE CheckExpires
  BY <1>9, CheckExpiresKeeps
<1>10. CASE HandoffEnds
  BY <1>10, HandoffEndsKeeps
<1>11. CASE HandoffFails
  BY <1>11, HandoffFailsKeeps
<1>12. ASSUME NEW p \in StreamPairs,
              \/ Ack(p) \/ Refuse(p) \/ AckTimeout(p) \/ CheckAnswered(p) \/ Forget(p)
              \/ HandoffStarts(p) \/ Poll(p) \/ Recover(p) \/ Unregister(p) \/ Register(p)
       PROVE  StreamInv'
  BY <1>12, AckKeeps, RefuseKeeps, AckTimeoutKeeps, CheckAnsweredKeeps, ForgetKeeps, HandoffStartsKeeps,
     PollKeeps, RecoverKeeps, UnregisterKeeps, RegisterKeeps
<1> QED
  BY <1>1, <1>2, <1>3, <1>4, <1>5, <1>6, <1>7, <1>8, <1>9, <1>10, <1>11, <1>12 DEF StreamNext

LEMMA StreamInvAlways == StreamSpec => []StreamInv
  BY StreamInvInit, StreamInvNext, PTL DEF StreamSpec

LEMMA StreamTyped == StreamInv => StreamTypeOK
BY DEF StreamInv, StreamTypes, StreamTypeOK, Members

(* The supervisor, the applier and the worker keep the types of what they      *)
(* share; the buffer keeps its limit, and no bar is known before it closes.    *)
THEOREM StreamTypeCorrect == StreamSpec => []StreamTypeOK
<1>1. StreamInv => StreamTypeOK
  BY StreamTyped
<1> QED
  BY <1>1, StreamInvAlways, PTL

(* _handoff_ready() opens a pair: from then on no closed bar of it is missing  *)
(* that is neither stored, nor buffered or being applied, nor a known loss, as *)
(* long as the server serves it: through reconnections, a full buffer, late    *)
(* and refused acknowledgements, subscriptions forgotten at any moment, checks *)
(* that expire, releases and loads of an older generation. Except a pair that  *)
(* the load of an earlier handoff of the same connection has opened.           *)
THEOREM ReadyIsCompleteAlways == StreamSpec => []ReadyIsComplete
<1>1. StreamInv => ReadyIsComplete
  <2> SUFFICES ASSUME StreamInv, NEW p \in StreamPairs \ overtaken, info[p].status = "ready", p \in server.live,
                      member[p].on, member[p].evidence = link.epoch, NEW b \in Bars
               PROVE  b \in member[p].bars \/ OnItsWay(p, b)
    BY DEF ReadyIsComplete, Complete
  <2>1. Whole(p, 0)
    BY DEF StreamInv, WholeOK, WholeFor, Trusted
  <2>2. b > 0
    BY DEF Bars, StreamInv, StreamTypes
  <2> QED
    BY <2>1, <2>2 DEF Whole, Comes, OnItsWay
<1> QED
  BY <1>1, StreamInvAlways, PTL

-----------------------------------------------------------------------------
(* The versions of a minute (CandleStore).                                     *)
(*                                                                             *)
(* A minute is simulated with one revision because the batch of a contour      *)
(* holds the pinned revisions of the minutes after the booked one (PinsInv):   *)
(* a restart empties the batch, and pinning again finds the pins. A delayed    *)
(* answer decides nothing because a different answer that came since has       *)
(* moved the sequence past its fence (FenceInv).                               *)

FactsType == [sequence : Nat, last : Signature \cup {Nobody}, seen : Signature \cup {Nobody},
              revision : Nat, canonical : CandleSources \cup {Nobody}, conflict : Nat]
PinType == [revision : Nat, state : {"none", "started", "consumed"}]
TickType == [at : {"resume", "pin", "commit", "mark"}, batch : Seq(Nat)]

StoreTypes ==
    /\ facts \in [Minutes -> FactsType]
    /\ versions \in [Minutes -> Seq(Signature)]
    /\ current \in [Minutes -> Nat]
ContourTypes ==
    /\ pins \in [Minutes -> PinType]
    /\ played \in [Minutes -> SUBSET Nat]
    /\ passed \in 0..LastMinute /\ booked \in 0..LastMinute
    /\ tick \in TickType
CoreTypes == watched \subseteq Minutes /\ request \in Fetch \cup {Nobody}

(* Revisions are those of the row.                                             *)
RowsHold == \A m \in Minutes :
    /\ current[m] <= Len(versions[m])
    /\ facts[m].revision <= Len(versions[m]) /\ facts[m].conflict <= Len(versions[m])
    /\ pins[m].revision <= Len(versions[m])

(* What is pinned, about to be simulated and simulated already is the same.    *)
BatchInv ==
    /\ booked + Len(tick.batch) <= LastMinute
    /\ tick.at = "commit" => tick.batch # <<>>
    /\ tick.at = "mark" => booked > 0
    /\ \A i \in 1..Len(tick.batch) :
          pins[booked + i].state # "none" /\ pins[booked + i].revision = tick.batch[i]
PinsInv ==
    /\ \A m \in Minutes : pins[m].state # "none" => pins[m].revision > 0
    /\ \A m \in Minutes : played[m] \subseteq {pins[m].revision}
    /\ \A m \in Minutes : played[m] # {} => pins[m].state # "none"

FenceInv ==
    request # Nobody => /\ request.fence <= facts[request.minute].sequence
                        /\ request.missed => request.fence < facts[request.minute].sequence

CandleIInv == StoreTypes /\ ContourTypes /\ CoreTypes /\ RowsHold /\ BatchInv /\ PinsInv /\ FenceInv

LEMMA CandleInitIInv == CandleInit => CandleIInv
<1> SUFFICES ASSUME CandleInit PROVE CandleIInv
  OBVIOUS
<1> USE DEF CandleInit
<1>1. NoFacts \in FactsType /\ <<>> \in Seq(Signature) /\ NoPin \in PinType /\ Started \in TickType
  BY DEF NoFacts, FactsType, NoPin, PinType, Started, TickType
<1>2. StoreTypes /\ ContourTypes /\ CoreTypes
  BY <1>1, CandleAssumption DEF StoreTypes, ContourTypes, CoreTypes
<1>3. RowsHold
  BY DEF RowsHold, NoFacts, NoPin
<1>4. BatchInv
  BY CandleAssumption DEF BatchInv, Started
<1>5. PinsInv /\ FenceInv
  BY DEF PinsInv, FenceInv, NoPin
<1> QED
  BY <1>2, <1>3, <1>4, <1>5 DEF CandleIInv

-----------------------------------------------------------------------------
(* What the store does with one observation.                                   *)

LEMMA CountedFacts ==
  ASSUME StoreTypes, NEW m \in Minutes, NEW sig \in Signature
  PROVE  /\ Counted(m, sig) \in FactsType
         /\ Counted(m, sig).sequence >= facts[m].sequence
         /\ facts[m].last # sig => Counted(m, sig).sequence > facts[m].sequence
         /\ Counted(m, sig).revision = facts[m].revision
         /\ Counted(m, sig).conflict = facts[m].conflict
<1>1. facts[m] \in FactsType
  BY DEF StoreTypes
<1> DEFINE g == [facts[m] EXCEPT !.sequence = facts[m].sequence + 1]
<1> DEFINE f == [g EXCEPT !.last = sig]
<1>2. /\ g \in FactsType /\ g.sequence = facts[m].sequence + 1 /\ g.revision = facts[m].revision
      /\ g.conflict = facts[m].conflict
  BY <1>1 DEF FactsType
<1> HIDE DEF g
<1>3. f \in FactsType /\ f.sequence = g.sequence /\ f.revision = g.revision /\ f.conflict = g.conflict
  BY <1>2 DEF FactsType
<1>4. Counted(m, sig) = IF facts[m].last = sig THEN facts[m] ELSE f
  BY DEF Counted, g
<1> HIDE DEF f
<1> QED
  BY <1>1, <1>2, <1>3, <1>4 DEF FactsType

LEMMA RevisedRow ==
  ASSUME StoreTypes, RowsHold, NEW m \in Minutes, NEW sig \in Signature
  PROVE  /\ Revised(m, sig).row \in Seq(Signature)
         /\ Len(Revised(m, sig).row) >= Len(versions[m])
         /\ Revised(m, sig).revision \in Nat
         /\ Revised(m, sig).revision <= Len(Revised(m, sig).row)
<1>1. versions[m] \in Seq(Signature) /\ facts[m].revision \in Nat /\ facts[m].revision <= Len(versions[m])
  BY DEF StoreTypes, RowsHold, FactsType
<1>2. /\ Append(versions[m], sig) \in Seq(Signature)
      /\ Len(Append(versions[m], sig)) = Len(versions[m]) + 1 /\ Len(versions[m]) \in Nat
  BY <1>1, AppendProperties, LenProperties
<1> QED
  BY <1>1, <1>2 DEF Revised

(* The row of the minute may grow, the others stay; the sequence counts every  *)
(* change of the answer; the current revision is replaced only by a fenced     *)
(* answer whose fence is still the sequence.                                   *)
Stored(m, sig, fence) ==
    /\ StoreTypes'
    /\ \A k \in Minutes : /\ current'[k] <= Len(versions'[k])
                          /\ facts'[k].revision <= Len(versions'[k]) /\ facts'[k].conflict <= Len(versions'[k])
                          /\ Len(versions[k]) <= Len(versions'[k])
                          /\ facts[k].sequence <= facts'[k].sequence
    /\ facts[m].last # sig => facts[m].sequence < facts'[m].sequence
    /\ \A k \in Minutes : current[k] \notin {0, current'[k]} => k = m /\ fence = facts[m].sequence

LEMMA RepeatsStored ==
  ASSUME StoreTypes, RowsHold, NEW m \in Minutes, NEW sig \in Signature, NEW fence, Repeats(m, sig, fence)
  PROVE  Stored(m, sig, fence)
<1> DEFINE c == IF FenceMatches(m, fence) THEN 0 ELSE Counted(m, sig).conflict
<1> DEFINE f == [Counted(m, sig) EXCEPT !.conflict = c]
<1>1. /\ facts[m] \in FactsType /\ c \in Nat /\ c <= Len(versions[m]) /\ Len(versions[m]) \in Nat
  BY CountedFacts, LenProperties DEF StoreTypes, RowsHold, FactsType
<1> HIDE DEF c
<1>2. /\ f \in FactsType /\ f.sequence = Counted(m, sig).sequence /\ f.revision = facts[m].revision /\ f.conflict = c
  BY <1>1, CountedFacts DEF FactsType
<1>3. facts' = [facts EXCEPT ![m] = f] /\ UNCHANGED <<versions, current>>
  BY DEF Repeats, c
<1> HIDE DEF f
<1>4. facts' \in [Minutes -> FactsType] /\ facts'[m] = f /\ \A k \in Minutes \ {m} : facts'[k] = facts[k]
  BY <1>2, <1>3 DEF StoreTypes
<1>5. StoreTypes'
  BY <1>3, <1>4 DEF StoreTypes
<1>6. \A k \in Minutes : facts[k].sequence \in Nat /\ Len(versions[k]) \in Nat
  BY LenProperties DEF StoreTypes, FactsType
<1>7. \A k \in Minutes : /\ facts'[k].revision <= Len(versions'[k]) /\ facts'[k].conflict <= Len(versions'[k])
                         /\ facts[k].sequence <= facts'[k].sequence
  BY <1>1, <1>2, <1>3, <1>4, <1>6, CountedFacts DEF RowsHold
<1>8. facts[m].last # sig => facts[m].sequence < facts'[m].sequence
  BY <1>2, <1>4, CountedFacts, <1>6
<1>9. \A k \in Minutes : current'[k] <= Len(versions'[k]) /\ Len(versions[k]) <= Len(versions'[k])
  BY <1>3, <1>6 DEF RowsHold
<1> QED
  BY <1>3, <1>5, <1>7, <1>8, <1>9 DEF Stored

LEMMA DiffersStored ==
  ASSUME StoreTypes, RowsHold, NEW m \in Minutes, NEW sig \in Signature, NEW fence, Differs(m, sig, fence)
  PROVE  Stored(m, sig, fence)
<1> DEFINE r == Revised(m, sig)
<1> DEFINE f == [Counted(m, sig) EXCEPT !.seen = sig, !.revision = r.revision]
<1> DEFINE held == current[m] > 0 /\ ~FenceMatches(m, fence)
<1> DEFINE g == IF held THEN [f EXCEPT !.conflict = r.revision] ELSE [f EXCEPT !.conflict = 0, !.canonical = sig.source]
<1>1. /\ versions' = [versions EXCEPT ![m] = r.row]
      /\ current' = IF held THEN current ELSE [current EXCEPT ![m] = r.revision]
      /\ facts' = [facts EXCEPT ![m] = g]
  BY DEF Differs
<1>2. /\ r.row \in Seq(Signature) /\ Len(r.row) >= Len(versions[m]) /\ r.revision \in Nat /\ r.revision <= Len(r.row)
      /\ Len(r.row) \in Nat
  BY RevisedRow, LenProperties
<1> HIDE DEF r
<1>3. f \in FactsType /\ f.sequence = Counted(m, sig).sequence /\ f.revision = r.revision
  BY <1>2, CountedFacts DEF FactsType
<1> HIDE DEF f
<1>4. sig.source \in CandleSources
  BY DEF Signature
<1>5. /\ g \in FactsType /\ g.sequence = Counted(m, sig).sequence /\ g.revision = r.revision
      /\ g.conflict \in {0, r.revision}
  BY <1>2, <1>3, <1>4 DEF FactsType
<1> HIDE DEF g
<1>6. facts' \in [Minutes -> FactsType] /\ facts'[m] = g /\ \A k \in Minutes \ {m} : facts'[k] = facts[k]
  BY <1>1, <1>5 DEF StoreTypes
<1>7. versions' \in [Minutes -> Seq(Signature)] /\ versions'[m] = r.row /\ \A k \in Minutes \ {m} : versions'[k] = versions[k]
  BY <1>1, <1>2 DEF StoreTypes
<1>8. /\ current' \in [Minutes -> Nat] /\ current'[m] \in {current[m], r.revision}
      /\ held => current'[m] = current[m]
      /\ \A k \in Minutes \ {m} : current'[k] = current[k]
  BY <1>1, <1>2 DEF StoreTypes
<1>9. \A k \in Minutes : facts[k].sequence \in Nat /\ Len(versions[k]) \in Nat /\ current[k] \in Nat
  BY LenProperties DEF StoreTypes, FactsType
<1>10. \A k \in Minutes : /\ current'[k] <= Len(versions'[k])
                          /\ facts'[k].revision <= Len(versions'[k]) /\ facts'[k].conflict <= Len(versions'[k])
                          /\ Len(versions[k]) <= Len(versions'[k])
                          /\ facts[k].sequence <= facts'[k].sequence
  <2> TAKE k \in Minutes
  <2>1. CASE k = m
    <3>1. current'[m] <= Len(r.row) /\ Len(versions[m]) <= Len(r.row)
      BY <1>2, <1>8, <1>9 DEF RowsHold
    <3>2. facts'[m].revision <= Len(r.row) /\ facts'[m].conflict <= Len(r.row)
      BY <1>2, <1>5, <1>6
    <3>3. facts[m].sequence <= facts'[m].sequence
      BY <1>5, <1>6, <1>9, CountedFacts
    <3> QED
      BY <2>1, <3>1, <3>2, <3>3, <1>7
  <2>2. CASE k # m
    <3>1. facts'[k] = facts[k] /\ versions'[k] = versions[k] /\ current'[k] = current[k]
      BY <2>2, <1>6, <1>7, <1>8
    <3> QED
      BY <3>1, <1>9 DEF RowsHold
  <2> QED
    BY <2>1, <2>2
<1>11. facts[m].last # sig => facts[m].sequence < facts'[m].sequence
  BY <1>5, <1>6, <1>9, CountedFacts
<1>12. ASSUME NEW k \in Minutes, current[k] \notin {0, current'[k]} PROVE k = m /\ fence = facts[m].sequence
  <2>1. k = m
    BY <1>12, <1>8
  <2>2. ~held /\ current[m] > 0
    BY <2>1, <1>12, <1>8, <1>9
  <2> QED
    BY <2>1, <2>2 DEF FenceMatches
<1>13. StoreTypes'
  BY <1>6, <1>7, <1>8 DEF StoreTypes
<1> QED
  BY <1>10, <1>11, <1>12, <1>13 DEF Stored

LEMMA AcceptStored ==
  ASSUME StoreTypes, RowsHold, NEW m \in Minutes, NEW sig \in Signature, NEW fence, Accept(m, sig, fence),
         watched \subseteq Minutes
  PROVE  Stored(m, sig, fence) /\ watched' \subseteq Minutes /\ UNCHANGED contour
<1>1. Repeats(m, sig, fence) \/ Differs(m, sig, fence)
  BY DEF Accept
<1>2. watched' \subseteq Minutes /\ UNCHANGED contour
  BY DEF Accept, WatchAfter
<1> QED
  BY <1>1, <1>2, RepeatsStored, DiffersStored

-----------------------------------------------------------------------------
(* The steps.                                                                  *)

(* A step of the store alone: the rows grow, the contour is as it was.         *)
LEMMA StoredKeeps ==
  ASSUME CandleIInv, NEW m \in Minutes, NEW sig \in Signature, NEW fence, Stored(m, sig, fence), UNCHANGED contour
  PROVE  ContourTypes' /\ RowsHold' /\ BatchInv' /\ PinsInv'
<1> USE DEF CandleIInv, contour
<1>1. ContourTypes'
  BY DEF ContourTypes
<1>2. BatchInv' /\ PinsInv'
  BY DEF BatchInv, PinsInv
<1>3. \A k \in Minutes : pins'[k].revision <= Len(versions'[k])
  <2> TAKE k \in Minutes
  <2>1. pins[k].revision \in Nat /\ Len(versions[k]) \in Nat /\ Len(versions'[k]) \in Nat
    BY LenProperties DEF ContourTypes, PinType, StoreTypes, Stored
  <2>2. pins[k].revision <= Len(versions[k]) /\ Len(versions[k]) <= Len(versions'[k])
    BY DEF RowsHold, Stored
  <2> QED
    BY <2>1, <2>2
<1>4. RowsHold'
  BY <1>3 DEF RowsHold, Stored
<1> QED
  BY <1>1, <1>2, <1>4

LEMMA ObserveStep ==
  ASSUME CandleIInv, NEW m \in Minutes, NEW sig \in Signature, Observe(m, sig)
  PROVE  CandleIInv'
<1> USE DEF CandleIInv
<1>1. Stored(m, sig, Nobody) /\ watched' \subseteq Minutes /\ UNCHANGED contour
  BY AcceptStored DEF Observe, CoreTypes
<1>2. ContourTypes' /\ RowsHold' /\ BatchInv' /\ PinsInv'
  BY <1>1, StoredKeeps
<1>3. CASE request = Nobody
  <2>1. request' = Nobody
    BY <1>3 DEF Observe
  <2> QED
    BY <1>1, <1>2, <2>1 DEF CoreTypes, FenceInv, Stored
<1>4. CASE request # Nobody
  <2> DEFINE late == request.missed \/ (request.minute = m /\ facts[m].last # sig)
  <2>1. request' = [request EXCEPT !.missed = late]
    BY <1>4 DEF Observe
  <2>2. request \in Fetch /\ request.minute \in Minutes /\ request.fence \in Nat
    BY <1>4 DEF CoreTypes, Fetch, Minutes
  <2>3. late \in BOOLEAN
    BY <2>2 DEF Fetch
  <2> HIDE DEF late
  <2>4. request' \in Fetch /\ request'.minute = request.minute /\ request'.fence = request.fence /\ (request'.missed <=> late)
    BY <2>1, <2>2, <2>3 DEF Fetch
  <2>5. facts[request.minute].sequence \in Nat /\ facts'[request.minute].sequence \in Nat
    BY <1>1, <2>2 DEF Stored, StoreTypes, FactsType
  <2>6. facts[request.minute].sequence <= facts'[request.minute].sequence
    BY <1>1, <2>2 DEF Stored
  <2>7. request.fence <= facts[request.minute].sequence
    BY <1>4 DEF FenceInv
  <2>8. ASSUME late PROVE request.fence < facts'[request.minute].sequence
    <3>1. CASE request.missed
      BY <3>1, <1>4, <2>2, <2>5, <2>6 DEF FenceInv
    <3>2. CASE request.minute = m /\ facts[m].last # sig
      BY <3>2, <1>1, <2>2, <2>5, <2>7 DEF Stored
    <3> QED
      BY <2>8, <3>1, <3>2 DEF late
  <2>9. FenceInv'
    BY <2>2, <2>4, <2>5, <2>6, <2>7, <2>8 DEF FenceInv
  <2> QED
    BY <1>1, <1>2, <2>4, <2>9 DEF CoreTypes, Stored
<1> QED
  BY <1>3, <1>4

LEMMA AnswerStep ==
  ASSUME CandleIInv, NEW sig \in Signature, Answer(sig)
  PROVE  CandleIInv'
<1> USE DEF CandleIInv
<1>1. request \in Fetch /\ request.minute \in Minutes
  BY DEF Answer, CoreTypes, Fetch, Minutes
<1>2. Stored(request.minute, sig, request.fence) /\ watched' \subseteq Minutes /\ UNCHANGED contour
  BY <1>1, AcceptStored DEF Answer, CoreTypes
<1>3. ContourTypes' /\ RowsHold' /\ BatchInv' /\ PinsInv'
  BY <1>1, <1>2, StoredKeeps
<1>4. request' = Nobody
  BY DEF Answer
<1> QED
  BY <1>2, <1>3, <1>4 DEF CoreTypes, FenceInv, Stored

LEMMA AskStep ==
  ASSUME CandleIInv, NEW m \in Minutes, Ask(m)
  PROVE  CandleIInv'
<1> USE DEF CandleIInv, Ask, store, contour
<1>1. facts[m].sequence \in Nat
  BY DEF StoreTypes, FactsType
<1>2. request' \in Fetch /\ request'.minute = m /\ request'.fence = facts[m].sequence /\ request'.missed = FALSE
  BY <1>1 DEF Fetch, Minutes
<1>3. StoreTypes' /\ ContourTypes' /\ RowsHold' /\ BatchInv' /\ PinsInv'
  BY DEF StoreTypes, ContourTypes, RowsHold, BatchInv, PinsInv
<1>4. CoreTypes' /\ FenceInv'
  BY <1>1, <1>2 DEF CoreTypes, FenceInv
<1> QED
  BY <1>3, <1>4

LEMMA CoreStep ==
  ASSUME CandleIInv, Refused \/ CoreStarts
  PROVE  CandleIInv'
<1> USE DEF CandleIInv, Refused, CoreStarts, store, contour
<1>1. StoreTypes' /\ ContourTypes' /\ RowsHold' /\ BatchInv' /\ PinsInv'
  BY DEF StoreTypes, ContourTypes, RowsHold, BatchInv, PinsInv
<1>2. CoreTypes' /\ FenceInv'
  BY DEF CoreTypes, FenceInv
<1> QED
  BY <1>1, <1>2

(* mark_processed() changes the state of one pin and no revision.              *)
LEMMA MarkedPins ==
  ASSUME ContourTypes, NEW m \in Minutes, Marked(m)
  PROVE  /\ pins' \in [Minutes -> PinType] /\ passed' \in 0..LastMinute
         /\ \A k \in Minutes : pins'[k].revision = pins[k].revision
         /\ \A k \in Minutes : pins'[k].state = "none" <=> pins[k].state = "none"
<1>1. [pins[m] EXCEPT !.state = "consumed"] \in PinType
      /\ [pins[m] EXCEPT !.state = "consumed"].revision = pins[m].revision
  BY DEF ContourTypes, PinType
<1>2. CASE pins[m].state = "none"
  BY <1>2 DEF Marked, ContourTypes, Minutes
<1>3. CASE pins[m].state # "none"
  <2>1. pins' = [pins EXCEPT ![m] = [pins[m] EXCEPT !.state = "consumed"]]
    BY <1>3 DEF Marked
  <2>2. [pins[m] EXCEPT !.state = "consumed"].state = "consumed"
    BY DEF ContourTypes, PinType
  <2>3. passed' \in 0..LastMinute
    BY DEF Marked, ContourTypes, Minutes
  <2> QED
    BY <1>1, <1>3, <2>1, <2>2, <2>3 DEF ContourTypes
<1> QED
  BY <1>2, <1>3

LEMMA PinSame ==
  ASSUME ContourTypes, RowsHold, PinsInv, pins' \in [Minutes -> PinType], UNCHANGED <<played, store>>,
         \A k \in Minutes : pins'[k].revision = pins[k].revision,
         \A k \in Minutes : pins'[k].state = "none" <=> pins[k].state = "none"
  PROVE  RowsHold' /\ PinsInv'
BY DEF RowsHold, PinsInv, store

LEMMA ResumeStep == ASSUME CandleIInv, ResumeMarker PROVE CandleIInv'
<1> USE DEF CandleIInv
<1>1. /\ pins' \in [Minutes -> PinType] /\ passed' \in 0..LastMinute
      /\ \A k \in Minutes : pins'[k].revision = pins[k].revision
      /\ \A k \in Minutes : pins'[k].state = "none" <=> pins[k].state = "none"
  <2>1. CASE booked > passed
    <3>1. booked \in Minutes /\ Marked(booked)
      BY <2>1 DEF ResumeMarker, ContourTypes, Minutes
    <3> QED
      BY <3>1, MarkedPins
  <2>2. CASE ~(booked > passed)
    BY <2>2 DEF ResumeMarker, ContourTypes
  <2> QED
    BY <2>1, <2>2
<1>2. tick' \in TickType /\ tick'.batch = tick.batch /\ tick'.at = "pin"
  BY DEF ResumeMarker, ContourTypes, TickType
<1>3. UNCHANGED <<store, watched, request, booked, played>>
  BY DEF ResumeMarker
<1>4. RowsHold' /\ PinsInv'
  BY <1>1, <1>3, PinSame
<1>5. \A i \in 1..Len(tick.batch) : booked + i \in Minutes
  BY LenProperties, CandleAssumption DEF BatchInv, ContourTypes, TickType, Minutes
<1>6. BatchInv'
  BY <1>1, <1>2, <1>3, <1>5 DEF BatchInv
<1> QED
  BY <1>1, <1>2, <1>3, <1>4, <1>6 DEF StoreTypes, ContourTypes, CoreTypes, FenceInv, store

LEMMA MarkStep == ASSUME CandleIInv, MarkProcessed PROVE CandleIInv'
<1> USE DEF CandleIInv
<1>1. /\ pins' \in [Minutes -> PinType] /\ passed' \in 0..LastMinute
      /\ \A k \in Minutes : pins'[k].revision = pins[k].revision
      /\ \A k \in Minutes : pins'[k].state = "none" <=> pins[k].state = "none"
  <2>1. booked \in Minutes /\ Marked(booked)
    BY DEF MarkProcessed, ContourTypes, Minutes, BatchInv
  <2> QED
    BY <2>1, MarkedPins
<1>2. tick' \in TickType /\ tick'.batch = tick.batch /\ tick'.at = "pin"
  BY DEF MarkProcessed, ContourTypes, TickType
<1>3. UNCHANGED <<store, watched, request, booked, played>>
  BY DEF MarkProcessed
<1>4. RowsHold' /\ PinsInv'
  BY <1>1, <1>3, PinSame
<1>5. \A i \in 1..Len(tick.batch) : booked + i \in Minutes
  BY LenProperties, CandleAssumption DEF BatchInv, ContourTypes, TickType, Minutes
<1>6. BatchInv'
  BY <1>1, <1>2, <1>3, <1>5 DEF BatchInv
<1> QED
  BY <1>1, <1>2, <1>3, <1>4, <1>6 DEF StoreTypes, ContourTypes, CoreTypes, FenceInv, store

LEMMA CrashStep == ASSUME CandleIInv, ContourCrashes PROVE CandleIInv'
<1> USE DEF CandleIInv, ContourCrashes, store
<1>1. tick' \in TickType /\ Len(tick'.batch) = 0 /\ tick'.at = "resume"
  BY DEF Started, TickType
<1>2. BatchInv'
  BY <1>1 DEF BatchInv, ContourTypes
<1> QED
  BY <1>1, <1>2 DEF StoreTypes, ContourTypes, CoreTypes, RowsHold, PinsInv, FenceInv

LEMMA PinStep == ASSUME CandleIInv, Pin PROVE CandleIInv'
<1> USE DEF CandleIInv
<1> DEFINE m == booked + Len(tick.batch) + 1
<1> DEFINE rev == PinRevision(m)
<1> DEFINE pin == [revision |-> rev, state |-> PinState(m)]
<1>1. /\ tick.at = "pin" /\ m \in Minutes /\ current[m] > 0
      /\ pins' = [pins EXCEPT ![m] = pin]
      /\ tick' = [tick EXCEPT !.batch = Append(@, rev)]
      /\ UNCHANGED <<store, watched, request, passed, booked, played>>
  BY DEF Pin
<1>2. /\ booked \in Nat /\ tick.batch \in Seq(Nat) /\ Len(tick.batch) \in Nat
  BY LenProperties DEF ContourTypes, TickType
<1> HIDE DEF m
<1>3. /\ rev \in Nat /\ rev > 0 /\ rev <= Len(versions[m]) /\ PinState(m) \in {"started", "consumed"}
      /\ pins[m].state # "none" => rev = pins[m].revision
  <2>1. pins[m] \in PinType /\ current[m] \in Nat
    BY <1>1 DEF ContourTypes, StoreTypes
  <2>2. CASE pins[m].state = "none"
    BY <2>1, <2>2, <1>1 DEF PinRevision, PinState, RowsHold
  <2>3. CASE pins[m].state # "none"
    BY <2>1, <2>3, <1>1 DEF PinRevision, PinState, RowsHold, PinsInv, PinType
  <2> QED
    BY <2>2, <2>3
<1> HIDE DEF rev
<1>4. pin \in PinType /\ pin.revision = rev /\ pin.state # "none"
  BY <1>3 DEF PinType
<1> HIDE DEF pin
<1>5. /\ pins' \in [Minutes -> PinType] /\ pins'[m] = pin /\ \A k \in Minutes \ {m} : pins'[k] = pins[k]
  BY <1>1, <1>4 DEF ContourTypes
<1>6. /\ tick' \in TickType /\ tick'.at = "pin" /\ tick'.batch = Append(tick.batch, rev)
  BY <1>1, <1>2, <1>3, AppendProperties DEF ContourTypes, TickType
<1>7. /\ Len(tick'.batch) = Len(tick.batch) + 1 /\ tick'.batch[Len(tick.batch) + 1] = rev
      /\ \A i \in 1..Len(tick.batch) : tick'.batch[i] = tick.batch[i]
  BY <1>2, <1>3, <1>6, AppendProperties
<1>8. RowsHold'
  BY <1>1, <1>3, <1>4, <1>5 DEF RowsHold, store
<1>9. PinsInv'
  <2>1. \A k \in Minutes : pins'[k].state # "none" => pins'[k].revision > 0
    BY <1>3, <1>4, <1>5 DEF PinsInv
  <2>2. played[m] = {} \/ pins[m].revision = rev
    BY <1>1, <1>3 DEF PinsInv
  <2>3. \A k \in Minutes : played[k] \subseteq {pins'[k].revision} /\ (played[k] # {} => pins'[k].state # "none")
    BY <1>4, <1>5, <2>2 DEF PinsInv
  <2> QED
    BY <1>1, <2>1, <2>3 DEF PinsInv
<1>10. BatchInv'
  <2>1. booked' + Len(tick'.batch) <= LastMinute
    BY <1>1, <1>2, <1>7, CandleAssumption DEF m, Minutes
  <2>2. ASSUME NEW i \in 1..Len(tick'.batch)
        PROVE  pins'[booked' + i].state # "none" /\ pins'[booked' + i].revision = tick'.batch[i]
    <3>1. CASE i = Len(tick.batch) + 1
      <4>1. booked' + i = m
        BY <3>1, <1>1, <1>2 DEF m
      <4> QED
        BY <4>1, <3>1, <1>4, <1>5, <1>7
    <3>2. CASE i # Len(tick.batch) + 1
      <4>1. i \in 1..Len(tick.batch)
        BY <3>2, <1>2, <1>7
      <4>2. booked + i < m /\ booked + i >= 1 /\ booked + i \in Nat
        BY <4>1, <1>2 DEF m
      <4>3. booked + i \in Minutes \ {m}
        BY <4>2, <1>1, CandleAssumption DEF Minutes
      <4> QED
        BY <4>1, <4>3, <1>1, <1>5, <1>7 DEF BatchInv
    <3> QED
      BY <3>1, <3>2
  <2> QED
    BY <1>6, <2>1, <2>2 DEF BatchInv
<1> QED
  BY <1>1, <1>5, <1>6, <1>8, <1>9, <1>10 DEF StoreTypes, ContourTypes, CoreTypes, FenceInv, store

LEMMA SimulateStep == ASSUME CandleIInv, Simulate PROVE CandleIInv'
<1> USE DEF CandleIInv
<1> DEFINE m == booked + 1
<1> DEFINE rev == Head(tick.batch)
<1>1. tick.batch \in Seq(Nat) /\ tick.batch # <<>> /\ booked \in Nat
  BY DEF Simulate, ContourTypes, TickType
<1>2. rev \in Nat /\ rev = tick.batch[1] /\ Len(tick.batch) \in Nat /\ Len(tick.batch) > 0
  BY <1>1, HeadTailProperties, LenProperties, EmptySeq
<1>3. m \in Minutes
  BY <1>1, <1>2, CandleAssumption DEF BatchInv, Minutes
<1>4. pins[m].state # "none" /\ pins[m].revision = rev
  BY <1>1, <1>2 DEF BatchInv
<1>5. played' = [played EXCEPT ![m] = @ \cup {rev}] /\ tick' = [tick EXCEPT !.at = "commit"]
      /\ UNCHANGED <<store, watched, request, pins, passed, booked>>
  BY DEF Simulate
<1> HIDE DEF m, rev
<1>6. /\ played' \in [Minutes -> SUBSET Nat] /\ played'[m] = played[m] \cup {rev}
      /\ \A k \in Minutes \ {m} : played'[k] = played[k]
  BY <1>2, <1>3, <1>5 DEF ContourTypes
<1>7. tick' \in TickType /\ tick'.at = "commit" /\ tick'.batch = tick.batch
  BY <1>5 DEF ContourTypes, TickType
<1>8. PinsInv'
  BY <1>4, <1>5, <1>6 DEF PinsInv
<1>9. BatchInv'
  BY <1>1, <1>5, <1>7 DEF BatchInv
<1> QED
  BY <1>5, <1>6, <1>7, <1>8, <1>9 DEF StoreTypes, ContourTypes, CoreTypes, RowsHold, FenceInv, store

LEMMA BookStep == ASSUME CandleIInv, Book PROVE CandleIInv'
<1> USE DEF CandleIInv
<1> DEFINE rest == Tail(tick.batch)
<1>1. tick.batch \in Seq(Nat) /\ tick.batch # <<>> /\ booked \in Nat
  BY DEF Book, ContourTypes, TickType, BatchInv
<1>2. /\ rest \in Seq(Nat) /\ Len(rest) = Len(tick.batch) - 1 /\ Len(tick.batch) \in Nat /\ Len(tick.batch) > 0
      /\ \A i \in 1..Len(rest) : rest[i] = tick.batch[i + 1]
  BY <1>1, HeadTailProperties, LenProperties, EmptySeq
<1>3. booked' = booked + 1 /\ tick' = [at |-> "mark", batch |-> rest]
      /\ UNCHANGED <<store, watched, request, pins, passed, played>>
  BY DEF Book
<1> HIDE DEF rest
<1>4. booked' \in 0..LastMinute /\ booked' > 0
  BY <1>1, <1>2, <1>3, CandleAssumption DEF BatchInv
<1>5. tick' \in TickType
  BY <1>2, <1>3 DEF TickType
<1>6. BatchInv'
  <2>1. booked' + Len(tick'.batch) <= LastMinute
    BY <1>1, <1>2, <1>3, CandleAssumption DEF BatchInv
  <2>2. ASSUME NEW i \in 1..Len(rest)
        PROVE  pins[booked + 1 + i].state # "none" /\ pins[booked + 1 + i].revision = rest[i]
    <3>1. Len(rest) = Len(tick.batch) - 1 /\ Len(tick.batch) \in Nat /\ booked \in Nat
      BY <1>1, <1>2
    <3>2. i + 1 \in 1..Len(tick.batch) /\ booked + (i + 1) = booked + 1 + i
      BY <3>1
    <3> QED
      BY <3>2, <1>2 DEF BatchInv
  <2> QED
    BY <1>3, <1>4, <2>1, <2>2 DEF BatchInv
<1> QED
  BY <1>3, <1>4, <1>5, <1>6 DEF StoreTypes, ContourTypes, CoreTypes, RowsHold, PinsInv, FenceInv, store

LEMMA CandleInductive == CandleIInv /\ [CandleNext]_candleVars => CandleIInv'
<1> SUFFICES ASSUME CandleIInv, [CandleNext]_candleVars PROVE CandleIInv'
  OBVIOUS
<1>1. CASE UNCHANGED candleVars
  BY <1>1 DEF candleVars, CandleIInv, StoreTypes, ContourTypes, CoreTypes, RowsHold, BatchInv, PinsInv, FenceInv
<1>2. CASE AskConflicts \/ AskRecent
  BY <1>2, AskStep DEF AskConflicts, AskRecent, Recent, CandleIInv, CoreTypes
<1>3. CASE Answers
  BY <1>3, AnswerStep DEF Answers
<1> QED
  BY <1>1, <1>2, <1>3, ObserveStep, CoreStep, ResumeStep, PinStep, SimulateStep, BookStep, MarkStep, CrashStep DEF CandleNext

-----------------------------------------------------------------------------
\* The invariant holds in every reachable state.
THEOREM CandleSpecIInv == CandleSpec => []CandleIInv
BY CandleInitIInv, CandleInductive, PTL DEF CandleSpec

LEMMA CandleTyped == CandleIInv => CandleTypeOK
<1> SUFFICES ASSUME CandleIInv PROVE CandleTypeOK
  OBVIOUS
<1> USE DEF CandleIInv
<1>1. ASSUME NEW m \in Minutes
      PROVE  /\ versions[m] \in Seq(Signature)
             /\ {current[m], facts[m].revision, facts[m].conflict, pins[m].revision} \subseteq 0..Len(versions[m])
             /\ played[m] \subseteq 1..Len(versions[m])
  <2>1. versions[m] \in Seq(Signature) /\ Len(versions[m]) \in Nat
    BY LenProperties DEF StoreTypes
  <2>2. current[m] \in Nat /\ facts[m].revision \in Nat /\ facts[m].conflict \in Nat /\ pins[m].revision \in Nat
    BY DEF StoreTypes, ContourTypes, FactsType, PinType
  <2>3. \A r \in played[m] : r = pins[m].revision /\ r > 0
    BY DEF PinsInv
  <2> QED
    BY <2>1, <2>2, <2>3 DEF RowsHold
<1> QED
  BY <1>1 DEF CandleTypeOK, ContourTypes, CoreTypes, TickType

\* The revisions that are current, in conflict or pinned are rows of the store.
THEOREM CandleTypeCorrect == CandleSpec => []CandleTypeOK
<1>1. CandleIInv => CandleTypeOK
  BY CandleTyped
<1> QED
  BY <1>1, CandleSpecIInv, PTL

\* A minute is only ever simulated with one revision of its candle, for any
\* number of corrections, restarts and replays.
THEOREM OneVersionAlways == CandleSpec => []OneVersionPlayed
<1>1. CandleIInv => OneVersionPlayed
  BY DEF CandleIInv, PinsInv, OneVersionPlayed
<1> QED
  BY <1>1, CandleSpecIInv, PTL

\* A published candle is replaced only by the answer to a request during which
\* no different answer arrived.
THEOREM FreshAnswerAlways == CandleSpec => FreshAnswerWins
<1>1. ASSUME CandleIInv, CandleNext, NEW m \in Minutes, current[m] \notin {0, current'[m]}
      PROVE  request # Nobody /\ request.minute = m /\ ~request.missed
  <2> USE DEF CandleIInv
  <2>1. facts[m].sequence \in Nat
    BY <1>1 DEF StoreTypes, FactsType
  <2>2. ASSUME NEW k \in Minutes, NEW sig \in Signature, Observe(k, sig) PROVE FALSE
    <3>1. Stored(k, sig, Nobody)
      BY <1>1, <2>2, AcceptStored DEF Observe, CoreTypes
    <3>2. Nobody = facts[m].sequence
      BY <1>1, <3>1 DEF Stored
    <3> QED
      BY <2>1, <3>2, CandleAssumption
  <2>3. ASSUME NEW sig \in Signature, Answer(sig)
        PROVE  request # Nobody /\ request.minute = m /\ ~request.missed
    <3>1. request \in Fetch /\ request.minute \in Minutes /\ request # Nobody
      BY <1>1, <2>3 DEF Answer, CoreTypes, Fetch, Minutes
    <3>2. Stored(request.minute, sig, request.fence)
      BY <1>1, <2>3, <3>1, AcceptStored DEF Answer, CoreTypes
    <3>3. m = request.minute /\ request.fence = facts[m].sequence
      BY <1>1, <3>2 DEF Stored
    <3> QED
      BY <1>1, <2>1, <3>1, <3>3 DEF FenceInv
  <2>4. ASSUME UNCHANGED store PROVE FALSE
    BY <1>1, <2>4 DEF store
  <2> QED
    BY <1>1, <2>2, <2>3, <2>4 DEF CandleNext, AskConflicts, AskRecent, Ask, Answers, Refused, CoreStarts,
       ResumeMarker, Pin, Simulate, Book, MarkProcessed, ContourCrashes
<1>2. CandleIInv /\ [CandleNext]_candleVars
        => [\A m \in Minutes : current[m] \notin {0, current'[m]} =>
              request # Nobody /\ request.minute = m /\ ~request.missed]_candleVars
  BY <1>1
<1> QED
  BY <1>2, CandleSpecIInv, PTL DEF CandleSpec, FreshAnswerWins

-----------------------------------------------------------------------------
(* The types of the four modules, with the bounds of their counters.           *)

\* What the contour has of the minutes, and where it is.
PassTypes ==
    /\ copy \subseteq candles /\ checks \in [Opens -> 0..Rechecks + 1]
    /\ pass \in [at : {"idle", "framed", "allowed"}, frame : SUBSET Opens, allowed : SUBSET Opens]
    /\ pass.at = "allowed" => pass.allowed # {}
    /\ bar \in 0..LastOpen /\ skipped \subseteq Opens /\ aged \in 0..LastOpen
GapTypesInv == GapInv /\ PassTypes

LEMMA GapTypesInit == GapInit => GapTypesInv
<1> SUFFICES ASSUME GapInit PROVE GapTypesInv
  OBVIOUS
<1>1. GapInv
  BY GapInvInit
<1>2. PassTypes
  BY GapAssumption DEF GapInit, PassTypes, NoPass
<1> QED
  BY <1>1, <1>2 DEF GapTypesInv

LEMMA GapTypesStep == GapTypesInv /\ [GapNext]_gapVars => GapTypesInv'
<1> SUFFICES ASSUME GapTypesInv, [GapNext]_gapVars PROVE GapTypesInv'
  OBVIOUS
<1> USE DEF GapTypesInv
<1>1. GapInv'
  BY GapInvStep
<1>2. LastOpen \in Nat /\ Rechecks \in Nat
  BY GapAssumption
<1>3. CASE UNCHANGED <<copy, candles, checks, pass, bar, skipped, aged>>
  BY <1>1, <1>3 DEF PassTypes
<1>4. CASE \E m \in Opens : Receive(m)
  BY <1>1, <1>4 DEF Receive, PassTypes, lanes, execution
<1>5. CASE CheckEmpty
  <2>1. complete.minute \in Opens
    BY <1>5 DEF CheckEmpty, GapInv, LaneTypes
  <2>2. PICK n : n = complete.minute
    OBVIOUS
  <2>3. checks' = [checks EXCEPT ![n] = IF LastCheck(@) THEN @ ELSE @ + 1]
    BY <1>5, <2>2 DEF CheckEmpty
  <2>4. checks[n] \in 0..Rechecks + 1 /\ (~LastCheck(checks[n]) => checks[n] + 1 \in 0..Rechecks + 1)
    BY <1>2, <2>1, <2>2 DEF PassTypes, LastCheck
  <2>5. checks' \in [Opens -> 0..Rechecks + 1]
    BY <2>1, <2>2, <2>3, <2>4 DEF PassTypes
  <2> QED
    BY <1>1, <1>5, <2>5 DEF CheckEmpty, PassTypes, execution
<1>6. CASE Age
  BY <1>1, <1>2, <1>6 DEF Age, PassTypes, coverage, lanes, execution
<1>7. CASE FeedApplies
  BY <1>1, <1>7 DEF FeedApplies, PassTypes, coverage, lanes
<1>8. CASE TakeFrame
  <2>1. copy \subseteq Opens
    BY DEF PassTypes, GapInv, LaneTypes
  <2> QED
    BY <1>1, <1>8, <2>1 DEF TakeFrame, PassTypes, NoPass, coverage, lanes
<1>9. CASE KeepContiguous
  <2>1. Allowed \subseteq Opens
    BY DEF Allowed, PassTypes
  <2>2. pass' = IF Allowed = {} THEN NoPass ELSE [pass EXCEPT !.at = "allowed", !.allowed = Allowed]
    BY <1>9 DEF KeepContiguous
  <2>3. /\ pass' \in [at : {"idle", "framed", "allowed"}, frame : SUBSET Opens, allowed : SUBSET Opens]
        /\ pass'.at = "allowed" => pass'.allowed # {}
    BY <2>1, <2>2 DEF PassTypes, NoPass
  <2> QED
    BY <1>1, <1>9, <2>3 DEF KeepContiguous, PassTypes, coverage, lanes
<1>10. CASE Execute
  <2>1. pass.allowed \subseteq 1..LastOpen /\ pass.allowed # {}
    BY <1>10 DEF Execute, PassTypes, Opens
  <2>2. PICK m : m = CHOOSE i \in pass.allowed : \A j \in pass.allowed : j <= i
    OBVIOUS
  <2>3. m \in pass.allowed
    BY <1>2, <2>1, <2>2, LargestExists
  <2>4. bar' = m /\ m \in 0..LastOpen
    BY <1>2, <1>10, <2>1, <2>2, <2>3 DEF Execute
  <2>5. skipped' \subseteq Opens
    BY <1>10 DEF Execute, PassTypes, AbsentBetween
  <2> QED
    BY <1>1, <1>10, <2>4, <2>5 DEF Execute, PassTypes, NoPass, coverage, lanes
<1> QED
  BY <1>3, <1>4, <1>5, <1>6, <1>7, <1>8, <1>9, <1>10
     DEF GapNext, gapVars, Scan, FindClosed, AskTrades, CheckHole, WriteClosed, TradesAnswer, ConfirmNoTrade,
         CheckFails, CheckFull, SourceAbsent, LanesStart, coverage, lanes, execution

LEMMA GapTyped == GapTypesInv => GapTypeOK
BY DEF GapTypesInv, GapInv, LaneTypes, PassTypes, GapTypeOK, States

\* No producer, position or copy of the feed is beyond the bounds.
BoundsInv ==
    /\ spent \in 0..MaxTroubles /\ db.producer <= 1 + spent
    /\ Len(db.feed) <= MaxFeed
    /\ ack.producer <= db.producer /\ ack.through <= Len(db.feed)
    /\ \A p \in Traded : cache[p].copy # Nothing => cache[p].copy.at <= MaxFeed
    /\ reader.at = "bound" => reader.frame.copy.at <= MaxFeed
    /\ reader.at = "apply" => \A c \in reader.page.changes : c.id <= MaxFeed
FeedTypesInv == FeedIInv /\ BoundsInv

LEMMA FeedTypesInit == FeedInit => FeedTypesInv
<1> SUFFICES ASSUME FeedInit PROVE FeedTypesInv
  OBVIOUS
<1>1. FeedIInv
  BY FeedInitIInv
<1>2. Len(<<>>) = 0 /\ MaxFeed \in Nat /\ MaxTroubles \in Nat
  BY FeedAssumption
<1>3. BoundsInv
  BY <1>2 DEF FeedInit, BoundsInv, FreshDb, NoAck, Unbound, NoReader
<1> QED
  BY <1>1, <1>3 DEF FeedTypesInv

LEMMA BoundsStep == FeedTypesInv /\ [FeedNext]_feedVars => BoundsInv'
<1> SUFFICES ASSUME FeedTypesInv, [FeedNext]_feedVars PROVE BoundsInv'
  OBVIOUS
<1> USE DEF FeedTypesInv
<1>0. MaxFeed \in Nat /\ MaxTroubles \in Nat /\ db.producer \in Nat /\ spent \in Nat
  BY FeedAssumption DEF FeedIInv, DbTypes, BoundsInv
<1>1. Len(db.feed) \in Nat /\ db.feed \in Seq(Entry)
  BY LenProperties DEF FeedIInv, DbTypes
<1>2. Edge = Len(db.feed)
  BY EdgeIsLength DEF FeedIInv
<1>3. CASE UNCHANGED <<db, ack, cache, spent>> /\ reader'.at \notin {"bound", "apply"}
  BY <1>3 DEF BoundsInv
<1>4. CASE UNCHANGED feedVars
  BY <1>4 DEF BoundsInv, feedVars
<1>5. ASSUME NEW p \in Pairs, NEW k \in {"candle", "absent"}, Publish(p, k) PROVE BoundsInv'
  <2>1. PICK e : e = [pair |-> p, kind |-> k]
    OBVIOUS
  <2>2. db' = [db EXCEPT !.feed = Append(@, e)] /\ Len(db.feed) < MaxFeed
    BY <1>5, <2>1 DEF Publish
  <2>3. db' = [producer |-> db.producer, feed |-> Append(db.feed, e), pruned |-> db.pruned]
    BY <2>2 DEF FeedIInv, DbTypes
  <2>4. e \in Entry
    BY <2>1 DEF Entry
  <2>5. Len(Append(db.feed, e)) = Len(db.feed) + 1
    BY <1>1, <2>4, AppendProperties
  <2>6. Len(db'.feed) = Len(db.feed) + 1 /\ db'.producer = db.producer
    BY <2>3, <2>5
  <2>7. ack \in [producer : Nat, through : Nat]
    BY DEF FeedIInv, DbTypes
  <2> QED
    BY <1>0, <1>1, <1>5, <2>2, <2>6, <2>7 DEF Publish, BoundsInv
<1>6. CASE Prune
  <2>1. db'.producer = db.producer /\ db'.feed = db.feed
    BY <1>6 DEF Prune, FeedIInv, DbTypes
  <2> QED
    BY <1>6, <2>1 DEF Prune, BoundsInv
<1>7. CASE Replace
  <2>1. db'.producer = db.producer + 1 /\ db'.feed = <<>> /\ ack'.producer = 0 /\ ack'.through = 0 /\ spent' = spent + 1
    BY <1>7 DEF Replace, FreshDb, NoAck
  <2>2. Len(db'.feed) = 0
    BY <2>1
  <2> QED
    BY <1>0, <1>7, <2>1, <2>2 DEF Replace, BoundsInv
<1>8. CASE Acknowledge
  <2>1. ack' = [producer |-> db.producer, through |-> Max2(ack.through, applied.upTo)] /\ applied.upTo <= Len(db.feed)
    BY <1>2, <1>8 DEF Acknowledge
  <2>2. ack.through \in Nat /\ applied.upTo \in Nat
    BY DEF FeedIInv, DbTypes, ReaderTypes
  <2>3. ack'.through <= Len(db.feed) /\ ack'.producer = db.producer
    BY <1>1, <2>1, <2>2 DEF Max2, BoundsInv
  <2> QED
    BY <1>0, <1>8, <2>3 DEF Acknowledge, BoundsInv
<1>9. CASE Readiness \/ \E p \in Traded : Want(p)
  BY <1>9 DEF Readiness, Want, BoundsInv
<1>10. ASSUME UNCHANGED <<db, ack, spent>>, reader'.at \notin {"bound", "apply"},
              \A p \in Traded : cache'[p].copy \in {cache[p].copy, Nothing}
       PROVE  BoundsInv'
  BY <1>10 DEF BoundsInv
<1>11. CASE PollStarts
  <2>1. cache' = [p \in Traded |-> IF p \in ready THEN cache[p] ELSE Unbound] /\ reader'.at = "bind"
    BY <1>11 DEF PollStarts, FeedIInv, ReaderTypes, ReaderType
  <2>2. \A p \in Traded : cache'[p].copy \in {cache[p].copy, Nothing}
    BY <2>1 DEF Unbound
  <2> QED
    BY <1>10, <1>11, <2>1, <2>2 DEF PollStarts
<1>12. CASE RebuildDrops
  <2>1. cache' = [p \in Traded |-> Unbound] /\ reader'.at = "edge"
    BY <1>12 DEF RebuildDrops, FeedIInv, ReaderTypes, ReaderType
  <2> QED
    BY <1>10, <1>12, <2>1 DEF RebuildDrops, Unbound
<1>13. CASE ContourDies
  BY <1>0, <1>13 DEF ContourDies, BoundsInv, Unbound, NoReader
<1>14. CASE ReaderFails
  <2>1. reader'.at = "idle"
    BY <1>14 DEF ReaderFails, FeedIInv, ReaderTypes, ReaderType
  <2> QED
    BY <1>0, <1>14, <2>1 DEF ReaderFails, BoundsInv
<1>15. CASE BindFrame
  <2>1. PICK p \in reader.todo :
          reader' = [reader EXCEPT !.at = "bound", !.todo = @ \ {p},
                        !.frame = [pair |-> p, copy |-> [source |-> db.producer, at |-> Newest(p)]]]
    BY <1>15 DEF BindFrame
  <2>2. PICK n : n = Newest(p)
    OBVIOUS
  <2>3. n \in Nat /\ n <= Len(db.feed)
    <3>1. Newest(p) \in Nat /\ (Newest(p) = 0 \/ IsCandle(p, Newest(p)))
      BY <1>1, NewestCandle
    <3> QED
      BY <1>1, <2>2, <3>1 DEF IsCandle
  <2>4. reader'.at = "bound" /\ reader'.frame.copy.at = n
    BY <2>1, <2>2 DEF FeedIInv, ReaderTypes, ReaderType
  <2> QED
    BY <1>0, <1>1, <1>15, <2>3, <2>4 DEF BindFrame, BoundsInv
<1>16. CASE Bind
  <2>1. PICK p : p = reader.frame.pair
    OBVIOUS
  <2>2. reader.at = "bound" /\ reader.frame.copy.at <= MaxFeed
    BY <1>16 DEF Bind, BoundsInv
  <2>3. PICK row : row = [copy |-> reader.frame.copy, floor |-> Max2(reader.floor, cache[p].floor), absent |-> AbsentNow(p)]
    OBVIOUS
  <2>4. cache' = [cache EXCEPT ![p] = row] /\ row.copy = reader.frame.copy
    BY <1>16, <2>1, <2>3 DEF Bind
  <2>5. cache \in [Traded -> RowType]
    BY DEF FeedIInv, ReaderTypes
  <2>6. \A q \in Traded : cache'[q] = IF q = p THEN row ELSE cache[q]
    BY <2>4, <2>5
  <2>7. reader'.at = "bind"
    BY <1>16 DEF Bind, FeedIInv, ReaderTypes, ReaderType
  <2>8. \A q \in Traded : cache'[q].copy # Nothing => cache'[q].copy.at <= MaxFeed
    BY <2>2, <2>4, <2>6 DEF BoundsInv
  <2> QED
    BY <1>16, <2>7, <2>8 DEF Bind, BoundsInv
<1>17. CASE PageSelects
  <2>1. PICK page : page = PageAfter(reader.cursor)
    OBVIOUS
  <2>2. reader.cursor \in Nat /\ db.pruned <= reader.cursor /\ reader.cursor <= Len(db.feed)
    BY <1>17 DEF PageSelects, FeedIInv, SelectInv, CopyInv, ReaderTypes, ReaderType
  <2>3. page \in PageType /\ page.next <= Len(db.feed) /\ \A c \in page.changes : c.id <= page.next
    BY <2>1, <2>2, PageIsWhole DEF FeedIInv
  <2>4. reader'.at = "apply" /\ reader'.page = page
    BY <1>17, <2>1 DEF PageSelects, FeedIInv, ReaderTypes, ReaderType
  <2>5. page.next \in Nat /\ \A c \in page.changes : c.id \in Nat
    BY <2>3 DEF PageType, ChangeType
  <2>6. \A c \in page.changes : c.id <= MaxFeed
    BY <1>0, <1>1, <2>3, <2>5 DEF BoundsInv
  <2> QED
    BY <1>17, <2>4, <2>6 DEF PageSelects, BoundsInv
<1>18. CASE PageApplies
  <2>1. reader.at = "apply" /\ cache' = [p \in Traded |-> Applied(p)]
    BY <1>18 DEF PageApplies
  <2>2. ASSUME NEW p \in Traded, Applied(p).copy # Nothing PROVE Applied(p).copy.at <= MaxFeed
    <3>1. CASE cache[p].copy = Nothing
      BY <2>2, <3>1 DEF Applied
    <3>2. CASE cache[p].copy # Nothing /\ Fresh(p, "candle") = {}
      <4>1. Applied(p) = [cache[p] EXCEPT !.absent = @ \/ Fresh(p, "absent") # {}]
        BY <3>2 DEF Applied
      <4>2. cache[p] \in RowType
        BY DEF FeedIInv, ReaderTypes
      <4>3. Applied(p).copy = cache[p].copy
        BY <4>1, <4>2 DEF RowType
      <4> QED
        BY <3>2, <4>3 DEF BoundsInv
    <3>3. CASE cache[p].copy # Nothing /\ Fresh(p, "candle") # {}
      <4>1. PICK last : last = CHOOSE i \in Fresh(p, "candle") : \A j \in Fresh(p, "candle") : j <= i
        OBVIOUS
      <4>2. \A i \in Fresh(p, "candle") : i \in Nat /\ 1 <= i /\ i <= MaxFeed
        <5>1. \A c \in reader.page.changes : c.id \in Nat /\ reader.cursor < c.id /\ c.id <= MaxFeed
          BY <2>1 DEF BoundsInv, FeedIInv, PageInv, ReaderTypes, ReaderType, PageType, ChangeType
        <5>2. reader.cursor \in Nat
          BY DEF FeedIInv, ReaderTypes, ReaderType
        <5> QED
          BY <1>0, <5>1, <5>2 DEF Fresh
      <4>3. Fresh(p, "candle") \subseteq 1..MaxFeed
        BY <1>0, <4>2
      <4>4. last \in Fresh(p, "candle")
        BY <1>0, <3>3, <4>1, <4>3, ChosenLargest
      <4>5. Applied(p) = [cache[p] EXCEPT !.copy = [source |-> reader.producer, at |-> last], !.absent = FALSE]
        BY <3>3, <4>1 DEF Applied
      <4>6. cache[p] \in RowType
        BY DEF FeedIInv, ReaderTypes
      <4>7. Applied(p).copy.at = last
        BY <4>5, <4>6 DEF RowType
      <4> QED
        BY <4>2, <4>4, <4>7
    <3> QED
      BY <3>1, <3>2, <3>3
  <2>3. \A p \in Traded : cache'[p].copy # Nothing => cache'[p].copy.at <= MaxFeed
    BY <2>1, <2>2
  <2>4. reader'.at \in {"bind", "caught"}
    BY <1>18 DEF PageApplies, FeedIInv, ReaderTypes, ReaderType
  <2> QED
    BY <1>18, <2>3, <2>4 DEF PageApplies, BoundsInv
<1>19. CASE ContourStarts \/ ReaderOpens \/ BindEdge \/ PageChecks \/ Caught \/ RebuildReads
  <2>1. reader'.at \in {"open", "idle", "frame", "select", "rebuild"}
    BY <1>19 DEF ContourStarts, ReaderOpens, BindEdge, PageChecks, Caught, RebuildReads, NoReader,
                 FeedIInv, ReaderTypes, ReaderType
  <2> QED
    BY <1>3, <1>19, <2>1 DEF ContourStarts, ReaderOpens, BindEdge, PageChecks, Caught, RebuildReads
<1> QED
  BY <1>4, <1>5, <1>6, <1>7, <1>8, <1>9, <1>11, <1>12, <1>13, <1>14, <1>15, <1>16, <1>17, <1>18, <1>19
     DEF FeedNext, ReaderStep

LEMMA FeedTypesStep == FeedTypesInv /\ [FeedNext]_feedVars => FeedTypesInv'
BY FeedInductive, BoundsStep DEF FeedTypesInv

LEMMA FeedTyped == FeedTypesInv => FeedTypeOK
<1> SUFFICES ASSUME FeedTypesInv PROVE FeedTypeOK
  OBVIOUS
<1> USE DEF FeedTypesInv
<1>1. MaxFeed \in Nat /\ MaxTroubles \in Nat
  BY FeedAssumption
<1>2. Len(db.feed) \in Nat
  BY LenProperties DEF FeedIInv, DbTypes
<1>3. db \in [producer : 1..(1 + MaxTroubles), feed : Seq(Entry), pruned : 0..MaxFeed]
  BY <1>1, <1>2 DEF BoundsInv, FeedIInv, DbTypes
<1>4. ack \in [producer : 0..(1 + MaxTroubles), through : 0..MaxFeed]
  BY <1>1, <1>2 DEF BoundsInv, FeedIInv, DbTypes
<1>5. ASSUME NEW p \in Traded, cache[p].copy # Nothing
      PROVE  cache[p].copy \in [source : 1..(1 + MaxTroubles), at : 0..MaxFeed]
  <2>1. cache[p].copy \in CopyType /\ cache[p].copy.source <= db.producer /\ cache[p].copy.at <= MaxFeed
    BY <1>5 DEF FeedIInv, ReaderTypes, RowType, SourcesInv, BoundsInv
  <2> QED
    BY <1>1, <2>1 DEF CopyType, BoundsInv, FeedIInv, DbTypes
<1> QED
  BY <1>3, <1>4, <1>5 DEF FeedTypeOK, FeedIInv, ReaderTypes, ReaderType, Places

\* The variables of the four modules keep their types and their bounds, in every
\* run of the market data side.
THEOREM DataTypesAlways == Spec => []DataTypes
<1> DEFINE Inv == FeedTypesInv /\ CandleIInv /\ GapTypesInv /\ StreamInv
<1>1. Init => Inv
  BY FeedTypesInit, CandleInitIInv, GapTypesInit, StreamInvInit DEF Init
<1>2. Inv /\ [Next]_vars => Inv'
  <2> SUFFICES ASSUME Inv, [Next]_vars PROVE Inv'
    OBVIOUS
  <2>1. [FeedNext]_feedVars /\ [CandleNext]_candleVars /\ [GapNext]_gapVars /\ [StreamNext]_streamVars
    BY DEF Next, vars
  <2> QED
    BY <2>1, FeedTypesStep, CandleInductive, GapTypesStep, StreamInvNext
<1>3. Inv => DataTypes
  BY FeedTyped, CandleTyped, GapTyped, StreamTyped DEF DataTypes
<1> QED
  BY <1>1, <1>2, <1>3, PTL DEF Spec
=============================================================================
