----------------------------- MODULE MarketFeed -----------------------------
(* The market database's feed of changes, its retention, and the cache that a  *)
(* contour's process keeps of it: data/market_store.py (changes, checkpoints,  *)
(* readiness), data/follower.py, assembly/feed.py, data/lanes.py               *)
(* (ChangesRetentionLane).                                                     *)
(*                                                                             *)
(* A pair stands for one minute of it: its candle's versions are positions of  *)
(* the feed. The core, the retention lane, the contour's tick and its reader   *)
(* thread interleave between any two calls of the store. Which pairs the core  *)
(* serves is PairDemand's subject and free here.                               *)
EXTENDS Naturals, Sequences, FiniteSets

CONSTANTS
    Pairs,          \* pairs of an instrument and a timeframe
    Traded,         \* those this contour may ask for
    Nothing,        \* no row, no copy
    FeedPage,       \* FEED_PAGE
    MaxFeed,        \* bound: changes of one producer
    MaxTroubles     \* bound: databases put under the processes' feet, deaths of
                    \* the contour and failed reads, in all

ASSUME FeedAssumption ==
    /\ Traded \subseteq Pairs
    /\ FeedPage \in Nat \ {0}
    /\ {MaxFeed, MaxTroubles} \subseteq Nat
    /\ Nothing \notin [source : Nat, at : Nat]

VARIABLES
    db,      \* the producer, its feed, the retained edge
    ready,   \* pair_readiness: the pairs the core serves
    ack,     \* consumer_checkpoints: the contour's confirmed position
    wanted,  \* the cache's _wanted
    cache,   \* per pair: the copy, its floor, whether its absence is known
    reader,  \* FeedReader: step, producer, cursor, page, bindings to do
    applied, \* FeedReader._applied, and which database it was counted in
    spent    \* troubles so far

feedVars == <<db, ready, ack, wanted, cache, reader, applied, spent>>

Max2(a, b) == IF a >= b THEN a ELSE b
Min2(a, b) == IF a <= b THEN a ELSE b
-----------------------------------------------------------------------------
(* The store.                                                                  *)

Entry == [pair : Pairs, kind : {"candle", "absent"}]
Candles(p) == {i \in 1..Len(db.feed) : db.feed[i] = [pair |-> p, kind |-> "candle"]}
Newest(p) == IF Candles(p) = {} THEN 0 ELSE CHOOSE i \in Candles(p) : \A j \in Candles(p) : j <= i
AbsentNow(p) == Candles(p) = {} /\ \E i \in 1..Len(db.feed) : db.feed[i].pair = p

(* source_info(): a feed pruned whole keeps its maximum.                       *)
Edge == Max2(IF Len(db.feed) > db.pruned THEN Len(db.feed) ELSE 0, db.pruned)

FreshDb(n) == [producer |-> n, feed |-> <<>>, pruned |-> 0]
NoAck == [producer |-> 0, through |-> 0]
NoPage == [changes |-> {}, next |-> 0, more |-> FALSE]
NoReader == [at |-> "off", producer |-> 0, cursor |-> 0, todo |-> {}, floor |-> 0,
             frame |-> Nothing, page |-> NoPage]
Unbound == [copy |-> Nothing, floor |-> 0, absent |-> FALSE]

FeedInit ==
    /\ db = FreshDb(1)
    /\ ready = {} /\ ack = NoAck /\ wanted = {}
    /\ cache = [p \in Traded |-> Unbound]
    /\ reader = NoReader
    /\ applied = [source |-> 1, upTo |-> 0]
    /\ spent = 0

(* A completed candle, new or corrected, or an interval proved absent at the   *)
(* source; a received interval is never absent again.                          *)
Publish(p, kind) ==
    /\ Len(db.feed) < MaxFeed
    /\ kind = "absent" => p \in Traded /\ Candles(p) = {} /\ ~AbsentNow(p)
    /\ db' = [db EXCEPT !.feed = Append(@, [pair |-> p, kind |-> kind])]
    /\ UNCHANGED <<ready, ack, wanted, cache, reader, applied, spent>>

(* A step of the retention lane deletes a prefix of rows past the term, never  *)
(* past the checkpoint of a consumer of this producer.                         *)
PruneBound == IF ack.producer = db.producer THEN ack.through ELSE Len(db.feed)
Prune ==
    \E last \in (db.pruned + 1)..Len(db.feed) :
       /\ last <= PruneBound
       \* environment: a term of days does not end inside one changes_after
       /\ reader.at = "select" => last <= reader.cursor
       /\ db' = [db EXCEPT !.pruned = last]
       /\ UNCHANGED <<ready, ack, wanted, cache, reader, applied, spent>>

(* Another database is put in place of this one while the core is down: its    *)
(* tables are empty, a running contour keeps its memory.                       *)
Replace ==
    /\ spent < MaxTroubles /\ spent' = spent + 1
    /\ reader.at # "select"
    /\ db' = FreshDb(db.producer + 1)
    /\ ready' = {} /\ ack' = NoAck
    /\ UNCHANGED <<wanted, cache, reader, applied>>

(* The core publishes a pair's readiness, drops a pair, or starts again: then  *)
(* nothing is ready.                                                           *)
Readiness == \E p \in Traded, s \in BOOLEAN :
    /\ ready' = IF p \in ready THEN (IF s THEN {} ELSE ready \ {p}) ELSE ready \cup {p}
    /\ UNCHANGED <<db, ack, wanted, cache, reader, applied, spent>>
-----------------------------------------------------------------------------
(* The contour: its tick and its reader.                                       *)

Alive == reader.at # "off"

(* serve(): what the contour trades is wanted, then the reader opens.          *)
ContourStarts == \E first \in SUBSET Traded :
    /\ ~Alive
    /\ wanted' = first
    /\ reader' = [NoReader EXCEPT !.at = "open"]
    /\ UNCHANGED <<db, ready, ack, cache, applied, spent>>

(* _open(): the confirmed position if the feed still has it, else the edge.    *)
ReaderOpens ==
    LET kept == ack.producer = db.producer /\ ack.through >= db.pruned
        cursor == IF kept THEN Min2(ack.through, Edge) ELSE Edge
    IN /\ reader.at = "open"
       /\ reader' = [reader EXCEPT !.at = "idle", !.producer = db.producer, !.cursor = cursor]
       /\ applied' = [source |-> db.producer, upTo |-> cursor]
       /\ UNCHANGED <<db, ready, ack, wanted, cache, spent>>

(* A frame of a pair that is not bound is asked for (frame_for).               *)
Want(p) ==
    /\ Alive /\ reader.at # "open" /\ p \notin wanted
    /\ wanted' = wanted \cup {p}
    /\ UNCHANGED <<db, ready, ack, cache, reader, applied, spent>>

(* acknowledge() after a tick sends the applied position with the reader's     *)
(* producer; a foreign producer or a position outside the feed only warns.     *)
Acknowledge ==
    /\ Alive /\ reader.at # "open" /\ applied.upTo > 0
    /\ reader.producer = db.producer /\ applied.upTo <= Edge
    /\ ack' = [producer |-> db.producer, through |-> Max2(ack.through, applied.upTo)]
    /\ UNCHANGED <<db, ready, wanted, cache, reader, applied, spent>>

(* apply_readiness(): pairs the core has dropped are dropped, wanted pairs     *)
(* that it serves are to be bound.                                             *)
PollStarts ==
    /\ reader.at = "idle"
    /\ cache' = [p \in Traded |-> IF p \in ready THEN cache[p] ELSE Unbound]
    /\ reader' = [reader EXCEPT !.at = "bind",
                     !.todo = {p \in wanted \cap ready : cache[p].copy = Nothing}]
    /\ UNCHANGED <<db, ready, ack, wanted, applied, spent>>

(* A binding reads the feed's edge, then the frame, then the absent minutes.   *)
BindEdge ==
    /\ reader.at = "bind" /\ reader.todo # {}
    /\ reader' = [reader EXCEPT !.at = "frame", !.floor = Edge]
    /\ UNCHANGED <<db, ready, ack, wanted, cache, applied, spent>>

BindFrame == \E p \in reader.todo :
    /\ reader.at = "frame"
    /\ reader' = [reader EXCEPT !.at = "bound", !.todo = @ \ {p},
                     !.frame = [pair |-> p, copy |-> [source |-> db.producer, at |-> Newest(p)]]]
    /\ UNCHANGED <<db, ready, ack, wanted, cache, applied, spent>>

Bind ==
    LET p == reader.frame.pair
    IN /\ reader.at = "bound"
       /\ cache' = [cache EXCEPT ![p] = [copy |-> reader.frame.copy, floor |-> Max2(reader.floor, @.floor),
                                         absent |-> AbsentNow(p)]]
       /\ reader' = [reader EXCEPT !.at = "bind", !.frame = Nothing, !.floor = 0]
       /\ UNCHANGED <<db, ready, ack, wanted, applied, spent>>

(* changes_after(): the producer and the retained edge in one read ...         *)
ReadableUnpruned == reader.producer = db.producer \* what if the edge were not checked
Readable == reader.producer = db.producer /\ reader.cursor >= db.pruned

PageChecks ==
    /\ reader.at = "bind" /\ reader.todo = {}
    /\ reader' = [reader EXCEPT !.at = IF Readable THEN "select" ELSE "rebuild"]
    /\ UNCHANGED <<db, ready, ack, wanted, cache, applied, spent>>

(* ... and the rows in the next one.                                           *)
PageAfter(n) ==
    LET left == {i \in 1..Len(db.feed) : i > n /\ i > db.pruned}
        got == {i \in left : Cardinality({j \in left : j <= i}) <= FeedPage}
    IN [changes |-> {[id |-> i, pair |-> db.feed[i].pair, kind |-> db.feed[i].kind] : i \in got},
        next |-> IF got = {} THEN n ELSE CHOOSE i \in got : \A j \in got : j <= i,
        more |-> left # got]

PageSelects ==
    /\ reader.at = "select"
    /\ reader' = [reader EXCEPT !.at = "apply", !.page = PageAfter(reader.cursor)]
    /\ UNCHANGED <<db, ready, ack, wanted, cache, applied, spent>>

(* apply_changes(): changes up to the pair's floor are in its frame already;   *)
(* the page's last candle stays and ends a known absence.                      *)
Fresh(p, kind) == {c.id : c \in {d \in reader.page.changes :
                      d.pair = p /\ d.kind = kind /\ d.id > cache[p].floor}}
Applied(p) ==
    LET candles == Fresh(p, "candle")
    IN IF cache[p].copy = Nothing THEN cache[p]
       ELSE IF candles = {} THEN [cache[p] EXCEPT !.absent = @ \/ Fresh(p, "absent") # {}]
       ELSE [cache[p] EXCEPT
               !.copy = [source |-> reader.producer, at |-> CHOOSE i \in candles : \A j \in candles : j <= i],
               !.absent = FALSE]
PageApplies ==
    /\ reader.at = "apply"
    /\ cache' = [p \in Traded |-> Applied(p)]
    /\ reader' = [reader EXCEPT !.cursor = reader.page.next, !.page = NoPage,
                     !.at = IF reader.page.more THEN "bind" ELSE "caught"]
    /\ UNCHANGED <<db, ready, ack, wanted, applied, spent>>

(* The feed's end is reached: only now the position counts as applied.         *)
Caught ==
    /\ reader.at = "caught"
    /\ applied' = [source |-> reader.producer, upTo |-> reader.cursor]
    /\ reader' = [reader EXCEPT !.at = "idle"]
    /\ UNCHANGED <<db, ready, ack, wanted, cache, spent>>

(* _rebuild(): every pair is dropped, then the edge is read.                   *)
RebuildDrops ==
    /\ reader.at = "rebuild"
    /\ cache' = [p \in Traded |-> Unbound]
    /\ reader' = [reader EXCEPT !.at = "edge"]
    /\ UNCHANGED <<db, ready, ack, wanted, applied, spent>>

RebuildReads ==
    /\ reader.at = "edge"
    /\ reader' = [reader EXCEPT !.at = "idle", !.producer = db.producer, !.cursor = Edge]
    /\ UNCHANGED <<db, ready, ack, wanted, cache, applied, spent>>

(* A read of the database fails: the poll ends, the next one begins again.     *)
ReaderFails ==
    /\ spent < MaxTroubles
    /\ reader.at \in {"bind", "frame", "bound", "select", "edge"}
    /\ reader' = [reader EXCEPT !.at = "idle", !.todo = {}, !.floor = 0, !.frame = Nothing]
    /\ spent' = spent + 1
    /\ UNCHANGED <<db, ready, ack, wanted, cache, applied>>

ContourDies ==
    /\ Alive /\ spent < MaxTroubles
    /\ cache' = [p \in Traded |-> Unbound]
    /\ reader' = NoReader
    /\ wanted' = {}
    /\ spent' = spent + 1
    /\ UNCHANGED <<db, ready, ack, applied>>
-----------------------------------------------------------------------------
ReaderStep ==
    \/ ReaderOpens \/ PollStarts \/ BindEdge \/ BindFrame \/ Bind
    \/ PageChecks \/ PageSelects \/ PageApplies \/ Caught \/ RebuildDrops \/ RebuildReads

FeedNext ==
    \/ \E p \in Pairs, k \in {"candle", "absent"} : Publish(p, k)
    \/ \E p \in Traded : Want(p)
    \/ Prune \/ Replace \/ Readiness
    \/ ContourStarts \/ Acknowledge \/ ReaderStep \/ ReaderFails \/ ContourDies

FeedSpec == FeedInit /\ [][FeedNext]_feedVars
-----------------------------------------------------------------------------
FeedTypeOK ==
    /\ db \in [producer : 1..(1 + MaxTroubles), feed : Seq(Entry), pruned : 0..MaxFeed]
    /\ ready \subseteq Traded /\ wanted \subseteq Traded
    /\ ack \in [producer : 0..(1 + MaxTroubles), through : 0..MaxFeed]
    /\ \A p \in Traded : cache[p].copy # Nothing =>
           cache[p].copy \in [source : 1..(1 + MaxTroubles), at : 0..MaxFeed]
    /\ reader.at \in {"off", "open", "idle", "bind", "frame", "bound", "select", "apply", "caught",
                       "rebuild", "edge"}

(* Whatever is pruned, replaced, restarted or read in pieces, a bound pair     *)
(* shows a version the database has had, never one older than the position the *)
(* reader says it has applied (wait_applied, acknowledge, feed_lag).           *)
Copies == INSTANCE FeedCopy WITH
    source <- db.producer, feed <- db.feed, copy <- [p \in Traded |-> cache[p].copy], claim <- applied
FeedIsCopied == Copies!Spec
=============================================================================
