---------------------------- MODULE TradeExports ----------------------------
(* The projections of the trade journal: trade_event.csv, trade_summary.csv    *)
(* and the audit log, rewritten after every transaction of the database.       *)
(*   src/src/trade_journal/storage.py                                          *)
(*   src/src/trade_journal/export.py                                           *)
(* Detail left out: the other columns, wording, rotation of the audit log.     *)
EXTENDS Integers, Sequences, FiniteSets, SequencesExt
CONSTANTS
    Lives,    \* sequences of [kind, qty, price, minute]: what happens to a trade, as TradeExecution plays it
    MaxRepeats, MaxSnags   \* bounds
Kinds == {"OPEN", "ADD", "REDUCE", "CLOSE", "TARGET", "STOP", "ACK", "ABSENT", "LATE"}
ASSUME ExportAssumption ==
    /\ \A l \in Lives : \A i \in DOMAIN l : l[i].kind \in Kinds /\ {l[i].qty, l[i].price, l[i].minute} \subseteq Nat
    /\ {MaxRepeats, MaxSnags} \subseteq Nat
VARIABLES
    life,         \* what is going to happen
    facts,        \* rows of events, each with its fill and its trace
    contractNames, nameCache,   \* version of instrument_names in the database, and the exporter's
    required, exported, csvFailed,        \* export_state
    tracesOut, auditExported, auditFailed,   \* audit_exports and its state
    eventFile, cardFile,   \* the snapshot a file shows
    auditFile,    \* sequence of traces
    exporting,    \* where the process is
    shot,         \* snapshot of the export under way
    bootLeft,     \* transactions of Storage.__init__ still to come
    repeats, snags
exportVars == <<life, facts, contractNames, nameCache, required, exported, csvFailed, tracesOut, auditExported,
                auditFailed, eventFile, cardFile, auditFile, exporting, shot, bootLeft, repeats, snags>>
journalKept == <<life, facts, contractNames, nameCache, bootLeft, repeats>>
csvKept == <<required, exported, csvFailed, eventFile, cardFile, shot>>
auditKept == <<tracesOut, auditExported, auditFailed, auditFile>>

Nothing == [facts |-> 0, names |-> 0, revision |-> 0]
ExportsInit ==
    /\ life \in Lives /\ facts = <<>> /\ contractNames = 0 /\ nameCache = 0 /\ required = 0 /\ exported = 0 /\ csvFailed = FALSE
    /\ tracesOut = {} /\ auditExported = 0 /\ auditFailed = FALSE /\ eventFile = Nothing /\ cardFile = Nothing
    /\ auditFile = <<>> /\ exporting = "idle" /\ shot = Nothing /\ bootLeft = 0 /\ repeats = 0 /\ snags = 0

------------------------------------------------------------------------------
(* The facts                                                                   *)

Flat == [qty |-> 0, avg |-> 0, gross |-> 0]
Increases == {"OPEN", "ADD"}
Filled(f) == f.qty > 0
(* The reducer's book: money of one contract's point is one.                   *)
Cleared(p, f) ==
    IF ~Filled(f) THEN p
    ELSE IF f.kind \in Increases
    THEN [p EXCEPT !.qty = @ + f.qty, !.avg = (p.avg * p.qty + f.price * f.qty) \div (p.qty + f.qty)]
    ELSE [qty |-> p.qty - f.qty, avg |-> IF f.qty = p.qty THEN 0 ELSE p.avg,
          gross |-> p.gross + (f.price - p.avg) * f.qty]
BookAfter(n) == FoldLeft(Cleared, Flat, SubSeq(facts, 1, n))
Holding == BookAfter(Len(facts))

(* transaction(): one fact and its trace, or nothing new.                      *)
Committed ==
    /\ exporting' = "committed"
    /\ UNCHANGED <<life, contractNames, nameCache, csvKept, auditKept, bootLeft, snags>>
NextFact == life[Len(facts) + 1]
Adds == exporting = "idle" /\ Len(facts) < Len(life) /\ facts' = Append(facts, NextFact) /\ Committed /\ UNCHANGED repeats
RecordFact == Adds /\ NextFact.kind \notin {"ABSENT", "LATE"}
(* A minute execution has passed without a candle is noted for an open trade;  *)
(* the candle that comes later, for a trade where that is noted. Both once.    *)
RecordAbsence == Adds /\ NextFact.kind = "ABSENT" /\ Holding.qty > 0
RecordLateCandle == Adds /\ NextFact.kind = "LATE" /\ \E i \in DOMAIN facts : facts[i].kind = "ABSENT"
RecordAgain ==   \* a fact delivered twice, a command claimed or sent: a transaction with no new row of events
    /\ exporting = "idle" /\ repeats < MaxRepeats /\ repeats' = repeats + 1
    /\ Committed /\ UNCHANGED facts

(* set_names: the exporter's map, the table in a commit of its own, then an    *)
(* export that raises no revision.                                             *)
LearnNames ==
    /\ exporting = "idle" /\ nameCache = 0 /\ nameCache' = 1 /\ exporting' = "naming"
    /\ UNCHANGED <<life, facts, contractNames, csvKept, auditKept, bootLeft, repeats, snags>>
SaveNames ==
    /\ exporting = "naming" /\ contractNames' = nameCache /\ exporting' = "marked"
    /\ UNCHANGED <<life, facts, nameCache, csvKept, auditKept, bootLeft, repeats, snags>>

(* _mark_export_required: a commit of its own.                                 *)
MarkRequired ==
    /\ exporting = "committed" /\ required' = required + 1 /\ exporting' = "marked"
    /\ UNCHANGED <<journalKept, exported, csvFailed, eventFile, cardFile, shot, auditKept, snags>>

------------------------------------------------------------------------------
(* The two files                                                               *)

(* A step meets an OSError and records the failure.                            *)
Falls(next) ==
    /\ snags < MaxSnags /\ snags' = snags + 1 /\ csvFailed' = TRUE /\ exporting' = next
(* One read transaction, and a temporary file for each projection.             *)
Shot == [facts |-> Len(facts), names |-> nameCache, revision |-> required]
WriteTemps ==
    /\ exporting = "marked"
    /\ shot' = Shot
    /\ \/ exporting' = "replacing" /\ UNCHANGED <<csvFailed, snags>>
       \/ Falls("auditing")
    /\ UNCHANGED <<journalKept, required, exported, eventFile, cardFile, auditKept>>
(* Both destinations are tried whatever the first gives.                       *)
ReplaceEvents ==
    /\ exporting = "replacing"
    /\ \/ exporting' = "second" /\ eventFile' = shot /\ UNCHANGED <<csvFailed, snags>>
       \/ Falls("halved") /\ UNCHANGED eventFile
    /\ UNCHANGED <<journalKept, required, exported, cardFile, shot, auditKept>>
ReplaceCards ==
    /\ exporting \in {"second", "halved"}
    /\ \/ /\ exporting' = IF exporting = "second" THEN "recording" ELSE "auditing"
          /\ cardFile' = shot /\ UNCHANGED <<csvFailed, snags>>
       \/ Falls("auditing") /\ UNCHANGED cardFile
    /\ UNCHANGED <<journalKept, required, exported, eventFile, shot, auditKept>>
(* _record_success: only when nothing newer is required.                       *)
RecordSuccess ==
    /\ exporting = "recording" /\ exporting' = "auditing"
    /\ IF required <= shot.revision THEN exported' = shot.revision /\ csvFailed' = FALSE
       ELSE UNCHANGED <<exported, csvFailed>>
    /\ UNCHANGED <<journalKept, required, eventFile, cardFile, shot, auditKept, snags>>

------------------------------------------------------------------------------
(* The audit log                                                               *)

Unaudited == {i \in DOMAIN facts : i \notin tracesOut}
NextTrace == CHOOSE i \in Unaudited : \A j \in Unaudited : i <= j
(* What follows an export: the rest of the start, or nothing.                  *)
AfterExport ==
    /\ exporting' = IF bootLeft > 1 THEN "committed" ELSE IF bootLeft = 1 THEN "marked" ELSE "idle"
    /\ bootLeft' = IF bootLeft > 0 THEN bootLeft - 1 ELSE 0
(* A line that cannot be written may still be in the file.                     *)
WriteTrace ==
    /\ exporting = "auditing" /\ Unaudited # {}
    /\ \/ /\ auditFile' = Append(auditFile, NextTrace) /\ exporting' = "ticking"
          /\ UNCHANGED <<auditFailed, bootLeft, snags>>
       \/ /\ snags < MaxSnags /\ snags' = snags + 1 /\ auditFailed' = TRUE /\ AfterExport
          /\ auditFile' \in {auditFile, Append(auditFile, NextTrace)}
    /\ UNCHANGED <<life, facts, contractNames, nameCache, repeats, csvKept, tracesOut, auditExported>>
TickTrace ==
    /\ exporting = "ticking" /\ exporting' = "auditing" /\ tracesOut' = tracesOut \cup {NextTrace}
    /\ UNCHANGED <<journalKept, csvKept, auditExported, auditFailed, auditFile, snags>>
FinishAudit ==
    /\ exporting = "auditing" /\ Unaudited = {} /\ AfterExport
    /\ auditExported' = required /\ auditFailed' = FALSE
    /\ UNCHANGED <<life, facts, contractNames, nameCache, repeats, csvKept, tracesOut, auditFile, snags>>

(* The process dies, at any of these steps; a start requeues what was claimed, *)
(* releases leftover reservations, each in a transaction, and exports.         *)
ExportDies ==
    /\ exporting # "down" /\ snags < MaxSnags /\ snags' = snags + 1
    /\ exporting' = "down" /\ bootLeft' = 0 /\ shot' = Nothing /\ nameCache' = contractNames
    /\ UNCHANGED <<life, facts, contractNames, repeats, required, exported, csvFailed, eventFile, cardFile, auditKept>>
OpenStorage ==
    /\ exporting = "down" /\ exporting' = "committed" /\ bootLeft' = 2
    /\ UNCHANGED <<life, facts, contractNames, nameCache, repeats, csvKept, auditKept, snags>>

ExportsNext ==
    \/ RecordFact \/ RecordAbsence \/ RecordLateCandle \/ RecordAgain \/ LearnNames \/ SaveNames \/ MarkRequired
    \/ WriteTemps \/ ReplaceEvents \/ ReplaceCards \/ RecordSuccess
    \/ WriteTrace \/ TickTrace \/ FinishAudit \/ ExportDies \/ OpenStorage

------------------------------------------------------------------------------
(* What the files say                                                          *)

(* One row of trade_event.csv, replayed fill by fill.                          *)
Replayed(p, f) ==
    IF ~Filled(f) \/ f.price <= 0 THEN p
    ELSE IF f.kind \in Increases
    THEN [qty |-> p.qty + f.qty, avg |-> IF p.avg = 0 THEN f.price
                                         ELSE (p.avg * p.qty + f.price * f.qty) \div (p.qty + f.qty)]
    ELSE LET left == IF p.qty > f.qty THEN p.qty - f.qty ELSE 0
         IN  [qty |-> left, avg |-> IF left > 0 THEN p.avg ELSE 0]
LastRow(shown) == FoldLeft(Replayed, [qty |-> 0, avg |-> 0], SubSeq(facts, 1, shown))

(* A fill is identified by its command: a uuid closes, the rest are named for  *)
(* the trade, the profile's exits before the broker's.                         *)
NameOrder(kind) == CASE kind = "CLOSE" -> 1 [] kind = "REDUCE" -> 2 [] kind = "STOP" -> 3 [] OTHER -> 4
CardBefore(f, g) == f.minute < g.minute \/ (f.minute = g.minute /\ NameOrder(f.kind) < NameOrder(g.kind))
(* _fills: the exits of the card.                                              *)
ExitOrder(shown) ==
    LET out == {i \in 1 .. shown : Filled(facts[i]) /\ facts[i].kind \notin Increases}
    IN  SetToSortSeq(out, LAMBDA i, j : \/ CardBefore(facts[i], facts[j])
                                        \/ ~CardBefore(facts[j], facts[i]) /\ i < j)
Traded(shown, up) == FoldSeq(LAMBDA f, sum : sum + IF f.kind \in Increases <=> up THEN f.price * f.qty ELSE 0,
                             0, SubSeq(facts, 1, shown))
(* One row of trade_summary.csv.                                               *)
Card(shown) ==
    LET order == ExitOrder(shown)
        book  == BookAfter(shown)
    IN  [left |-> book.qty, gross |-> book.gross, paid |-> Traded(shown, TRUE), got |-> Traded(shown, FALSE),
         exits |-> [i \in DOMAIN order |-> facts[order[i]].kind],
         reason |-> IF book.qty = 0 /\ order # <<>> THEN facts[order[Len(order)]].kind ELSE ""]

------------------------------------------------------------------------------
ExportsTypeOK ==
    /\ life \in Lives /\ facts = SubSeq(life, 1, Len(facts))
    /\ {contractNames, nameCache} \subseteq {0, 1} /\ {required, exported, auditExported} \subseteq Nat
    /\ {csvFailed, auditFailed} \subseteq BOOLEAN /\ tracesOut \subseteq DOMAIN facts
    /\ {eventFile, cardFile, shot} \subseteq [facts : 0 .. Len(facts), names : {0, 1}, revision : Nat]
    /\ exporting \in {"idle", "committed", "naming", "marked", "replacing", "second", "halved", "recording",
                      "auditing", "ticking", "down"}
    /\ bootLeft \in 0 .. 2 /\ repeats \in 0 .. MaxRepeats /\ snags \in 0 .. MaxSnags

(* Between transactions, unless a failure is recorded, both files show one     *)
(* snapshot, the newest, under the newest names, and no revision is owed.      *)
FilesAreCurrent ==
    exporting = "idle" /\ ~csvFailed =>
        /\ required = exported
        /\ \A file \in {eventFile, cardFile} : required > 0 => file.facts = Len(facts) /\ file.names = nameCache

(* A trace ticked off is in the log; all are there when no failure is owed;    *)
(* each line too many has a failure or a death behind it.                      *)
AuditIsWhole ==
    /\ tracesOut \subseteq ToSet(auditFile)
    /\ exporting = "idle" /\ ~auditFailed => tracesOut = DOMAIN facts
    /\ Len(auditFile) <= Cardinality(tracesOut) + snags + IF exporting = "ticking" THEN 1 ELSE 0

(* The last row of the feed shows the position of the book, and the card the   *)
(* same trade: exits in the order they happened, a closed trade's result is    *)
(* what it got less what it paid. A closing and a reduction of one minute are  *)
(* left out: see the README.                                                   *)
FilesAreTrue ==
    \A shown \in {eventFile.facts, cardFile.facts} :
        LET card == Card(shown)
            book == BookAfter(shown)
            exits == SelectSeq([i \in 1 .. shown |-> facts[i]], LAMBDA f : Filled(f) /\ f.kind \notin Increases)
        IN  /\ LastRow(shown).qty = book.qty /\ LastRow(shown).avg = book.avg
            /\ (\A i, j \in 1 .. shown : facts[i].kind = "REDUCE" /\ facts[j].kind = "CLOSE" => facts[i].minute < facts[j].minute)
                   => card.exits = [i \in DOMAIN exits |-> exits[i].kind]
            /\ card.left = 0 => card.gross = card.got - card.paid
=============================================================================
