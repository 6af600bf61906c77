----------------------------- MODULE CandleStore -----------------------------
(* The versions of a minute candle and the minutes a contour executes:         *)
(* data/market_store.py (accept_observations, pin_input, mark_processed),      *)
(* data/cache.py (_accept_batch, the conflicts it watches), data/ingestion.py  *)
(* (_service_conflicts, _service_recent), assembly/contour.py (on_bar).        *)
(*                                                                             *)
(* One instrument's 1m row. The stream, the loads of history, the fenced       *)
(* re-reads, the contour and the restarts of either process interleave.        *)
EXTENDS Naturals, Sequences

CONSTANTS
    Values,         \* contents of a candle (OHLCV)
    CandleSources,  \* actual_source of an observation
    Nobody,         \* no incident, no request in flight, no source
    LastMinute,     \* the minutes of the row are 1..LastMinute
    RecentBars,     \* recent_reconciliation_bars
    MaxSeen,        \* bound: observations
    MaxCrashes      \* bound: restarts of the core and of the contour, in all

ASSUME CandleAssumption ==
    /\ {LastMinute, RecentBars} \subseteq Nat \ {0}
    /\ {MaxSeen, MaxCrashes} \subseteq Nat
    /\ Nobody \notin Nat /\ Nobody \notin [minute : 1..LastMinute, fence : Nat, missed : BOOLEAN]

VARIABLES
    facts,     \* metadata "live:candle:...": sequence, last signature, conflict ...
    versions,  \* candle_versions: the signature of each revision
    current,   \* candle_current.revision, 0 without a row
    pins,      \* input_references of the contour
    passed,    \* contour_cursors.processed_through
    incident,  \* metadata "live:uid:...": the last incident
    watched,   \* the cache's _live_conflicts
    request,   \* the fenced re-read in flight; missed: a different answer came since
    tick,      \* the contour's process: its batch and its step
    booked,    \* the journal's execution boundary
    played,    \* the revisions each minute was simulated with
    seen,      \* observations so far
    crashes    \* restarts so far

candleVars == <<facts, versions, current, pins, passed, incident, watched, request, tick,
                booked, played, seen, crashes>>
store == <<facts, versions, current, incident>>
contour == <<pins, passed, tick, booked, played>>

Minutes == 1..LastMinute
Signature == [value : Values, source : CandleSources]
Fetch == [minute : Minutes, fence : Nat, missed : BOOLEAN]
NoFacts == [sequence |-> 0, last |-> Nobody, seen |-> Nobody, revision |-> 0,
            canonical |-> Nobody, conflict |-> 0]
NoPin == [revision |-> 0, state |-> "none"]
Started == [at |-> "resume", batch |-> <<>>]

CandleInit ==
    /\ facts = [m \in Minutes |-> NoFacts]
    /\ versions = [m \in Minutes |-> <<>>]
    /\ current = [m \in Minutes |-> 0]
    /\ pins = [m \in Minutes |-> NoPin]
    /\ passed = 0 /\ booked = 0 /\ seen = 0 /\ crashes = 0
    /\ incident = Nobody /\ watched = {} /\ request = Nobody
    /\ tick = Started
    /\ played = [m \in Minutes |-> {}]
-----------------------------------------------------------------------------
(* The store takes one closed observation (_accept_in).                        *)

Content(m) == versions[m][current[m]].value
SourceConflict(m, sig) == facts[m].canonical \notin {Nobody, sig.source}
Same(m, sig) == current[m] > 0 /\ Content(m) = sig.value /\ ~SourceConflict(m, sig)

(* A fenced answer decides only when no different answer was seen since.       *)
FenceIgnored(m, fence) == fence # Nobody \* what if any fenced answer decided
FenceMatches(m, fence) == fence = facts[m].sequence

(* Every change of the answer, in either direction, moves the sequence.        *)
Counted(m, sig) ==
    IF facts[m].last = sig THEN facts[m]
    ELSE [facts[m] EXCEPT !.sequence = @ + 1, !.last = sig]

(* The answer seen last keeps its revision, any other one gets the next.       *)
Revised(m, sig) ==
    IF facts[m].seen = sig
    THEN [row |-> versions[m], revision |-> facts[m].revision]
    ELSE [row |-> Append(versions[m], sig), revision |-> Len(versions[m]) + 1]

(* The minute was consumed, passed, or pinned by the contour.                  *)
Used(m) == pins[m].state # "none" \/ passed >= m

Repeats(m, sig, fence) ==
    /\ Same(m, sig)
    /\ facts' = [facts EXCEPT ![m] = [Counted(m, sig) EXCEPT
                   !.conflict = IF FenceMatches(m, fence) THEN 0 ELSE @]]
    /\ UNCHANGED <<versions, current, incident>>

Differs(m, sig, fence) ==
    LET r == Revised(m, sig)
        f == [Counted(m, sig) EXCEPT !.seen = sig, !.revision = r.revision]
        held == current[m] > 0 /\ ~FenceMatches(m, fence)
    IN /\ ~Same(m, sig)
       /\ versions' = [versions EXCEPT ![m] = r.row]
       /\ current' = IF held THEN current ELSE [current EXCEPT ![m] = r.revision]
       /\ facts' = [facts EXCEPT ![m] =
                      IF held THEN [f EXCEPT !.conflict = r.revision]
                      ELSE [f EXCEPT !.conflict = 0, !.canonical = sig.source]]
       /\ incident' = IF held /\ Used(m) THEN [minute |-> m, candidate |-> r.revision] ELSE incident

(* The cache follows: a conflict is watched, a fenced agreement ends the watch.*)
WatchAfter(m, fence) ==
    IF facts'[m].conflict # 0 THEN watched \cup {m}
    ELSE IF fence # Nobody THEN watched \ {m} ELSE watched

Accept(m, sig, fence) ==
    /\ Repeats(m, sig, fence) \/ Differs(m, sig, fence)
    /\ watched' = WatchAfter(m, fence)
    /\ UNCHANGED <<contour, crashes>>

(* The stream's candle and the loads of history carry no fence.                *)
Observe(m, sig) ==
    /\ seen < MaxSeen /\ seen' = seen + 1
    /\ Accept(m, sig, Nobody)
    /\ request' = IF request = Nobody THEN Nobody
                  ELSE [request EXCEPT !.missed = @ \/ (request.minute = m /\ facts[m].last # sig)]
-----------------------------------------------------------------------------
(* The worker re-reads a minute; its fence is the sequence before the request. *)

LastClosed == IF \E m \in Minutes : current[m] > 0
        THEN CHOOSE m \in Minutes : current[m] > 0 /\ \A n \in Minutes : n > m => current[n] = 0
        ELSE 0
Recent == {m \in Minutes : m <= LastClosed /\ m + RecentBars > LastClosed}

(* _service_conflicts for a watched minute, _service_recent for the last ones. *)
Ask(m) ==
    /\ request = Nobody
    /\ request' = [minute |-> m, fence |-> facts[m].sequence, missed |-> FALSE]
    /\ UNCHANGED <<store, watched, contour, seen, crashes>>

AskConflicts == \E m \in watched : Ask(m)
AskRecent == \E m \in Recent : Ask(m)

(* The source answers what it has said of the minute last, or something else;  *)
(* the budget or the network may refuse.                                       *)
Answer(sig) ==
    /\ request # Nobody
    /\ seen' = IF facts[request.minute].last = sig THEN seen ELSE seen + 1
    /\ seen' <= MaxSeen
    /\ Accept(request.minute, sig, request.fence)
    /\ request' = Nobody

Refused ==
    /\ request # Nobody
    /\ request' = Nobody
    /\ UNCHANGED <<store, watched, contour, seen, crashes>>

(* The core's process: what it watches and asks is memory.                     *)
CoreStarts ==
    /\ crashes < MaxCrashes /\ crashes' = crashes + 1
    /\ watched' = {} /\ request' = Nobody
    /\ UNCHANGED <<store, contour, seen>>
-----------------------------------------------------------------------------
(* The contour: pin the next minutes, simulate, book, mark.                    *)

Marked(m) ==
    /\ pins' = IF pins[m].state = "none" THEN pins ELSE [pins EXCEPT ![m].state = "consumed"]
    /\ passed' = IF passed >= m THEN passed ELSE m

(* First tick after a start: the mark catches up with the journal.             *)
ResumeMarker ==
    /\ tick.at = "resume"
    /\ IF booked > passed THEN Marked(booked) ELSE UNCHANGED <<pins, passed>>
    /\ tick' = [tick EXCEPT !.at = "pin"]
    /\ UNCHANGED <<store, watched, request, booked, played, seen, crashes>>

(* pin_input(): an existing reference is returned as it is; a minute in        *)
(* conflict, or without a row, cannot be pinned.                               *)
PinTakesCurrent(m) == current[m] \* what if a reference were taken anew
PinRevision(m) == IF pins[m].state = "none" THEN current[m] ELSE pins[m].revision
PinState(m) == IF pins[m].state = "none" THEN "started" ELSE pins[m].state

Pin ==
    LET m == booked + Len(tick.batch) + 1
    IN /\ tick.at = "pin" /\ m \in Minutes /\ current[m] > 0
       /\ pins[m].state # "none" \/ facts[m].conflict = 0
       /\ pins' = [pins EXCEPT ![m] = [revision |-> PinRevision(m), state |-> PinState(m)]]
       /\ tick' = [tick EXCEPT !.batch = Append(@, PinRevision(m))]
       /\ UNCHANGED <<store, watched, request, passed, booked, played, seen, crashes>>

(* track_bar and the consumption of its events: some are durable before the    *)
(* minute is.                                                                  *)
Simulate ==
    /\ tick.at = "pin" /\ tick.batch # <<>>
    /\ played' = [played EXCEPT ![booked + 1] = @ \cup {Head(tick.batch)}]
    /\ tick' = [tick EXCEPT !.at = "commit"]
    /\ UNCHANGED <<store, watched, request, pins, passed, booked, seen, crashes>>

Book ==
    /\ tick.at = "commit"
    /\ booked' = booked + 1
    /\ tick' = [at |-> "mark", batch |-> Tail(tick.batch)]
    /\ UNCHANGED <<store, watched, request, pins, passed, played, seen, crashes>>

MarkProcessed ==
    /\ tick.at = "mark"
    /\ Marked(booked)
    /\ tick' = [tick EXCEPT !.at = "pin"]
    /\ UNCHANGED <<store, watched, request, booked, played, seen, crashes>>

ContourCrashes ==
    /\ crashes < MaxCrashes /\ crashes' = crashes + 1
    /\ tick' = Started
    /\ UNCHANGED <<store, watched, request, pins, passed, booked, played, seen>>
-----------------------------------------------------------------------------
Answers == \E sig \in Signature : Answer(sig)
CandleNext ==
    \/ \E m \in Minutes, sig \in Signature : Observe(m, sig)
    \/ AskConflicts \/ AskRecent \/ Answers \/ Refused \/ CoreStarts
    \/ ResumeMarker \/ Pin \/ Simulate \/ Book \/ MarkProcessed \/ ContourCrashes

CandleSpec == CandleInit /\ [][CandleNext]_candleVars
-----------------------------------------------------------------------------
CandleTypeOK ==
    /\ \A m \in Minutes :
          /\ versions[m] \in Seq(Signature)
          /\ {current[m], facts[m].revision, facts[m].conflict, pins[m].revision} \subseteq 0..Len(versions[m])
          /\ played[m] \subseteq 1..Len(versions[m])
    /\ {passed, booked} \subseteq 0..LastMinute /\ watched \subseteq Minutes
    /\ request # Nobody => request \in Fetch
    /\ tick.at \in {"resume", "pin", "commit", "mark"}

(* Whatever is corrected, restarted or replayed in between, a minute is only   *)
(* ever simulated with one revision of its candle.                             *)
OneVersionPlayed == \A m \in Minutes : \A r, s \in played[m] : r = s

(* A published candle is replaced only by the answer to a request during which *)
(* no different answer arrived: the order of delivery decides nothing.         *)
FreshAnswerWins == [][\A m \in Minutes : current[m] \notin {0, current'[m]} =>
                        request # Nobody /\ request.minute = m /\ ~request.missed]_candleVars
=============================================================================
