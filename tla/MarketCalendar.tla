--------------------------- MODULE MarketCalendar ---------------------------
(* Trading hours and what they say of candles: the source of the schedule, the *)
(* days stored of it, the copies two processes keep, and the phase, the due    *)
(* candle and the planned absences that follow from them.                      *)
(*   src/src/market_calendar/service.py, core.py, intervals.py, expiry.py      *)
(*   src/src/data/reconciliation.py (MarketDataReconciler)                     *)
EXTENDS Integers, Sequences, FiniteSetsExt, SequencesExt
CONSTANTS
    CalPapers,             \* instruments, all of one trading mode
    Plans,                 \* by date, the versions of its day: [trades, intervals, named]
    DayHours,
    DateShift,             \* the exchange's date begins this long before that of UTC
    Frames, Publication,   \* lengths of candles; a candle may be published this late
    Horizon, RefreshAfter, RetryAfter, MaxAge,
    Snapshot,              \* dates of a historical snapshot, with where each comes from
    AllowRebuilt, Chunk,   \* rebuilt days may guard sessions; days asked for at once in advance
    Known,                 \* hours whose candle the robot holds
    CloseBefore,           \* a contract leaves this long before the end of a session
    LastHour, MaxRevisions, MaxLost   \* bounds
ASSUME CalendarAssumption ==
    /\ {DayHours, Publication, Horizon, RefreshAfter, RetryAfter, MaxAge, CloseBefore} \subseteq Nat
    /\ Frames \subseteq Nat \ {0} /\ DayHours > 0 /\ DateShift \in 0 .. DayHours - 1 /\ Chunk > 0
VARIABLES
    calMode,      \* live: the broker and the robot's store; history: the emulator and a snapshot
    hour,
    plan,         \* version of each date the broker gives now
    revisions,    \* changes it has made
    bound,        \* instruments with a stored trading mode
    rows,         \* by date, the stored versions in the order they appeared
    revisedAt,    \* the hour the store last got a new version
    queries,      \* questions for the source, in order
    retryAt,      \* a failed question waits until then
    copy,         \* days the core keeps in memory, NoDays when it must read them
    reading,      \* days another thread has read and not yet put there
    contourDays,         \* days a contour keeps in memory
    covered,      \* dates loaded, or refused, from the snapshot, by instrument
    closed,       \* hours recorded as a planned absence, with their evidence
    scanned,      \* gaps that have been judged
    lost          \* answers that failed
calendarVars == <<calMode, hour, plan, revisions, bound, rows, revisedAt, queries, retryAt, copy, reading, contourDays,
                  covered, closed, scanned, lost>>

Dates == DOMAIN Plans
NoDays == [d \in {} |-> 0]
DateOf(t) == (t + DateShift) \div DayHours

CalendarInit ==
    /\ calMode \in {"live", "history"} /\ hour = 0 /\ plan = [d \in Dates |-> 1] /\ revisions = 0 /\ bound = {}
    /\ rows = [d \in Dates |-> <<>>] /\ revisedAt = -1 /\ queries = <<>>
    /\ retryAt = [k \in {"schedule"} \union CalPapers |-> 0] /\ copy = NoDays /\ reading = NoDays /\ contourDays = NoDays
    /\ covered = [p \in CalPapers |-> {}] /\ closed = [t \in {} |-> 0] /\ scanned = {} /\ lost = 0

------------------------------------------------------------------------------
(* A day in windows                                                            *)

KindOf(raw) ==
    CASE raw \in {"session", "dealer"} -> "continuous" [] raw = "auction" -> "auction"
      [] raw = "clearing" -> "clearing" [] OTHER -> "unknown"
Span(s, e, k) == [start |-> s, end |-> e, kind |-> k]

(* The same span under a general and a particular type is one window.          *)
FromIntervals(day) == {Span(i.start, i.end, KindOf(i.raw)) : i \in {x \in day.intervals : x.end > x.start}}

(* A day without intervals is built of its named hours, the clearing cut out.  *)
FromNamed(main, clearing) ==
    LET s == Max({main.start, clearing.start})
        e == Min({main.end, clearing.end})
    IN  IF e <= s THEN {Span(main.start, main.end, "continuous")}
        ELSE {Span(s, e, "clearing")}
             \union {w \in {Span(main.start, s, "continuous"), Span(e, main.end, "continuous")} : w.start < w.end}
WindowsOf(day) ==
    IF day.intervals # {} THEN FromIntervals(day)
    ELSE IF day.named = <<>> THEN {} ELSE FromNamed(day.named[1], day.named[2])

------------------------------------------------------------------------------
(* What a calendar, one row for each of its dates, says of a moment            *)

DayOf(days, d) == Plans[d][days[d].version]
IsTrading(w) == w.kind \in {"continuous", "unknown"}
Calendar(days) ==
    LET all == UNION {{[date |-> d, start |-> w.start, end |-> w.end, kind |-> w.kind]
                        : w \in WindowsOf(DayOf(days, d))} : d \in DOMAIN days}
    IN  [days |-> days, all |-> all, trading |-> {w \in all : IsTrading(w)}]
Around(ws, t) == {w \in ws : w.start <= t /\ t < w.end}
Coming(ws, t) == {w \in ws : w.start > t}

Phase(c, t) ==
    LET own == {w \in c.all : w.date = DateOf(t)}
    IN  IF Around(c.trading, t) # {} THEN "trading"
        ELSE IF Around(c.all, t) # {} THEN "break"
        ELSE IF DateOf(t) \notin DOMAIN c.days THEN "unknown"
        ELSE IF ~DayOf(c.days, DateOf(t)).trades THEN "closed"
        ELSE IF own = {} THEN "unknown"
        ELSE IF Coming(own, t) # {} /\ \E w \in own : w.end <= t THEN "break" ELSE "closed"

(* When the phase is to change, if that is known.                              *)
Earliest(ws) == CHOOSE w \in ws : \A o \in ws : o.start > w.start \/ (o.start = w.start /\ o.end >= w.end)
PhaseEnds(c, t) ==
    LET active == Around(c.all, t)
        onMarket == Around(c.trading, t)
        later == {w.start : w \in Coming(c.all, t)}
    IN  IF Phase(c, t) = "unknown" THEN {}
        ELSE IF onMarket # {} THEN {Earliest(onMarket).end}
        ELSE IF active # {} THEN {Min({w.end : w \in active})}
        ELSE IF later = {} THEN {} ELSE {Min(later)}

(* Candles: the one that holds a moment, the last that is due, the next.       *)
Opening(f, t) == t - (t % f)
LastDue(c, f, t) ==
    LET lastIn(w) == LET o == Opening(f, Min({w.end, t}) - 1) IN IF o + f > t THEN o - f ELSE o
    IN  {lastIn(w) : w \in {x \in c.trading : x.start < t /\ lastIn(x) + f > x.start}}
NextDue(c, f, t) == {Opening(f, Max({w.start, t})) : w \in {x \in c.trading : x.end > t}}
Expected(c, f, a, b) ==
    UNION {{o \in a .. b - 1 : o % f = 0 /\ o < w.end /\ o >= Opening(f, Max({w.start, a}))}
           : w \in {x \in c.trading : x.end > a /\ x.start < b}}

(* The moment the scheduler wakes at.                                          *)
Wakings(c, f, t) ==
    IF Phase(c, t) = "unknown" THEN {}
    ELSE PhaseEnds(c, t)
         \union (IF NextDue(c, f, t) = {} THEN {} ELSE {Min(NextDue(c, f, t)) + f})
         \union {x \in {o + f + Publication : o \in (IF LastDue(c, f, t) = {} THEN {} ELSE {Max(LastDue(c, f, t))})}
                 : x > t}

(* A contract's cutoff that falls between sessions moves to the end of the one *)
(* before, if every day in between is known.                                   *)
DaysKnown(c, a, b) == a .. b \subseteq DOMAIN c.days
Cutoff(c, t) ==
    LET before == {w \in c.trading : w.end <= t}
        w == CHOOSE x \in before : \A o \in before : o.end <= x.end
    IN  IF Around(c.trading, t) # {} \/ before = {} THEN t
        ELSE IF ~DaysKnown(c, w.date, DateOf(t)) THEN t
        ELSE Max({w.start, w.end - CloseBefore})

------------------------------------------------------------------------------
(* The store                                                                   *)

Stored == [d \in {x \in Dates : rows[x] # <<>>} |-> Last(rows[d])]

(* A version seen before is confirmed where it stands, a new one goes last.    *)
Recorded(seq, v, from) ==
    IF \E i \in DOMAIN seq : seq[i].version = v
    THEN [i \in DOMAIN seq |-> IF seq[i].version = v THEN [seq[i] EXCEPT !.confirmed = hour] ELSE seq[i]]
    ELSE Append(seq, [version |-> v, confirmed |-> hour, from |-> from])
Store(days, version, from) ==
    /\ rows' = [d \in Dates |-> IF d \in days THEN Recorded(rows[d], version[d], from[d]) ELSE rows[d]]
    /\ revisedAt' = IF \E d \in days : Len(rows'[d]) > Len(rows[d]) THEN hour ELSE revisedAt

(* Days a caller may use: rebuilt ones only where they were asked for, and of  *)
(* the live store those confirmed late enough before their date.               *)
Provenances(rebuilt) == IF rebuilt /\ AllowRebuilt THEN {"broker", "rebuilt"} ELSE {"broker"}
Usable(days, rebuilt) ==
    [d \in {x \in DOMAIN days : /\ days[x].from \in Provenances(rebuilt)
                                /\ calMode = "history" \/ days[x].confirmed >= x * DayHours - MaxAge} |-> days[d]]
Days == IF copy = NoDays THEN Stored ELSE copy
Evidence == Calendar(Usable(Days, FALSE))

------------------------------------------------------------------------------
(* The broker's schedule, asked for by the core                                *)

(* Another thread reads the stored days, and puts them where they are kept in  *)
(* a second step: the source may have been served in between.                  *)
ReadDays ==
    /\ copy = NoDays /\ reading = NoDays /\ Stored # NoDays
    /\ reading' = Stored
    /\ UNCHANGED <<calMode, hour, plan, revisions, bound, rows, revisedAt, queries, retryAt, copy, contourDays, covered,
                   closed, scanned, lost>>
KeepDays ==
    /\ reading # NoDays
    /\ copy' = reading /\ reading' = NoDays
    /\ UNCHANGED <<calMode, hour, plan, revisions, bound, rows, revisedAt, queries, retryAt, contourDays, covered, closed,
                   scanned, lost>>

(* A tick asks for the calendar of an instrument: a question is put once, and  *)
(* not before its pause is over. The answer is not waited for.                 *)
LastConfirmed == Max({-RefreshAfter} \union UNION {{r.confirmed : r \in ToSet(rows[d])} : d \in Dates})
Question(p) == IF p \in bound THEN "schedule" ELSE p
Confirmed == hour - LastConfirmed < RefreshAfter
MayAsk(p) ==
    /\ p \in bound => DateOf(hour) \notin DOMAIN Usable(Days, FALSE) \/ ~Confirmed
    /\ hour >= retryAt[Question(p)] /\ ~Contains(queries, Question(p))
AskBroker(p) ==
    /\ calMode = "live" /\ MayAsk(p)
    /\ queries' = Append(queries, Question(p))
    /\ UNCHANGED <<calMode, hour, plan, revisions, bound, rows, revisedAt, retryAt, copy, reading, contourDays, covered,
                   closed, scanned, lost>>

(* One question is served at a time, that of the schedule first; the budget    *)
(* may put it off, and it stays. What was kept is read anew.                   *)
NextQuery == IF Contains(queries, "schedule") THEN "schedule" ELSE Head(queries)
BindingAnswered ==
    /\ calMode = "live" /\ queries # <<>> /\ NextQuery \in CalPapers
    /\ bound' = bound \union {NextQuery} /\ copy' = NoDays
    /\ queries' = LET left == Remove(queries, NextQuery) IN IF Confirmed THEN left ELSE Append(left, "schedule")
    /\ UNCHANGED <<calMode, hour, plan, revisions, rows, revisedAt, retryAt, reading, contourDays, covered, closed, scanned, lost>>
ScheduleAnswered ==
    /\ calMode = "live" /\ queries # <<>> /\ NextQuery = "schedule"
    /\ LET today == DateOf(hour) IN Store(Dates \intersect (today .. today + Horizon), plan, [d \in Dates |-> "broker"])
    /\ queries' = Remove(queries, "schedule") /\ copy' = NoDays
    /\ UNCHANGED <<calMode, hour, plan, revisions, bound, retryAt, reading, contourDays, covered, closed, scanned, lost>>
QuestionFails ==
    /\ calMode = "live" /\ queries # <<>> /\ lost < MaxLost
    /\ queries' = Remove(queries, NextQuery) /\ copy' = NoDays /\ lost' = lost + 1
    /\ retryAt' = [retryAt EXCEPT ![NextQuery] = hour + Min({RefreshAfter, RetryAfter})]
    /\ UNCHANGED <<calMode, hour, plan, revisions, bound, rows, revisedAt, reading, contourDays, covered, closed, scanned>>

(* A contour reads what the core stores, and never asks: nothing makes it read *)
(* again what it holds.                                                        *)
ContourLooks ==
    /\ calMode = "live" /\ contourDays = NoDays /\ Stored # NoDays
    /\ contourDays' = Stored
    /\ UNCHANGED <<calMode, hour, plan, revisions, bound, rows, revisedAt, queries, retryAt, copy, reading, covered, closed,
                   scanned, lost>>

------------------------------------------------------------------------------
(* The snapshot of a historical run                                            *)

(* A range is loaded whole or not at all, and once refused is not asked again. *)
LoadRange(p, days, ok) ==
    LET got == {d \in days : d \in DOMAIN Snapshot}
    IN  /\ covered' = [covered EXCEPT ![p] = @ \union days]
        /\ IF ok /\ got # {}
           THEN Store(got, [d \in got |-> 1], Snapshot) /\ bound' = bound \union {p} /\ lost' = lost
           ELSE lost' = lost + (IF ok THEN 0 ELSE 1) /\ UNCHANGED <<rows, revisedAt, bound>>
        /\ lost' <= MaxLost
AskSnapshot(p) ==
    /\ calMode = "history" /\ DateOf(hour) \notin covered[p] /\ ~Contains(queries, <<p, DateOf(hour)>>)
    /\ queries' = Append(queries, <<p, DateOf(hour)>>)
    /\ UNCHANGED <<calMode, hour, plan, revisions, bound, rows, revisedAt, retryAt, copy, reading, contourDays, covered,
                   closed, scanned, lost>>
SnapshotAnswers ==
    /\ calMode = "history" /\ queries # <<>>
    /\ \E ok \in BOOLEAN :
          LET q == Head(queries) IN LoadRange(q[1], Dates \intersect (q[2] - Horizon .. q[2] + Horizon), ok)
    /\ queries' = Tail(queries) /\ copy' = NoDays
    /\ UNCHANGED <<calMode, hour, plan, revisions, retryAt, reading, contourDays, closed, scanned>>
(* Before the first tick the range of the run is loaded, piece by piece.       *)
Preload(p) ==
    /\ calMode = "history" /\ hour = 0 /\ queries = <<>> /\ copy = NoDays /\ reading = NoDays
    /\ LET first == IF covered[p] = {} THEN 0 ELSE Max(covered[p]) + 1
           days == Dates \intersect (first .. first + Chunk - 1)
       IN  days \intersect DOMAIN Snapshot # {} /\ LoadRange(p, days, TRUE)
    /\ UNCHANGED <<calMode, hour, plan, revisions, queries, retryAt, copy, reading, contourDays, closed, scanned>>

------------------------------------------------------------------------------
(* Planned absences                                                            *)

(* Gaps between the candles held, and after the last of them up to the one due.*)
Held == {t \in Known : t < hour}
Gaps ==
    LET due == LastDue(Evidence, 1, hour)
    IN  {<<t + 1, Min({o \in Held : o > t})>> : t \in {x \in Held : \E o \in Held : o > x}}
        \union (IF due = {} THEN {} ELSE {<<Max(Held) + 1, Max(due) + 1>>})
Judged(g) == <<g, Usable(Days, FALSE) = NoDays>>

(* An hour of a known date that no trading window touches is a planned absence.*)
Covers(c, t) == DateOf(t) \in DOMAIN c.days \/ Around(c.all, t) # {}
Absent(c, g) == {t \in g[1] .. g[2] - 1 : Covers(c, t) /\ t \notin Expected(c, 1, g[1], g[2])}
Witness(c, t) ==
    LET met == {w.date : w \in Around(c.all, t)}
        d == IF met # {} THEN Min(met) ELSE DateOf(t)
    IN  IF d \in DOMAIN c.days THEN <<d, c.days[d].version>> ELSE <<d, 0>>
Unjudged == IF Held = {} THEN {} ELSE {g \in Gaps : g[1] < g[2] /\ Judged(g) \notin scanned}
Reconcile ==
    /\ LET open == Unjudged
           news == IF Usable(Days, FALSE) = NoDays THEN {} ELSE UNION {Absent(Evidence, g) : g \in open}
       IN  /\ open # {}
           /\ scanned' = scanned \union {Judged(g) : g \in open}
           /\ closed' = [t \in DOMAIN closed \union news |-> IF t \in news THEN Witness(Evidence, t) ELSE closed[t]]
    /\ UNCHANGED <<calMode, hour, plan, revisions, bound, rows, revisedAt, queries, retryAt, copy, reading, contourDays,
                   covered, lost>>

------------------------------------------------------------------------------
(* External: time, the broker's changes of a day, restarts. An hour is long: by *)
(* its end the lanes have asked and read what they want, and an answer that did *)
(* not come was put off by the budget.                                         *)
HourPasses ==
    /\ hour < LastHour /\ hour' = hour + 1
    /\ reading = NoDays /\ (copy = NoDays => Stored = NoDays) /\ Unjudged = {}
    /\ calMode = "live" => \A p \in CalPapers : ~MayAsk(p)
    /\ IF queries = <<>> THEN lost' = lost ELSE lost < MaxLost /\ lost' = lost + 1
    /\ UNCHANGED <<calMode, plan, revisions, bound, rows, revisedAt, queries, retryAt, copy, reading, contourDays, covered,
                   closed, scanned>>
BrokerRevises ==
    \E d \in Dates :
      /\ calMode = "live" /\ revisions < MaxRevisions /\ d >= DateOf(hour)
      /\ \E v \in DOMAIN Plans[d] \ {plan[d]} : plan' = [plan EXCEPT ![d] = v]
      /\ revisions' = revisions + 1
      /\ UNCHANGED <<calMode, hour, bound, rows, revisedAt, queries, retryAt, copy, reading, contourDays, covered,
                     closed, scanned, lost>>
CoreRestarts ==
    /\ calMode = "live" /\ lost < MaxLost /\ lost' = lost + 1
    /\ queries' = <<>> /\ retryAt' = [k \in DOMAIN retryAt |-> 0] /\ copy' = NoDays /\ reading' = NoDays /\ scanned' = {}
    /\ UNCHANGED <<calMode, hour, plan, revisions, bound, rows, revisedAt, contourDays, covered, closed>>

CalendarNext ==
    \/ ReadDays \/ KeepDays \/ BindingAnswered \/ ScheduleAnswered \/ QuestionFails \/ ContourLooks
    \/ (\E p \in CalPapers : AskBroker(p) \/ AskSnapshot(p) \/ Preload(p))
    \/ SnapshotAnswers \/ Reconcile \/ HourPasses \/ BrokerRevises \/ CoreRestarts

------------------------------------------------------------------------------
Row == [version : 1 .. 3, confirmed : 0 .. LastHour, from : {"broker", "rebuilt"}]
IsDays(c) == DOMAIN c \subseteq Dates /\ \A d \in DOMAIN c : c[d] \in Row
CalendarTypeOK ==
    /\ calMode \in {"live", "history"} /\ hour \in 0 .. LastHour /\ revisions \in 0 .. MaxRevisions /\ lost \in 0 .. MaxLost
    /\ \A d \in Dates : plan[d] \in DOMAIN Plans[d] /\ rows[d] \in Seq(Row)
    /\ bound \subseteq CalPapers /\ revisedAt \in -1 .. hour
    /\ IsDays(copy) /\ IsDays(reading) /\ IsDays(contourDays)
    /\ covered \in [CalPapers -> SUBSET Dates] /\ DOMAIN closed \subseteq 0 .. LastHour
    /\ Len(queries) <= 6 /\ DOMAIN retryAt = {"schedule"} \union CalPapers

Views == IF queries # <<>> THEN {}
         ELSE {Calendar(d) : d \in {Usable(Days, FALSE), Usable(Days, TRUE), Usable(contourDays, FALSE)}}

(* The scheduler may sleep until the next waking it is told of: the phase of    *)
(* the market does not change before it, unless to unknown.                    *)
PhaseHolds ==
    \A c \in Views, f \in Frames :
      LET w == Wakings(c, f, hour)
      IN  w # {} => \A t \in hour .. Min(w) - 1 : Phase(c, t) \in {Phase(c, hour), "unknown"}

(* The candle awaited, the next one and those expected in a range agree with    *)
(* the promise: a candle is expected if some trading window meets it.          *)
Touches(w, f, o) == o < w.end /\ w.start < o + f
DueIsExact ==
    \A c \in Views, f \in Frames :
      LET all == {o \in 0 .. LastHour + DayHours : o % f = 0 /\ \E w \in c.trading : Touches(w, f, o)}
          due == {o \in all : o + f <= hour}
      IN  /\ Expected(c, f, 0, LastHour + DayHours + 1) = all
          /\ (LastDue(c, f, hour) = {}) = (due = {})
          /\ due # {} => Max(LastDue(c, f, hour)) = Max(due)
          /\ NextDue(c, f, hour) # {} =>
                Min(NextDue(c, f, hour)) = Min({o \in all : o + f > hour /\ \E w \in c.trading : w.end > hour /\ Touches(w, f, o)})

(* An absence is called planned on the broker's word alone: some version of its *)
(* own day, given by the broker, has no trading in that hour. A rebuilt or a   *)
(* missing day proves nothing.                                                 *)
ClosedIsProved ==
    \A t \in DOMAIN closed :
      \E i \in DOMAIN rows[closed[t][1]] :
         LET r == rows[closed[t][1]][i]
         IN  /\ r.version = closed[t][2] /\ r.from = "broker"
             /\ \A w \in WindowsOf(Plans[closed[t][1]][r.version]) :
                   w.kind \in {"continuous", "unknown"} => ~(w.start <= t /\ t < w.end)

(* A contract leaves while its market trades: a cutoff that was moved lies in a *)
(* session, and no session follows before the cutoff of the calendar.          *)
CutoffIsTradable ==
    \A c \in Views, t \in 0 .. LastHour :
      LET at == Cutoff(c, t)
      IN  at # t => /\ Around(c.trading, at) # {} \/ CloseBefore = 0
                    /\ DateOf(at) .. DateOf(t) \subseteq DOMAIN c.days
                    /\ \A w \in c.trading : w.start < t => w.end <= at + CloseBefore

(* Openspec: when the broker changes a day, expectations are computed anew by   *)
(* the new version. A contour keeps the days it read first.                    *)
ContourFollows ==
    contourDays # NoDays /\ revisedAt < hour - RefreshAfter =>
        /\ DOMAIN contourDays = DOMAIN Stored
        /\ \A d \in DOMAIN contourDays : contourDays[d].version = Stored[d].version
=============================================================================
