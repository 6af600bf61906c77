--------------------------- MODULE SessionGuard ---------------------------
(* An intraday trade and the sessions it may live in: entries are refused near *)
(* the end of a block of allowed sessions, waiting ones cancelled, and a       *)
(* position is closed at the flatten mark or carried over with its stop at     *)
(* break-even.                                                                 *)
(*   src/src/trade_management/session_guard.py                                 *)
(*   src/src/trade_management/manager.py (_guard_sessions)                     *)
EXTENDS Integers, Sequences, SequencesExt
CONSTANTS
    SessionWindows,    \* [start, end, raw]: windows of the calendar, in minutes
    AllowedSessions,   \* raw types an intraday trade may live in
    KnownDays,         \* dates with a typed trading day
    DayLength,
    MergeGap,          \* windows this close make one block
    NoEntryBefore, FlattenBefore,   \* minutes before the end of a block
    LookbackDays,
    KeepIfEven,        \* keep_if_tp1_and_breakeven
    LastMinute         \* bound
ASSUME SessionAssumption ==
    /\ SessionWindows \subseteq [start : Nat, end : Nat, raw : STRING]
    /\ {DayLength, MergeGap, NoEntryBefore, FlattenBefore, LookbackDays, LastMinute} \subseteq Nat
    /\ FlattenBefore <= NoEntryBefore /\ DayLength > 0 /\ KeepIfEven \in BOOLEAN
VARIABLES
    minute,      \* the market's time
    robotOn,     \* the robot runs
    cycled,      \* this minute's cycle of the protection timeframe is done
    intraday,    \* phase of the trade: none, ENTRY_PENDING, OPEN
    fixation,    \* its first profit has been taken
    even,        \* its confirmed stop is at break-even of the whole trade or better
    moving,      \* a MoveStop to break-even waits for the broker
    leaving,     \* a CLOSE (or, of a waiting entry, CANCEL) order is live
    adding,      \* an addition is live
    approvedAt   \* carry approved at this minute, -1 when never
sessionVars == <<minute, robotOn, cycled, intraday, fixation, even, moving, leaving, adding, approvedAt>>

SessionInit ==
    /\ minute = 0 /\ robotOn = TRUE /\ cycled = FALSE /\ intraday = "none" /\ fixation = FALSE
    /\ even = FALSE /\ moving = FALSE /\ leaving = FALSE /\ adding = FALSE /\ approvedAt = -1

------------------------------------------------------------------------------
(* The schedule of a date                                                      *)

(* Allowed windows of the date, neighbours merged into blocks.                 *)
Joined(blocks, w) ==
    IF blocks # <<>> /\ w.start - Last(blocks).end <= MergeGap
    THEN [blocks EXCEPT ![Len(blocks)].end = IF @ > w.end THEN @ ELSE w.end]
    ELSE Append(blocks, [start |-> w.start, end |-> w.end])
Blocks(day) ==
    IF day \notin KnownDays THEN <<>>
    ELSE FoldLeft(Joined, <<>>,
                  SetToSortSeq({w \in SessionWindows : w.start \div DayLength = day /\ w.raw \in AllowedSessions},
                               LAMBDA v, w : v.start < w.start))

Today == minute \div DayLength
BlockNow == {b \in ToSet(Blocks(Today)) : b.start <= minute /\ minute < b.end}

(* Whether a new intraday entry is let through, or why not.                    *)
EntryCode ==
    IF Today \notin KnownDays THEN "session-schedule-unknown"
    ELSE IF BlockNow = {} THEN "intraday-session-closed"
    ELSE IF \E b \in BlockNow : minute >= b.end - NoEntryBefore THEN "intraday-close-near"
    ELSE "allowed"

(* Flatten marks that have passed, today's first and then further back.        *)
PassedMarks(day) == {b.end - FlattenBefore : b \in {x \in ToSet(Blocks(day)) : x.end - FlattenBefore <= minute}}
LastFlatten ==
    LET days == {d \in 0 .. Today : Today - d <= LookbackDays /\ PassedMarks(d) # {}}
    IN  IF days = {} THEN -1
        ELSE LET day == CHOOSE d \in days : \A o \in days : o <= d
             IN  CHOOSE m \in PassedMarks(day) : \A o \in PassedMarks(day) : o <= m

(* A position must leave, or be carried, outside the safe part of a block.     *)
Obligated ==
    /\ Today \in KnownDays
    /\ \A b \in ToSet(Blocks(Today)) : ~(b.start <= minute /\ minute < b.end - FlattenBefore)
CarryValid == approvedAt # -1 /\ approvedAt >= LastFlatten

------------------------------------------------------------------------------
(* The cycle of the manager                                                    *)

(* The trade leaves, is kept, or waits for its stop: the market tells whether a *)
(* stop at break-even would be on the right side of it.                        *)
CarryAction(above) ==
    IF ~KeepIfEven \/ ~fixation THEN "close"
    ELSE IF even THEN "keep" ELSE IF above THEN "move" ELSE "close"
CarryChosen(above) == CarryAction(above)

GuardCycle ==
    \E above \in BOOLEAN :
      /\ robotOn /\ ~cycled /\ cycled' = TRUE
      /\ LET cancels == /\ intraday = "ENTRY_PENDING" /\ ~leaving
                        /\ EntryCode \in {"intraday-session-closed", "intraday-close-near"}
             decides == intraday = "OPEN" /\ Obligated /\ ~CarryValid /\ ~leaving
             carry == CarryChosen(above)
         IN  /\ leaving' = (leaving \/ cancels \/ (decides /\ carry = "close"))
             /\ moving' = (moving \/ (decides /\ carry = "move"))
             /\ approvedAt' = IF decides /\ carry = "keep" THEN minute ELSE approvedAt
      /\ UNCHANGED <<minute, robotOn, intraday, fixation, even, adding>>

(* A signal's entry, and an addition, are let through by the same rule; an     *)
(* addition ends with the first reduction.                                     *)
EnterTrade ==
    /\ robotOn /\ intraday = "none" /\ EntryCode = "allowed"
    /\ intraday' = "ENTRY_PENDING"
    /\ UNCHANGED <<minute, robotOn, cycled, fixation, even, moving, leaving, adding, approvedAt>>
AddToTrade ==
    /\ robotOn /\ intraday = "OPEN" /\ ~adding /\ ~fixation /\ ~leaving /\ EntryCode = "allowed"
    /\ adding' = TRUE
    /\ UNCHANGED <<minute, robotOn, cycled, intraday, fixation, even, moving, leaving, approvedAt>>

------------------------------------------------------------------------------
(* What the broker does with the orders                                        *)

TradeGone ==
    /\ intraday' = "none" /\ fixation' = FALSE /\ even' = FALSE /\ moving' = FALSE
    /\ leaving' = FALSE /\ adding' = FALSE /\ approvedAt' = -1
    /\ UNCHANGED <<minute, robotOn, cycled>>
EntryFills ==
    /\ robotOn /\ intraday = "ENTRY_PENDING"
    /\ intraday' = "OPEN" /\ leaving' = FALSE
    /\ UNCHANGED <<minute, robotOn, cycled, fixation, even, moving, adding, approvedAt>>
(* The cancel, the close or the stop itself is executed.                       *)
IntradayEnds ==
    /\ robotOn /\ intraday # "none"
    /\ intraday = "ENTRY_PENDING" => leaving
    /\ TradeGone
LeavingRefused ==
    /\ robotOn /\ leaving /\ leaving' = FALSE
    /\ UNCHANGED <<minute, robotOn, cycled, intraday, fixation, even, moving, adding, approvedAt>>
TargetFills ==
    /\ robotOn /\ intraday = "OPEN" /\ ~fixation
    /\ fixation' = TRUE /\ adding' = FALSE
    /\ UNCHANGED <<minute, robotOn, cycled, intraday, even, moving, leaving, approvedAt>>
(* What an addition costs is not covered by a stop set before it.              *)
AdditionFills ==
    /\ robotOn /\ adding /\ adding' = FALSE /\ even' = FALSE
    /\ UNCHANGED <<minute, robotOn, cycled, intraday, fixation, moving, leaving, approvedAt>>
StopAnswered ==
    \E confirmed \in BOOLEAN :
      /\ robotOn /\ moving /\ moving' = FALSE /\ even' = (even \/ confirmed)
      /\ UNCHANGED <<minute, robotOn, cycled, intraday, fixation, leaving, adding, approvedAt>>
(* The profile's own stop reaches break-even.                                  *)
ProfileMovesStop ==
    /\ robotOn /\ intraday = "OPEN" /\ fixation /\ ~even /\ even' = TRUE
    /\ UNCHANGED <<minute, robotOn, cycled, intraday, fixation, moving, leaving, adding, approvedAt>>

(* Time passes once the cycle is done, or while the robot is off.              *)
MinutePasses ==
    /\ minute < LastMinute
    /\ robotOn => cycled
    /\ minute' = minute + 1 /\ cycled' = FALSE
    /\ UNCHANGED <<robotOn, intraday, fixation, even, moving, leaving, adding, approvedAt>>
RobotToggles ==
    /\ robotOn' = ~robotOn /\ cycled' = FALSE
    /\ UNCHANGED <<minute, intraday, fixation, even, moving, leaving, adding, approvedAt>>

SessionNext ==
    \/ GuardCycle \/ EnterTrade \/ AddToTrade \/ EntryFills \/ IntradayEnds \/ LeavingRefused
    \/ TargetFills \/ AdditionFills \/ StopAnswered \/ ProfileMovesStop
    \/ MinutePasses \/ RobotToggles

------------------------------------------------------------------------------
SessionTypeOK ==
    /\ minute \in 0 .. LastMinute /\ intraday \in {"none", "ENTRY_PENDING", "OPEN"}
    /\ {robotOn, cycled, fixation, even, moving, leaving, adding} \subseteq BOOLEAN
    /\ approvedAt \in -1 .. LastMinute

(* An open position past its mark whose carry counts as approved has its stop   *)
(* at break-even: an approval of an earlier mark, or one from before an         *)
(* addition, is never taken for a stop. Of a position whose carry is not        *)
(* approved it says nothing: that one may be left over the mark, with the robot *)
(* off, with its close refused, or with its obligation lost (ObligationLasts).  *)
CarriedIsEven ==
    intraday = "OPEN" /\ Obligated /\ CarryValid => even

(* "The obligation must survive ... until the trade is closed or the carry is   *)
(* approved" (trade-management/spec.md:911). Untrue of the code: the next block *)
(* of sessions begins and a trade left over the mark is obliged to nothing.     *)
ObligationLasts ==
    [][Obligated /\ intraday = "OPEN" /\ ~CarryValid /\ intraday' = "OPEN" /\ ~CarryValid'
         => Obligated']_sessionVars
=============================================================================
