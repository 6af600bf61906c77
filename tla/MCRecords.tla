----------------------------- MODULE MCRecords -----------------------------
(* What the program keeps on disk and reads again: the runs of the history,    *)
(* the exchange's calendar, the files of the trades, the events of the         *)
(* clusters, the passage between contracts, the check before a run of history; *)
(* side by side, part says which.                                              *)
EXTENDS HistoryRuns, MarketCalendar, TradeExports, ClusterEvents, ContractRollover,
        HistoryStart, TLC
CONSTANTS q1, q2, Parts
VARIABLE part

Symmetry == Permutations(Runs)
Interval(s, e, r) == [start |-> s, end |-> e, raw |-> r]
NoPlan == [trades |-> FALSE, intervals |-> {}, named |-> <<>>]
ThreeDates ==
    [d \in 0 .. 2 |->
       CASE d = 0 -> <<[trades |-> TRUE, intervals |-> {Interval(0, 2, "session"), Interval(0, 2, "dealer"), Interval(2, 3, "clearing"),
                                                     Interval(3, 4, "session")}, named |-> <<>>],
                       [trades |-> TRUE, intervals |-> {Interval(0, 2, "session")}, named |-> <<>>]>>
         [] d = 1 -> <<[trades |-> TRUE, intervals |-> {Interval(5, 7, "weekend"), Interval(8, 9, "auction"), Interval(9, 10, "session")},
                        named |-> <<>>], NoPlan>>
         [] d = 2 -> <<[trades |-> TRUE, intervals |-> {},
                        named |-> <<[start |-> 11, end |-> 15], [start |-> 12, end |-> 13]>>],
                       [trades |-> TRUE, intervals |-> {}, named |-> <<>>]>>]
SomeDates == [d \in {0, 1} |-> IF d = 0 THEN "broker" ELSE "rebuilt"]
Happens(k, q, p, m) == [kind |-> k, qty |-> q, price |-> p, minute |-> m]
ThreeLives ==
    {<<Happens("ACK", 0, 0, 1), Happens("OPEN", 2, 12, 1), Happens("REDUCE", 1, 36, 2), Happens("STOP", 1, 6, 2)>>,
     <<Happens("OPEN", 2, 12, 1), Happens("ADD", 1, 36, 1), Happens("TARGET", 1, 30, 2), Happens("TARGET", 2, 40, 2)>>,
     <<Happens("OPEN", 3, 12, 1), Happens("ABSENT", 0, 0, 1), Happens("LATE", 0, 0, 2), Happens("CLOSE", 3, 10, 3)>>}
Entry(w, p, d, o, t) == [what |-> w, paper |-> p, dir |-> d, of |-> o, at |-> t]
ThreeMarkets ==
    {[stream |-> <<Entry("large_aggressor", "ours", 1, 0, 1), Entry("volume_spike", "ours", 1, 0, 2),
                   Entry("signal_revoked", "ours", 1, 2, 3)>>, bar |-> 2, side |-> 1,
      course |-> 0 :> 0 @@ 1 :> 0 @@ 2 :> 4 @@ 3 :> 4],
     [stream |-> <<Entry("volume_spike", "sister", 1, 0, 0), Entry("absorption", "ours", -1, 0, 2),
                   Entry("data_degraded", "ours", 0, 0, 3)>>, bar |-> 2, side |-> 1,
      course |-> 0 :> 0 @@ 1 :> 2 @@ 2 :> 6],
     [stream |-> <<Entry("data_degraded", "ours", 0, 0, 0), Entry("data_restored", "ours", 0, 0, 1),
                   Entry("signal_confirmed", "ours", 0, 0, 1), Entry("large_aggressor", "ours", -1, 0, 2)>>,
      bar |-> 2, side |-> -1, course |-> 1 :> 0 @@ 2 :> 0]}

Paper(e, l, n, f, s) == [expiry |-> e, last |-> l, notice |-> n, first |-> f, shift |-> s]
EightCatalogs ==
    {{Paper(10, 9, 0, 0, 0), Paper(16, 0, 0, 3, 1), Paper(24, 24, 0, 2, 0)},
     {Paper(9, 0, 8, 0, 0), Paper(13, 0, 12, 4, 0), Paper(24, 0, 0, 6, 0)},
     {Paper(7, 0, 0, 0, 0), Paper(30, 0, 0, 9, 0)}, {Paper(30, 0, 0, 6, 0)}, {Paper(9, 0, 0, 0, 0)},
     {Paper(9, 0, 0, 0, 0), Paper(9, 0, 8, 0, 0)}, {Paper(11, 0, 0, 0, 0), Paper(30, 0, 0, 9, 3)},
     {Paper(20, 0, 0, 3, 0), Paper(40, 0, 0, 1, 1)}}

(* A range of four minutes: two pairs that drive it and one above them; a      *)
(* family whose contract changes inside it; two families, and one with a pair. *)
Bars(p, bars, due) == [period |-> p, needed |-> 1, bars |-> bars, due |-> due]
Asks(s, fixed, families) == [start |-> s, end |-> 16, fixed |-> fixed, families |-> families]
TwoPairs ==
    {Asks(s, <<Bars(2, {6} \union a \union tail, 0), Bars(2, {6, 14} \union b, 0), Bars(4, {4, 12}, 0)>>, <<>>) :
       s \in {8, 9}, a \in {{8}, {10}, {8, 12}, {}}, b \in {{8}, {10, 12}, {12}}, tail \in {{14}, {16}, {}}}
    \union {Asks(8, <<Bars(2, {4, 6, 8, 10}, d), Bars(4, {4} \union above, 0)>>, <<>>) : d \in {0, 10, 12}, above \in {{8}, {8, 16}, {}}}
Listed(first, cutoff, deadline, bars, above, needed) ==
    [first |-> first, cutoff |-> cutoff, deadline |-> deadline,
     frames |-> <<Bars(2, bars, 0), [period |-> 4, needed |-> needed, bars |-> above, due |-> 0]>>]
TwoContracts ==
    {Asks(8, <<>>, <<<<Listed(-16, 11, deadline, {6, 8, 10} \union exit, above, needed),
                       Listed(0, 30, 34, {8, 10, 14, 16}, {4, 8, 12}, 1)>>>>) :
       exit \in {{}, {12}, {14}}, deadline \in {13, 16}, above \in {{4, 8}, {-16, -8, 4, 8}}, needed \in {1, 2, 3}}
TwoFamilies ==
    {Asks(8, fixed, <<<<Listed(0, 20, 24, {6, 14} \union a, {4, 12}, 1)>>, <<Listed(0, 20, 24, {6, 14} \union b, {4, 12}, 1)>>>>) :
       a \in {{8}, {10}, {8, 12}}, b \in {{8}, {10}, {10, 12}}, fixed \in {<<>>, <<Bars(2, {6, 8, 10, 12, 14}, 0)>>}}
SomeRequests == TwoPairs \union TwoContracts \union TwoFamilies

recordVars == <<part, vars, calendarVars, exportVars, clusterVars, rolloverVars, startVars>>

RecordsInit ==
    /\ part \in Parts /\ Init /\ CalendarInit /\ ExportsInit /\ ClustersInit /\ RolloverInit /\ StartInit
    /\ part # "calendar" => calMode = "live"
    /\ part # "exports" => Len(life) = 4 /\ life[1].kind = "ACK"
    /\ part # "clusters" => Len(stream) = 4
    /\ part # "rollover" => catalog = {Paper(30, 0, 0, 6, 0)}
    /\ part # "start" => asked = Asks(8, <<Bars(2, {4, 6, 8, 10}, 0), Bars(4, {4}, 0)>>, <<>>)
RecordsNext ==
    \/ part = "runs" /\ Next /\ UNCHANGED <<part, calendarVars, exportVars, clusterVars, rolloverVars, startVars>>
    \/ part = "calendar" /\ CalendarNext /\ UNCHANGED <<part, vars, exportVars, clusterVars, rolloverVars, startVars>>
    \/ part = "exports" /\ ExportsNext /\ UNCHANGED <<part, vars, calendarVars, clusterVars, rolloverVars, startVars>>
    \/ part = "clusters" /\ ClustersNext /\ UNCHANGED <<part, vars, calendarVars, exportVars, rolloverVars, startVars>>
    \/ part = "rollover" /\ RolloverNext /\ UNCHANGED <<part, vars, calendarVars, exportVars, clusterVars, startVars>>
    \/ part = "start" /\ StartNext /\ UNCHANGED <<part, vars, calendarVars, exportVars, clusterVars, rolloverVars>>
RecordsSpec == RecordsInit /\ [][RecordsNext]_recordVars

(* What is read again is what was written: the phase and the bars due follow   *)
(* the newest day, the files the trades, the copy the stream, the contract in  *)
(* force the catalogue and the passages that are stored.                       *)
RecordsAgree ==
    /\ part # "runs" => CalendarTypeOK /\ ExportsTypeOK /\ ClustersTypeOK /\ RolloverTypeOK /\ StartTypeOK
    /\ part = "calendar" => PhaseHolds /\ DueIsExact /\ ClosedIsProved /\ CutoffIsTradable
    /\ part = "exports" => FilesAreCurrent /\ FilesAreTrue /\ AuditIsWhole
    /\ part = "clusters" => AckedIsStored /\ CopyIsWhole /\ HistoryAgrees
    /\ part = "rollover" => ChainIsExact /\ OneContract /\ GrowthIsOwn /\ PassagesInOrder /\ DeadlineHolds /\ OneBarSuffices
    /\ part = "start" => StartIsPlayable /\ ShiftIsNeeded /\ WarmIsWhole /\ EndIsWhole /\ ExitIsThere /\ StopReachesRun
                          /\ FixedConverges
=============================================================================
