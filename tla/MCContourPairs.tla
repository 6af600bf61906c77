--------------------------- MODULE MCContourPairs ---------------------------
(* The robot's control of the contour, the contour's own, the lock of its      *)
(* directory and the completeness of one of its live pairs, explored side by   *)
(* side: part says which.                                                      *)
EXTENDS ContourControl, PairCoverage, LaunchControl, RuntimeLock, TLC
CONSTANTS Parts, v1
VARIABLE part

Symmetry == Permutations(Calls) \cup Permutations(Versions)
OneThenTwo == <<1, 2>>
TwoThenFour == <<2, 4>>
Mixed(p) == [m \in 0 .. ClockEnd |-> CASE m = 3 -> "late" [] m \in {4, 5} -> "quiet" [] m \in {2 - p, 6} -> "lost" [] OTHER -> "traded"]
PairSetup(p, s, l, d, e) == [period |-> p, supply |-> Mixed(p), stream |-> s, lanes |-> l, depths |-> d, events |-> e]
FourSetups == {PairSetup(1, TRUE, TRUE, {2}, {"duty"}), PairSetup(1, TRUE, FALSE, {2}, {"duty"}),
               PairSetup(2, FALSE, TRUE, {1, 3}, {"restart"}), PairSetup(2, FALSE, FALSE, {2}, {"restart", "release"})}

sideVars == <<part, vars, coverageVars, launchVars, lockVars>>
SideInit == /\ part \in Parts /\ Init /\ CoverageInit /\ LaunchInit /\ LockInit
            /\ part # "launch" => version = v1
            /\ part # "coverage" => setup = PairSetup(2, FALSE, TRUE, {1, 3}, {"restart"})
SideNext ==
    \/ part = "contour" /\ Next /\ UNCHANGED <<part, coverageVars, launchVars, lockVars>>
    \/ part = "coverage" /\ CoverageNext /\ UNCHANGED <<part, vars, launchVars, lockVars>>
    \/ part = "launch" /\ LaunchNext /\ UNCHANGED <<part, vars, coverageVars, lockVars>>
    \/ part = "lock" /\ LockNext /\ UNCHANGED <<part, vars, coverageVars, launchVars>>
    \/ (part = "coverage" => moment = ClockEnd) /\ part # "contour"
       /\ UNCHANGED sideVars \* the bounds of the clock, of lives and tries
SideSpec == SideInit /\ [][SideNext]_sideVars

(* The variables of each part keep their types.                                *)
SideTypes == CASE part = "contour" -> TypeOK
               [] part = "coverage" -> CoverageTypeOK
               [] part = "launch" -> LaunchTypeOK
               [] part = "lock" -> LockTypeOK

(* The candles of a pair come to be complete: none is given up too early, no   *)
(* request is dropped, no hole forgotten.                                      *)
PairComesComplete ==
    part = "coverage" => AbsentIsEarned /\ NeedIsServed /\ HolesAreAttended
=============================================================================
