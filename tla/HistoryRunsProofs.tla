------------------------- MODULE HistoryRunsProofs -------------------------
(***************************************************************************)
(* Proofs about HistoryRuns for any number of runs, slots and restarts, and *)
(* about HistoryStart, which a run of history begins with.                 *)
(*                                                                         *)
(* The limit is counted by _fill and taken by _launch much later, and it   *)
(* must survive the death of the robot: recover() adopts whatever it       *)
(* finds.  So the invariant counts the slot the queue thread is about to   *)
(* take, and while the robot is down it counts the processes that the next *)
(* start may adopt.  A process may well escape the robot: recover()        *)
(* cancels a row that is starting and whose process lives.  The invariant  *)
(* says that the row of such a process can never become active again, so   *)
(* that no later start adopts it.                                          *)
(***************************************************************************)
EXTENDS HistoryRuns, HistoryStart, FiniteSetTheorems, TLAPS

\* The runs that hold a slot, the one on its way through _launch included.
Slots == IF thread.at \in {"claim", "prepare", "check", "register"}
         THEN Tracked \cup {thread.run} ELSE Tracked

\* The processes recover() would adopt.
Survivors == {r \in Runs : Alive(r) /\ state[r] \in {"running", "stopping"}}

\* A live process nobody in the robot knows of.
Orphan(r) == Alive(r) /\ r \notin Tracked

\* The threads of the robot hold runs only while it serves.
ThreadsOK ==
  /\ thread.at # "idle" => thread.run \in Runs
  /\ call.at # "idle" => call.run \in Runs
  /\ robot \notin Serving => /\ thread.at = "idle" /\ call.at = "idle"
                             /\ signal = {} /\ await = {}
  /\ robot = "down" => Tracked = {}

\* Only a run that reached start() has a process and a watcher.
LaunchOrder ==
  /\ \A r \in Runs : state[r] \in {"absent", "queued"} => child[r] = "none"
  /\ \A r \in Runs : child[r] = "none" => watcher[r] = "none"
  /\ thread.at \in {"claim", "prepare", "check", "cancel", "register", "start"} => child[thread.run] = "none"
  /\ thread.at \notin {"idle", "claim"} => state[thread.run] \notin {"absent", "queued"}
  /\ thread.at = "start" => thread.run \in Tracked

\* No writer of this robot's life will touch the row of an orphan.
OrphanSettled ==
  /\ robot \in Serving => \A r \in Runs : Orphan(r) =>
       /\ ~ActiveRow(r)
       /\ thread.at # "idle" => thread.run # r
       /\ call.at # "idle" => call.run # r
       /\ r \notin signal
  /\ robot = "recovering" => \A r \in Runs : Orphan(r) /\ ActiveRow(r) => r \in pending

\* The limit, with what is about to be taken or may be adopted.
LimitKept ==
  IF robot \in Serving THEN Cardinality(Slots) <= MaxRuns
  ELSE Cardinality(Tracked \cup Survivors) <= MaxRuns

IInv == TypeOK /\ ThreadsOK /\ LaunchOrder /\ OrphanSettled /\ LimitKept

-----------------------------------------------------------------------------
(* Cardinality facts.                                                      *)

\* Fewer slots are never more than the limit.
LEMMA SmallerFits ==
  ASSUME NEW S \in SUBSET Runs, NEW T, T \subseteq S, Cardinality(S) <= MaxRuns
  PROVE  Cardinality(T) <= MaxRuns
<1>1. IsFiniteSet(S)
  BY RunsAssumption, FS_Subset
<1>2. IsFiniteSet(T) /\ Cardinality(T) <= Cardinality(S)
  BY <1>1, FS_Subset
<1>3. Cardinality(S) \in Nat /\ Cardinality(T) \in Nat
  BY <1>1, <1>2, FS_CardinalityType
<1> QED
  BY <1>2, <1>3, MaxRunsAssumption

\* A free slot may be taken.
LEMMA OneMoreFits ==
  ASSUME NEW S \in SUBSET Runs, NEW r \in Runs, Cardinality(S) < MaxRuns
  PROVE  Cardinality(S \cup {r}) <= MaxRuns
<1>1. IsFiniteSet(S)
  BY RunsAssumption, FS_Subset
<1>2. Cardinality(S) \in Nat
  BY <1>1, FS_CardinalityType
<1>3. Cardinality(S \cup {r}) = Cardinality(S) \/ Cardinality(S \cup {r}) = Cardinality(S) + 1
  BY <1>1, FS_AddElement
<1> QED
  BY <1>2, <1>3, MaxRunsAssumption

-----------------------------------------------------------------------------
LEMMA InitIInv == Init => IInv
<1> SUFFICES ASSUME Init PROVE IInv
  OBVIOUS
<1>1. TypeOK
  BY MaxStartsAssumption DEF Init, TypeOK, Idle, RunStates, ActiveStates, RobotPhases, QueueSteps, CallSteps, ChildStates
<1>2. ThreadsOK /\ LaunchOrder /\ OrphanSettled
  BY DEF Init, ThreadsOK, LaunchOrder, OrphanSettled, Idle, Serving, Tracked, Orphan, Alive, LiveChild
<1>3. Tracked \cup Survivors = {}
  BY DEF Init, Tracked, Survivors, Alive, LiveChild
<1>4. Cardinality(Tracked \cup Survivors) = 0
  BY <1>3, FS_EmptySet
<1>5. LimitKept
  BY <1>4, MaxRunsAssumption DEF Init, LimitKept, Serving
<1> QED
  BY <1>1, <1>2, <1>5 DEF IInv

\* Asking a process to stop keeps the types of what it writes.
LEMMA RequestStopTypes ==
  ASSUME TypeOK, NEW r \in Runs, RequestStop(r)
  PROVE  stopping' \in [Runs -> BOOLEAN] /\ stdin' \in [Runs -> BOOLEAN]
<1>1. CASE watcher[r] # "waiting"
  BY <1>1 DEF RequestStop, TypeOK
<1>2. CASE watcher[r] = "waiting"
  <2>1. stopping' = [stopping EXCEPT ![r] = TRUE]
    BY <1>2 DEF RequestStop
  <2>2. stdin' = stdin \/ stdin' = [stdin EXCEPT ![r] = TRUE]
    BY <1>2 DEF RequestStop, TypeOK
  <2> QED
    BY <2>1, <2>2 DEF TypeOK
<1> QED
  BY <1>1, <1>2

\* Every step keeps the types.
LEMMA TypeStep == IInv /\ [Next]_vars => TypeOK'
<1> SUFFICES ASSUME IInv, [Next]_vars PROVE TypeOK'
  OBVIOUS
<1> USE DEF IInv, TypeOK, ThreadsOK, Idle, RunStates, ActiveStates, FinishedStates, RobotPhases, QueueSteps, CallSteps, ChildStates, LiveChild, Tracked, vars, rowVars, robotVars, procVars, childVars
<1>1. CASE RobotStart
  BY <1>1, MaxStartsAssumption DEF RobotStart
<1>2. CASE RobotUp
  BY <1>2 DEF RobotUp
<1>3. CASE StartRefused
  BY <1>3 DEF StartRefused, ProcessGone
<1>4. CASE PulseStop
  BY <1>4 DEF PulseStop
<1>5. CASE CloseHalt
  BY <1>5 DEF CloseHalt
<1>6. CASE CloseSnapshot
  BY <1>6 DEF CloseSnapshot
<1>7. CASE RobotExit
  BY <1>7 DEF RobotExit, ProcessGone
<1>8. CASE RobotCrash
  BY <1>8 DEF RobotCrash, ProcessGone
<1>9. CASE StopCancel
  BY <1>9 DEF StopCancel
<1>10. CASE StopMark
  BY <1>10 DEF StopMark
<1>11. CASE StopSignal
  BY <1>11, RequestStopTypes DEF StopSignal
<1>12. CASE FillPick
  BY <1>12 DEF FillPick, FirstQueued
<1>13. CASE LaunchClaim
  BY <1>13 DEF LaunchClaim, Step, WriteState
<1>14. CASE LaunchPrepare
  BY <1>14 DEF LaunchPrepare, Step, WriteState
<1>15. CASE LaunchRaises
  BY <1>15 DEF LaunchRaises, Step, WriteState
<1>16. CASE LaunchCheck
  BY <1>16 DEF LaunchCheck, Step, WriteState
<1>17. CASE LaunchCancel
  BY <1>17 DEF LaunchCancel, Step, WriteState
<1>18. CASE LaunchRegister
  BY <1>18 DEF LaunchRegister, Step, WriteState
<1>19. CASE LaunchStart
  BY <1>19 DEF LaunchStart, Step, WriteState
<1>20. CASE LaunchFails
  BY <1>20 DEF LaunchFails, Step, WriteState
<1>21. CASE LaunchRecord
  BY <1>21 DEF LaunchRecord, Step, WriteState
<1>22. ASSUME NEW r \in Runs, RecoverQueued(r) PROVE TypeOK'
  BY <1>22 DEF RecoverQueued
<1>23. ASSUME NEW r \in Runs, RecoverAdopt(r) PROVE TypeOK'
  BY <1>23 DEF RecoverAdopt
<1>24. ASSUME NEW r \in Runs, RecoverInterrupt(r) PROVE TypeOK'
  BY <1>24 DEF RecoverInterrupt
<1>25. ASSUME NEW r \in Runs, CloseSignal(r) PROVE TypeOK'
  BY <1>25, RequestStopTypes DEF CloseSignal
<1>26. ASSUME NEW r \in Runs, CloseStop(r) PROVE TypeOK'
  BY <1>26, RequestStopTypes DEF CloseStop
<1>27. ASSUME NEW r \in Runs, CloseKill(r) PROVE TypeOK'
  BY <1>27 DEF CloseKill
<1>28. ASSUME NEW r \in Runs, CloseReturn(r) PROVE TypeOK'
  BY <1>28 DEF CloseReturn
<1>29. ASSUME NEW r \in Runs, Submit(r) PROVE TypeOK'
  BY <1>29 DEF Submit
<1>30. ASSUME NEW r \in Runs, StopRead(r) PROVE TypeOK'
  BY <1>30 DEF StopRead
<1>31. ASSUME NEW r \in Runs, ExitSeen(r) PROVE TypeOK'
  BY <1>31 DEF ExitSeen
<1>32. ASSUME NEW r \in Runs, ExitRecord(r) PROVE TypeOK'
  BY <1>32 DEF ExitRecord, Outcome
<1>33. ASSUME NEW r \in Runs, ChildBoot(r) PROVE TypeOK'
  BY <1>33 DEF ChildBoot
<1>34. ASSUME NEW r \in Runs, ChildCheck(r) PROVE TypeOK'
  BY <1>34 DEF ChildCheck
<1>35. ASSUME NEW r \in Runs, ChildStdin(r) PROVE TypeOK'
  BY <1>35 DEF ChildStdin
<1>36. ASSUME NEW r \in Runs, ChildStops(r) PROVE TypeOK'
  BY <1>36 DEF ChildStops
<1>37. ASSUME NEW r \in Runs, ChildEnds(r) PROVE TypeOK'
  BY <1>37 DEF ChildEnds
<1>38. ASSUME NEW r \in Runs, ChildDies(r) PROVE TypeOK'
  BY <1>38 DEF ChildDies
<1>39. CASE UNCHANGED vars
  BY <1>39
<1> QED
  BY <1>1, <1>2, <1>3, <1>4, <1>5, <1>6, <1>7, <1>8, <1>9, <1>10, <1>11, <1>12, <1>13, <1>14, <1>15, <1>16, <1>17, <1>18, <1>19, <1>20, <1>21, <1>22, <1>23, <1>24, <1>25, <1>26, <1>27, <1>28, <1>29, <1>30, <1>31, <1>32, <1>33, <1>34, <1>35, <1>36, <1>37, <1>38, <1>39 DEF Next, RobotStep, ApiStep, QueueStep, WatcherStep, ChildStep

\* Every step keeps the threads inside a serving robot.
LEMMA ThreadsStep == IInv /\ [Next]_vars => ThreadsOK'
<1> SUFFICES ASSUME IInv, [Next]_vars PROVE ThreadsOK'
  OBVIOUS
<1> USE DEF IInv, TypeOK, ThreadsOK, Idle, Tracked, Serving, vars, rowVars, robotVars, procVars, childVars
<1>1. CASE RobotStart
  BY <1>1 DEF RobotStart
<1>2. CASE RobotUp
  BY <1>2 DEF RobotUp
<1>3. CASE StartRefused
  BY <1>3 DEF StartRefused, ProcessGone
<1>4. CASE PulseStop
  BY <1>4 DEF PulseStop
<1>5. CASE CloseHalt
  BY <1>5 DEF CloseHalt
<1>6. CASE CloseSnapshot
  BY <1>6 DEF CloseSnapshot
<1>7. CASE RobotExit
  BY <1>7 DEF RobotExit, ProcessGone
<1>8. CASE RobotCrash
  BY <1>8 DEF RobotCrash, ProcessGone
<1>9. CASE StopCancel
  BY <1>9 DEF StopCancel
<1>10. CASE StopMark
  BY <1>10 DEF StopMark
<1>11. CASE StopSignal
  BY <1>11 DEF StopSignal, RequestStop
<1>12. CASE FillPick
  BY <1>12 DEF FillPick, FirstQueued
<1>13. CASE LaunchClaim
  BY <1>13 DEF LaunchClaim, Step, WriteState
<1>14. CASE LaunchPrepare
  BY <1>14 DEF LaunchPrepare, Step, WriteState
<1>15. CASE LaunchRaises
  BY <1>15 DEF LaunchRaises, Step, WriteState
<1>16. CASE LaunchCheck
  BY <1>16 DEF LaunchCheck, Step, WriteState
<1>17. CASE LaunchCancel
  BY <1>17 DEF LaunchCancel, Step, WriteState
<1>18. CASE LaunchRegister
  BY <1>18 DEF LaunchRegister, Step, WriteState
<1>19. CASE LaunchStart
  BY <1>19 DEF LaunchStart, Step, WriteState
<1>20. CASE LaunchFails
  BY <1>20 DEF LaunchFails, Step, WriteState
<1>21. CASE LaunchRecord
  BY <1>21 DEF LaunchRecord, Step, WriteState
<1>22. ASSUME NEW r \in Runs, RecoverQueued(r) PROVE ThreadsOK'
  BY <1>22 DEF RecoverQueued
<1>23. ASSUME NEW r \in Runs, RecoverAdopt(r) PROVE ThreadsOK'
  BY <1>23 DEF RecoverAdopt
<1>24. ASSUME NEW r \in Runs, RecoverInterrupt(r) PROVE ThreadsOK'
  BY <1>24 DEF RecoverInterrupt
<1>25. ASSUME NEW r \in Runs, CloseSignal(r) PROVE ThreadsOK'
  BY <1>25 DEF CloseSignal, RequestStop
<1>26. ASSUME NEW r \in Runs, CloseStop(r) PROVE ThreadsOK'
  BY <1>26 DEF CloseStop, RequestStop
<1>27. ASSUME NEW r \in Runs, CloseKill(r) PROVE ThreadsOK'
  BY <1>27 DEF CloseKill
<1>28. ASSUME NEW r \in Runs, CloseReturn(r) PROVE ThreadsOK'
  BY <1>28 DEF CloseReturn
<1>29. ASSUME NEW r \in Runs, Submit(r) PROVE ThreadsOK'
  BY <1>29 DEF Submit
<1>30. ASSUME NEW r \in Runs, StopRead(r) PROVE ThreadsOK'
  BY <1>30 DEF StopRead
<1>31. ASSUME NEW r \in Runs, ExitSeen(r) PROVE ThreadsOK'
  BY <1>31 DEF ExitSeen
<1>32. ASSUME NEW r \in Runs, ExitRecord(r) PROVE ThreadsOK'
  BY <1>32 DEF ExitRecord, Outcome
<1>33. ASSUME NEW r \in Runs, ChildBoot(r) PROVE ThreadsOK'
  BY <1>33 DEF ChildBoot
<1>34. ASSUME NEW r \in Runs, ChildCheck(r) PROVE ThreadsOK'
  BY <1>34 DEF ChildCheck
<1>35. ASSUME NEW r \in Runs, ChildStdin(r) PROVE ThreadsOK'
  BY <1>35 DEF ChildStdin
<1>36. ASSUME NEW r \in Runs, ChildStops(r) PROVE ThreadsOK'
  BY <1>36 DEF ChildStops
<1>37. ASSUME NEW r \in Runs, ChildEnds(r) PROVE ThreadsOK'
  BY <1>37 DEF ChildEnds
<1>38. ASSUME NEW r \in Runs, ChildDies(r) PROVE ThreadsOK'
  BY <1>38 DEF ChildDies
<1>39. CASE UNCHANGED vars
  BY <1>39
<1> QED
  BY <1>1, <1>2, <1>3, <1>4, <1>5, <1>6, <1>7, <1>8, <1>9, <1>10, <1>11, <1>12, <1>13, <1>14, <1>15, <1>16, <1>17, <1>18, <1>19, <1>20, <1>21, <1>22, <1>23, <1>24, <1>25, <1>26, <1>27, <1>28, <1>29, <1>30, <1>31, <1>32, <1>33, <1>34, <1>35, <1>36, <1>37, <1>38, <1>39 DEF Next, RobotStep, ApiStep, QueueStep, WatcherStep, ChildStep

\* Every step keeps the order of a launch.
LEMMA LaunchOrderStep == IInv /\ [Next]_vars => LaunchOrder'
<1> SUFFICES ASSUME IInv, [Next]_vars PROVE LaunchOrder'
  OBVIOUS
<1> USE DEF IInv, TypeOK, ThreadsOK, LaunchOrder, Idle, Tracked, Alive, LiveChild, vars, rowVars, robotVars, procVars, childVars
<1>1. CASE RobotStart
  BY <1>1 DEF RobotStart
<1>2. CASE RobotUp
  BY <1>2 DEF RobotUp
<1>3. CASE StartRefused
  BY <1>3 DEF StartRefused, ProcessGone
<1>4. CASE PulseStop
  BY <1>4 DEF PulseStop
<1>5. CASE CloseHalt
  BY <1>5 DEF CloseHalt
<1>6. CASE CloseSnapshot
  BY <1>6 DEF CloseSnapshot
<1>7. CASE RobotExit
  BY <1>7 DEF RobotExit, ProcessGone
<1>8. CASE RobotCrash
  BY <1>8 DEF RobotCrash, ProcessGone
<1>9. CASE StopCancel
  BY <1>9 DEF StopCancel
<1>10. CASE StopMark
  BY <1>10 DEF StopMark
<1>11. CASE StopSignal
  BY <1>11 DEF StopSignal, RequestStop
<1>12. CASE FillPick
  BY <1>12 DEF FillPick, FirstQueued
<1>13. CASE LaunchClaim
  BY <1>13 DEF LaunchClaim, Step, WriteState
<1>14. CASE LaunchPrepare
  BY <1>14 DEF LaunchPrepare, Step, WriteState
<1>15. CASE LaunchRaises
  BY <1>15 DEF LaunchRaises, Step, WriteState
<1>16. CASE LaunchCheck
  BY <1>16 DEF LaunchCheck, Step, WriteState
<1>17. CASE LaunchCancel
  BY <1>17 DEF LaunchCancel, Step, WriteState
<1>18. CASE LaunchRegister
  BY <1>18 DEF LaunchRegister, Step, WriteState
<1>19. CASE LaunchStart
  BY <1>19 DEF LaunchStart, Step, WriteState
<1>20. CASE LaunchFails
  BY <1>20 DEF LaunchFails, Step, WriteState
<1>21. CASE LaunchRecord
  BY <1>21 DEF LaunchRecord, Step, WriteState
<1>22. ASSUME NEW r \in Runs, RecoverQueued(r) PROVE LaunchOrder'
  BY <1>22 DEF RecoverQueued
<1>23. ASSUME NEW r \in Runs, RecoverAdopt(r) PROVE LaunchOrder'
  BY <1>23 DEF RecoverAdopt
<1>24. ASSUME NEW r \in Runs, RecoverInterrupt(r) PROVE LaunchOrder'
  BY <1>24 DEF RecoverInterrupt
<1>25. ASSUME NEW r \in Runs, CloseSignal(r) PROVE LaunchOrder'
  BY <1>25 DEF CloseSignal, RequestStop
<1>26. ASSUME NEW r \in Runs, CloseStop(r) PROVE LaunchOrder'
  BY <1>26 DEF CloseStop, RequestStop
<1>27. ASSUME NEW r \in Runs, CloseKill(r) PROVE LaunchOrder'
  BY <1>27 DEF CloseKill
<1>28. ASSUME NEW r \in Runs, CloseReturn(r) PROVE LaunchOrder'
  BY <1>28 DEF CloseReturn
<1>29. ASSUME NEW r \in Runs, Submit(r) PROVE LaunchOrder'
  BY <1>29 DEF Submit
<1>30. ASSUME NEW r \in Runs, StopRead(r) PROVE LaunchOrder'
  BY <1>30 DEF StopRead
<1>31. ASSUME NEW r \in Runs, ExitSeen(r) PROVE LaunchOrder'
  BY <1>31 DEF ExitSeen
<1>32. ASSUME NEW r \in Runs, ExitRecord(r) PROVE LaunchOrder'
  BY <1>32 DEF ExitRecord, Outcome
<1>33. ASSUME NEW r \in Runs, ChildBoot(r) PROVE LaunchOrder'
  BY <1>33 DEF ChildBoot
<1>34. ASSUME NEW r \in Runs, ChildCheck(r) PROVE LaunchOrder'
  BY <1>34 DEF ChildCheck
<1>35. ASSUME NEW r \in Runs, ChildStdin(r) PROVE LaunchOrder'
  BY <1>35 DEF ChildStdin
<1>36. ASSUME NEW r \in Runs, ChildStops(r) PROVE LaunchOrder'
  BY <1>36 DEF ChildStops
<1>37. ASSUME NEW r \in Runs, ChildEnds(r) PROVE LaunchOrder'
  BY <1>37 DEF ChildEnds
<1>38. ASSUME NEW r \in Runs, ChildDies(r) PROVE LaunchOrder'
  BY <1>38 DEF ChildDies
<1>39. CASE UNCHANGED vars
  BY <1>39
<1> QED
  BY <1>1, <1>2, <1>3, <1>4, <1>5, <1>6, <1>7, <1>8, <1>9, <1>10, <1>11, <1>12, <1>13, <1>14, <1>15, <1>16, <1>17, <1>18, <1>19, <1>20, <1>21, <1>22, <1>23, <1>24, <1>25, <1>26, <1>27, <1>28, <1>29, <1>30, <1>31, <1>32, <1>33, <1>34, <1>35, <1>36, <1>37, <1>38, <1>39 DEF Next, RobotStep, ApiStep, QueueStep, WatcherStep, ChildStep

\* Every step keeps the rows of orphans settled.
LEMMA OrphanStep == IInv /\ [Next]_vars => OrphanSettled'
<1> SUFFICES ASSUME IInv, [Next]_vars PROVE OrphanSettled'
  OBVIOUS
<1> USE DEF IInv, TypeOK, ThreadsOK, LaunchOrder, OrphanSettled, Orphan, ActiveRow, ActiveStates, Idle, Tracked, Alive, LiveChild, Serving, vars, rowVars, robotVars, procVars, childVars
<1>1. CASE RobotStart
  BY <1>1 DEF RobotStart
<1>2. CASE RobotUp
  BY <1>2 DEF RobotUp
<1>3. CASE StartRefused
  BY <1>3 DEF StartRefused, ProcessGone
<1>4. CASE PulseStop
  BY <1>4 DEF PulseStop
<1>5. CASE CloseHalt
  BY <1>5 DEF CloseHalt
<1>6. CASE CloseSnapshot
  BY <1>6 DEF CloseSnapshot
<1>7. CASE RobotExit
  BY <1>7 DEF RobotExit, ProcessGone
<1>8. CASE RobotCrash
  BY <1>8 DEF RobotCrash, ProcessGone
<1>9. CASE StopCancel
  BY <1>9 DEF StopCancel
<1>10. CASE StopMark
  BY <1>10 DEF StopMark
<1>11. CASE StopSignal
  BY <1>11 DEF StopSignal, RequestStop
<1>12. CASE FillPick
  BY <1>12 DEF FillPick, FirstQueued
<1>13. CASE LaunchClaim
  BY <1>13 DEF LaunchClaim, Step, WriteState
<1>14. CASE LaunchPrepare
  BY <1>14 DEF LaunchPrepare, Step, WriteState
<1>15. CASE LaunchRaises
  BY <1>15 DEF LaunchRaises, Step, WriteState
<1>16. CASE LaunchCheck
  BY <1>16 DEF LaunchCheck, Step, WriteState
<1>17. CASE LaunchCancel
  BY <1>17 DEF LaunchCancel, Step, WriteState
<1>18. CASE LaunchRegister
  BY <1>18 DEF LaunchRegister, Step, WriteState
<1>19. CASE LaunchStart
  <2>1. thread.run \in Tracked' /\ robot' = robot /\ robot # "recovering"
    BY <1>19 DEF LaunchStart, Step
  <2>2. \A r \in Runs : Orphan(r)' => Orphan(r) /\ r # thread.run
    BY <1>19, <2>1 DEF LaunchStart, Step
  <2>3. thread'.run = thread.run /\ UNCHANGED <<state, call, signal>>
    BY <1>19 DEF LaunchStart, Step
  <2> QED
    BY <2>1, <2>2, <2>3
<1>20. CASE LaunchFails
  BY <1>20 DEF LaunchFails, Step, WriteState
<1>21. CASE LaunchRecord
  BY <1>21 DEF LaunchRecord, Step, WriteState
<1>22. ASSUME NEW r \in Runs, RecoverQueued(r) PROVE OrphanSettled'
  BY <1>22 DEF RecoverQueued
<1>23. ASSUME NEW r \in Runs, RecoverAdopt(r) PROVE OrphanSettled'
  BY <1>23 DEF RecoverAdopt
<1>24. ASSUME NEW r \in Runs, RecoverInterrupt(r) PROVE OrphanSettled'
  BY <1>24 DEF RecoverInterrupt
<1>25. ASSUME NEW r \in Runs, CloseSignal(r) PROVE OrphanSettled'
  BY <1>25 DEF CloseSignal, RequestStop
<1>26. ASSUME NEW r \in Runs, CloseStop(r) PROVE OrphanSettled'
  BY <1>26 DEF CloseStop, RequestStop
<1>27. ASSUME NEW r \in Runs, CloseKill(r) PROVE OrphanSettled'
  BY <1>27 DEF CloseKill
<1>28. ASSUME NEW r \in Runs, CloseReturn(r) PROVE OrphanSettled'
  BY <1>28 DEF CloseReturn
<1>29. ASSUME NEW r \in Runs, Submit(r) PROVE OrphanSettled'
  BY <1>29 DEF Submit
<1>30. ASSUME NEW r \in Runs, StopRead(r) PROVE OrphanSettled'
  BY <1>30 DEF StopRead
<1>31. ASSUME NEW r \in Runs, ExitSeen(r) PROVE OrphanSettled'
  BY <1>31 DEF ExitSeen
<1>32. ASSUME NEW r \in Runs, ExitRecord(r) PROVE OrphanSettled'
  BY <1>32 DEF ExitRecord, Outcome
<1>33. ASSUME NEW r \in Runs, ChildBoot(r) PROVE OrphanSettled'
  BY <1>33 DEF ChildBoot
<1>34. ASSUME NEW r \in Runs, ChildCheck(r) PROVE OrphanSettled'
  BY <1>34 DEF ChildCheck
<1>35. ASSUME NEW r \in Runs, ChildStdin(r) PROVE OrphanSettled'
  BY <1>35 DEF ChildStdin
<1>36. ASSUME NEW r \in Runs, ChildStops(r) PROVE OrphanSettled'
  BY <1>36 DEF ChildStops
<1>37. ASSUME NEW r \in Runs, ChildEnds(r) PROVE OrphanSettled'
  BY <1>37 DEF ChildEnds
<1>38. ASSUME NEW r \in Runs, ChildDies(r) PROVE OrphanSettled'
  BY <1>38 DEF ChildDies
<1>39. CASE UNCHANGED vars
  BY <1>39
<1> QED
  BY <1>1, <1>2, <1>3, <1>4, <1>5, <1>6, <1>7, <1>8, <1>9, <1>10, <1>11, <1>12, <1>13, <1>14, <1>15, <1>16, <1>17, <1>18, <1>19, <1>20, <1>21, <1>22, <1>23, <1>24, <1>25, <1>26, <1>27, <1>28, <1>29, <1>30, <1>31, <1>32, <1>33, <1>34, <1>35, <1>36, <1>37, <1>38, <1>39 DEF Next, RobotStep, ApiStep, QueueStep, WatcherStep, ChildStep

-----------------------------------------------------------------------------
(* The limit.                                                              *)

\* While the robot serves, what it would adopt it already holds.
LEMMA SurvivorsTracked ==
  ASSUME IInv, robot \in Serving
  PROVE  Survivors \subseteq Tracked
BY DEF IInv, OrphanSettled, Orphan, Survivors, ActiveRow, ActiveStates

\* A step inside a serving robot that takes no new slot keeps the limit.
LEMMA NoNewSlot ==
  ASSUME IInv, robot \in Serving, robot' \in Serving, Slots' \subseteq Slots
  PROVE  LimitKept'
<1>1. Slots \in SUBSET Runs /\ Cardinality(Slots) <= MaxRuns
  BY DEF IInv, LimitKept, Slots, Tracked, ThreadsOK
<1>2. Cardinality(Slots') <= MaxRuns
  BY <1>1, SmallerFits
<1> QED
  BY <1>2 DEF LimitKept

\* A step outside a serving robot that adopts nothing new keeps the limit.
LEMMA NoNewSurvivor ==
  ASSUME IInv, robot \notin Serving, robot' \notin Serving,
         (Tracked \cup Survivors)' \subseteq Tracked \cup Survivors
  PROVE  LimitKept'
<1>1. Tracked \cup Survivors \in SUBSET Runs /\ Cardinality(Tracked \cup Survivors) <= MaxRuns
  BY DEF IInv, LimitKept, Survivors, Tracked
<1>2. Cardinality((Tracked \cup Survivors)') <= MaxRuns
  BY <1>1, SmallerFits
<1> QED
  BY <1>2 DEF LimitKept

\* When the robot dies, what it held bounds what the next start may adopt.
LEMMA RobotGone ==
  ASSUME IInv, ProcessGone, robot' = "down", UNCHANGED <<state, child>>
  PROVE  LimitKept'
<1>1. (Tracked \cup Survivors)' = Survivors
  BY DEF ProcessGone, Tracked, Survivors, Alive
<1>2. CASE robot \in Serving
  <2>1. Survivors \subseteq Slots
    BY <1>2, SurvivorsTracked DEF Slots
  <2>2. Slots \in SUBSET Runs /\ Cardinality(Slots) <= MaxRuns
    BY <1>2 DEF IInv, LimitKept, Slots, Tracked, ThreadsOK
  <2>3. Cardinality(Survivors) <= MaxRuns
    BY <2>1, <2>2, SmallerFits
  <2> QED
    BY <1>1, <2>3 DEF LimitKept, Serving
<1>3. CASE robot \notin Serving
  BY <1>1, <1>3, NoNewSurvivor DEF Serving
<1> QED
  BY <1>2, <1>3

\* When the robot comes up, every slot is one it adopted.
LEMMA RobotComesUp == IInv /\ RobotUp => LimitKept'
<1> SUFFICES ASSUME IInv, RobotUp PROVE LimitKept'
  OBVIOUS
<1>1. Slots' = Tracked /\ robot' \in Serving
  BY DEF RobotUp, IInv, ThreadsOK, Slots, Tracked, Serving, procVars
<1>2. Tracked \cup Survivors \in SUBSET Runs /\ Cardinality(Tracked \cup Survivors) <= MaxRuns
  BY DEF RobotUp, IInv, LimitKept, Survivors, Tracked, Serving
<1>3. Cardinality(Tracked) <= MaxRuns
  BY <1>2, SmallerFits
<1> QED
  BY <1>1, <1>3 DEF LimitKept

\* The slot of a picked run is counted from the moment it was free.
LEMMA PickFits == IInv /\ FillPick => LimitKept'
<1> SUFFICES ASSUME IInv, FillPick PROVE LimitKept'
  OBVIOUS
<1>1. PICK r \in Runs : thread' = [at |-> "claim", run |-> r]
  BY DEF FillPick
<1>2. Slots' = Tracked \cup {r} /\ robot' \in Serving
  BY <1>1 DEF FillPick, Slots, Tracked, Serving, procVars, robotVars
<1>3. Cardinality(Tracked \cup {r}) <= MaxRuns
  BY OneMoreFits DEF FillPick, Tracked
<1> QED
  BY <1>2, <1>3 DEF LimitKept

\* Every step keeps the limit.
LEMMA LimitStep == IInv /\ [Next]_vars => LimitKept'
<1> SUFFICES ASSUME IInv, [Next]_vars PROVE LimitKept'
  OBVIOUS
<1> USE DEF Slots, Tracked, Survivors, Alive, Serving, vars, rowVars, robotVars, procVars, childVars
<1>1. CASE RobotStart
  BY <1>1, NoNewSurvivor DEF RobotStart
<1>2. CASE StartRefused
  BY <1>2, RobotGone DEF StartRefused
<1>3. CASE RobotCrash
  BY <1>3, RobotGone DEF RobotCrash
<1>4. CASE RobotExit
  BY <1>4, RobotGone DEF RobotExit
<1>5. CASE RobotUp
  BY <1>5, RobotComesUp
<1>6. CASE FillPick
  BY <1>6, PickFits
<1>7. CASE PulseStop
  BY <1>7, NoNewSlot DEF PulseStop, IInv, ThreadsOK, TypeOK, Idle
<1>8. CASE CloseHalt
  BY <1>8, NoNewSlot DEF CloseHalt, IInv, ThreadsOK, TypeOK, Idle
<1>9. CASE CloseSnapshot
  BY <1>9, NoNewSlot DEF CloseSnapshot, IInv, ThreadsOK, TypeOK, Idle
<1>10. CASE StopCancel
  BY <1>10, NoNewSlot DEF StopCancel, IInv, ThreadsOK, TypeOK, Idle
<1>11. CASE StopMark
  BY <1>11, NoNewSlot DEF StopMark, IInv, ThreadsOK, TypeOK, Idle
<1>12. CASE StopSignal
  BY <1>12, NoNewSlot DEF StopSignal, IInv, ThreadsOK, TypeOK, Idle
<1>13. CASE LaunchClaim
  BY <1>13, NoNewSlot DEF LaunchClaim, Step, IInv, ThreadsOK, TypeOK, Idle
<1>14. CASE LaunchPrepare
  BY <1>14, NoNewSlot DEF LaunchPrepare, Step, IInv, ThreadsOK, TypeOK, Idle
<1>15. CASE LaunchRaises
  BY <1>15, NoNewSlot DEF LaunchRaises, Step, IInv, ThreadsOK, TypeOK, Idle
<1>16. CASE LaunchCheck
  BY <1>16, NoNewSlot DEF LaunchCheck, Step, IInv, ThreadsOK, TypeOK, Idle
<1>17. CASE LaunchCancel
  BY <1>17, NoNewSlot DEF LaunchCancel, Step, IInv, ThreadsOK, TypeOK, Idle
<1>18. CASE LaunchRegister
  BY <1>18, NoNewSlot DEF LaunchRegister, Step, IInv, ThreadsOK, TypeOK, Idle
<1>19. CASE LaunchStart
  BY <1>19, NoNewSlot DEF LaunchStart, Step, IInv, ThreadsOK, TypeOK, Idle
<1>20. CASE LaunchFails
  BY <1>20, NoNewSlot DEF LaunchFails, Step, IInv, ThreadsOK, TypeOK, Idle
<1>21. CASE LaunchRecord
  BY <1>21, NoNewSlot DEF LaunchRecord, Step, IInv, ThreadsOK, TypeOK, Idle
<1>22. ASSUME NEW r \in Runs, CloseSignal(r) PROVE LimitKept'
  BY <1>22, NoNewSlot DEF CloseSignal
<1>23. ASSUME NEW r \in Runs, CloseStop(r) PROVE LimitKept'
  BY <1>23, NoNewSlot DEF CloseStop
<1>24. ASSUME NEW r \in Runs, CloseKill(r) PROVE LimitKept'
  BY <1>24, NoNewSlot DEF CloseKill
<1>25. ASSUME NEW r \in Runs, CloseReturn(r) PROVE LimitKept'
  BY <1>25, NoNewSlot DEF CloseReturn
<1>26. ASSUME NEW r \in Runs, Submit(r) PROVE LimitKept'
  BY <1>26, NoNewSlot DEF Submit
<1>27. ASSUME NEW r \in Runs, StopRead(r) PROVE LimitKept'
  BY <1>27, NoNewSlot DEF StopRead
<1>28. ASSUME NEW r \in Runs, RecoverQueued(r) PROVE LimitKept'
  BY <1>28, NoNewSurvivor DEF RecoverQueued, IInv, TypeOK, LiveChild
<1>29. ASSUME NEW r \in Runs, RecoverAdopt(r) PROVE LimitKept'
  BY <1>29, NoNewSurvivor DEF RecoverAdopt, IInv, TypeOK, LiveChild
<1>30. ASSUME NEW r \in Runs, RecoverInterrupt(r) PROVE LimitKept'
  BY <1>30, NoNewSurvivor DEF RecoverInterrupt, IInv, TypeOK, LiveChild
<1>31. ASSUME NEW r \in Runs, ExitSeen(r) PROVE LimitKept'
  BY <1>31, NoNewSlot, NoNewSurvivor DEF ExitSeen, IInv, TypeOK, LiveChild, RunStates
<1>32. ASSUME NEW r \in Runs, ExitRecord(r) PROVE LimitKept'
  BY <1>32, NoNewSlot, NoNewSurvivor DEF ExitRecord, Outcome, IInv, TypeOK
<1>33. ASSUME NEW r \in Runs, ChildBoot(r) PROVE LimitKept'
  BY <1>33, NoNewSlot, NoNewSurvivor DEF ChildBoot, IInv, TypeOK, LiveChild, RunStates
<1>34. ASSUME NEW r \in Runs, ChildCheck(r) PROVE LimitKept'
  BY <1>34, NoNewSlot, NoNewSurvivor DEF ChildCheck, IInv, TypeOK, LiveChild, RunStates
<1>35. ASSUME NEW r \in Runs, ChildStdin(r) PROVE LimitKept'
  BY <1>35, NoNewSlot, NoNewSurvivor DEF ChildStdin, IInv, TypeOK, LiveChild, RunStates
<1>36. ASSUME NEW r \in Runs, ChildStops(r) PROVE LimitKept'
  BY <1>36, NoNewSlot, NoNewSurvivor DEF ChildStops, IInv, TypeOK, LiveChild, RunStates
<1>37. ASSUME NEW r \in Runs, ChildEnds(r) PROVE LimitKept'
  BY <1>37, NoNewSlot, NoNewSurvivor DEF ChildEnds, IInv, TypeOK, LiveChild, RunStates
<1>38. ASSUME NEW r \in Runs, ChildDies(r) PROVE LimitKept'
  BY <1>38, NoNewSlot, NoNewSurvivor DEF ChildDies, IInv, TypeOK, LiveChild, RunStates
<1>39. CASE UNCHANGED vars
  BY <1>39 DEF IInv, LimitKept
<1> QED
  BY <1>1, <1>2, <1>3, <1>4, <1>5, <1>6, <1>7, <1>8, <1>9, <1>10, <1>11, <1>12, <1>13, <1>14, <1>15, <1>16, <1>17, <1>18, <1>19, <1>20, <1>21, <1>22, <1>23, <1>24, <1>25, <1>26, <1>27, <1>28, <1>29, <1>30, <1>31, <1>32, <1>33, <1>34, <1>35, <1>36, <1>37, <1>38, <1>39 DEF Next, RobotStep, ApiStep, QueueStep, WatcherStep, ChildStep

-----------------------------------------------------------------------------
\* The invariant is inductive.
LEMMA InductiveIInv == IInv /\ [Next]_vars => IInv'
BY TypeStep, ThreadsStep, LaunchOrderStep, OrphanStep, LimitStep DEF IInv

\* The invariant holds in every reachable state.
THEOREM SpecIInv == Spec => []IInv
BY InitIInv, InductiveIInv, PTL DEF Spec

\* The types hold for any number of runs and restarts.
THEOREM TypeCorrect == Spec => []TypeOK
<1>1. IInv => TypeOK
  BY DEF IInv
<1> QED
  BY <1>1, SpecIInv, PTL

\* No interleaving of the queue thread, the watchers, the API, crashes and
\* restarts makes the robot hold more processes than max_history_runs.
THEOREM SlotLimitHolds == Spec => []SlotLimit
<1>1. IInv => SlotLimit
  <2> SUFFICES ASSUME IInv PROVE SlotLimit
    OBVIOUS
  <2>1. Tracked \subseteq Slots /\ Tracked \subseteq Tracked \cup Survivors
    BY DEF Slots
  <2>2. Slots \in SUBSET Runs /\ Tracked \cup Survivors \in SUBSET Runs
    BY DEF IInv, ThreadsOK, Slots, Tracked, Survivors
  <2>3. Cardinality(Slots) <= MaxRuns \/ Cardinality(Tracked \cup Survivors) <= MaxRuns
    BY DEF IInv, LimitKept
  <2> QED
    BY <2>1, <2>2, <2>3, SmallerFits DEF SlotLimit
<1> QED
  BY <1>1, SpecIInv, PTL

\* A run that has or had a process never gets another one.
THEOREM NeverRelaunchedHolds == Spec => NeverRelaunched
<1>1. IInv /\ [Next]_vars => [\A r \in Runs : child[r] \notin {"none", "boot"} => child'[r] # "boot"]_vars
  <2> SUFFICES ASSUME IInv, Next, NEW r \in Runs, child[r] \notin {"none", "boot"}
               PROVE  child'[r] # "boot"
    OBVIOUS
  <2>1. CASE LaunchStart
    BY <2>1 DEF LaunchStart, Step, IInv, LaunchOrder, TypeOK
  <2>2. CASE \E q \in Runs : \/ ChildBoot(q) \/ ChildCheck(q) \/ ChildStdin(q) \/ ChildStops(q)
                             \/ ChildEnds(q) \/ ChildDies(q) \/ CloseKill(q)
    BY <2>2 DEF ChildBoot, ChildCheck, ChildStdin, ChildStops, ChildEnds, ChildDies, CloseKill, IInv, TypeOK
  <2>3. CASE UNCHANGED child
    BY <2>3
  <2> QED
    BY <2>1, <2>2, <2>3 DEF Next, RobotStep, ApiStep, QueueStep, WatcherStep, ChildStep, childVars,
       RobotStart, RobotUp, StartRefused, PulseStop, CloseHalt, CloseSnapshot, RobotExit, RobotCrash,
       RecoverQueued, RecoverAdopt, RecoverInterrupt, CloseSignal, CloseStop, CloseReturn,
       StopCancel, StopMark, StopSignal, Submit, StopRead, FillPick, LaunchClaim, LaunchPrepare,
       LaunchRaises, LaunchCheck, LaunchCancel, LaunchRegister, LaunchFails, LaunchRecord, ExitSeen, ExitRecord
<1> QED
  BY <1>1, SpecIInv, PTL DEF Spec, NeverRelaunched

-----------------------------------------------------------------------------
(* What is over is accounted for.                                          *)

\* A slot belongs to the queue thread until start() and to a watcher after it.
SlotHeld == \A r \in Tracked : (thread.at = "start" /\ thread.run = r) \/ watcher[r] = "waiting"

\* Whoever asks a process to stop has written the flag into its row.
StopsRecorded ==
  /\ \A r \in Runs : stopping[r] => stopFlag[r]
  /\ call.at = "signal" => stopFlag[call.run]
  /\ \A r \in await \ signal : stopFlag[r]

\* The second part of EndIsAccounted.
OutcomeEarned ==
  \A r \in Runs : /\ state[r] \in {"finished", "stopped"} => child[r] = "ok"
                  /\ state[r] = "stopped" => stopFlag[r]

\* recover() has still to look at an active row, or has given it a watcher.
RowsWatched ==
  robot = "recovering" => \A r \in Runs : ActiveRow(r) => r \in pending \/ watcher[r] # "none"

\* Every step keeps the slots held.
LEMMA SlotStep == IInv /\ SlotHeld /\ [Next]_vars => SlotHeld'
<1> SUFFICES ASSUME IInv, SlotHeld, [Next]_vars PROVE SlotHeld'
  OBVIOUS
<1> USE DEF IInv, TypeOK, ThreadsOK, LaunchOrder, Idle, Tracked, Alive, LiveChild, Serving, vars, rowVars, robotVars, procVars, childVars, SlotHeld
<1>1. CASE RobotStart
  BY <1>1 DEF RobotStart
<1>2. CASE RobotUp
  BY <1>2 DEF RobotUp
<1>3. CASE StartRefused
  BY <1>3 DEF StartRefused, ProcessGone
<1>4. CASE PulseStop
  BY <1>4 DEF PulseStop
<1>5. CASE CloseHalt
  BY <1>5 DEF CloseHalt
<1>6. CASE CloseSnapshot
  BY <1>6 DEF CloseSnapshot
<1>7. CASE RobotExit
  BY <1>7 DEF RobotExit, ProcessGone
<1>8. CASE RobotCrash
  BY <1>8 DEF RobotCrash, ProcessGone
<1>9. CASE StopCancel
  BY <1>9 DEF StopCancel
<1>10. CASE StopMark
  BY <1>10 DEF StopMark
<1>11. CASE StopSignal
  BY <1>11 DEF StopSignal, RequestStop
<1>12. CASE FillPick
  BY <1>12 DEF FillPick, FirstQueued
<1>13. CASE LaunchClaim
  BY <1>13 DEF LaunchClaim, Step, WriteState
<1>14. CASE LaunchPrepare
  BY <1>14 DEF LaunchPrepare, Step, WriteState
<1>15. CASE LaunchRaises
  BY <1>15 DEF LaunchRaises, Step, WriteState
<1>16. CASE LaunchCheck
  BY <1>16 DEF LaunchCheck, Step, WriteState
<1>17. CASE LaunchCancel
  BY <1>17 DEF LaunchCancel, Step, WriteState
<1>18. CASE LaunchRegister
  BY <1>18 DEF LaunchRegister, Step, WriteState
<1>19. CASE LaunchStart
  BY <1>19 DEF LaunchStart, Step, WriteState
<1>20. CASE LaunchFails
  BY <1>20 DEF LaunchFails, Step, WriteState
<1>21. CASE LaunchRecord
  BY <1>21 DEF LaunchRecord, Step, WriteState
<1>22. ASSUME NEW r \in Runs, RecoverQueued(r) PROVE SlotHeld'
  BY <1>22 DEF RecoverQueued
<1>23. ASSUME NEW r \in Runs, RecoverAdopt(r) PROVE SlotHeld'
  BY <1>23 DEF RecoverAdopt
<1>24. ASSUME NEW r \in Runs, RecoverInterrupt(r) PROVE SlotHeld'
  BY <1>24 DEF RecoverInterrupt
<1>25. ASSUME NEW r \in Runs, CloseSignal(r) PROVE SlotHeld'
  BY <1>25 DEF CloseSignal, RequestStop
<1>26. ASSUME NEW r \in Runs, CloseStop(r) PROVE SlotHeld'
  BY <1>26 DEF CloseStop, RequestStop
<1>27. ASSUME NEW r \in Runs, CloseKill(r) PROVE SlotHeld'
  BY <1>27 DEF CloseKill
<1>28. ASSUME NEW r \in Runs, CloseReturn(r) PROVE SlotHeld'
  BY <1>28 DEF CloseReturn
<1>29. ASSUME NEW r \in Runs, Submit(r) PROVE SlotHeld'
  BY <1>29 DEF Submit
<1>30. ASSUME NEW r \in Runs, StopRead(r) PROVE SlotHeld'
  BY <1>30 DEF StopRead
<1>31. ASSUME NEW r \in Runs, ExitSeen(r) PROVE SlotHeld'
  BY <1>31 DEF ExitSeen
<1>32. ASSUME NEW r \in Runs, ExitRecord(r) PROVE SlotHeld'
  BY <1>32 DEF ExitRecord, Outcome
<1>33. ASSUME NEW r \in Runs, ChildBoot(r) PROVE SlotHeld'
  BY <1>33 DEF ChildBoot
<1>34. ASSUME NEW r \in Runs, ChildCheck(r) PROVE SlotHeld'
  BY <1>34 DEF ChildCheck
<1>35. ASSUME NEW r \in Runs, ChildStdin(r) PROVE SlotHeld'
  BY <1>35 DEF ChildStdin
<1>36. ASSUME NEW r \in Runs, ChildStops(r) PROVE SlotHeld'
  BY <1>36 DEF ChildStops
<1>37. ASSUME NEW r \in Runs, ChildEnds(r) PROVE SlotHeld'
  BY <1>37 DEF ChildEnds
<1>38. ASSUME NEW r \in Runs, ChildDies(r) PROVE SlotHeld'
  BY <1>38 DEF ChildDies
<1>39. CASE UNCHANGED vars
  BY <1>39
<1> QED
  BY <1>1, <1>2, <1>3, <1>4, <1>5, <1>6, <1>7, <1>8, <1>9, <1>10, <1>11, <1>12, <1>13, <1>14, <1>15, <1>16, <1>17, <1>18, <1>19, <1>20, <1>21, <1>22, <1>23, <1>24, <1>25, <1>26, <1>27, <1>28, <1>29, <1>30, <1>31, <1>32, <1>33, <1>34, <1>35, <1>36, <1>37, <1>38, <1>39 DEF Next, RobotStep, ApiStep, QueueStep, WatcherStep, ChildStep


\* Every step keeps the stops recorded.
LEMMA StopStep == IInv /\ StopsRecorded /\ [Next]_vars => StopsRecorded'
<1> SUFFICES ASSUME IInv, StopsRecorded, [Next]_vars PROVE StopsRecorded'
  OBVIOUS
<1> USE DEF IInv, TypeOK, ThreadsOK, LaunchOrder, Idle, Tracked, Alive, LiveChild, Serving, vars, rowVars, robotVars, procVars, childVars, StopsRecorded
<1>1. CASE RobotStart
  BY <1>1 DEF RobotStart
<1>2. CASE RobotUp
  BY <1>2 DEF RobotUp
<1>3. CASE StartRefused
  BY <1>3 DEF StartRefused, ProcessGone
<1>4. CASE PulseStop
  BY <1>4 DEF PulseStop
<1>5. CASE CloseHalt
  BY <1>5 DEF CloseHalt
<1>6. CASE CloseSnapshot
  BY <1>6 DEF CloseSnapshot
<1>7. CASE RobotExit
  BY <1>7 DEF RobotExit, ProcessGone
<1>8. CASE RobotCrash
  BY <1>8 DEF RobotCrash, ProcessGone
<1>9. CASE StopCancel
  BY <1>9 DEF StopCancel
<1>10. CASE StopMark
  BY <1>10 DEF StopMark
<1>11. CASE StopSignal
  <2> DEFINE r == call.run
  <2>1. r \in Runs /\ stopFlag[r] /\ call'.at = "idle"
    BY <1>11 DEF StopSignal
  <2>2. stopping' = stopping \/ stopping' = [stopping EXCEPT ![r] = TRUE]
    BY <1>11 DEF StopSignal, RequestStop
  <2>3. UNCHANGED <<stopFlag, await, signal>>
    BY <1>11 DEF StopSignal
  <2> QED
    BY <2>1, <2>2, <2>3
<1>12. CASE FillPick
  BY <1>12 DEF FillPick, FirstQueued
<1>13. CASE LaunchClaim
  BY <1>13 DEF LaunchClaim, Step, WriteState
<1>14. CASE LaunchPrepare
  BY <1>14 DEF LaunchPrepare, Step, WriteState
<1>15. CASE LaunchRaises
  BY <1>15 DEF LaunchRaises, Step, WriteState
<1>16. CASE LaunchCheck
  BY <1>16 DEF LaunchCheck, Step, WriteState
<1>17. CASE LaunchCancel
  BY <1>17 DEF LaunchCancel, Step, WriteState
<1>18. CASE LaunchRegister
  BY <1>18 DEF LaunchRegister, Step, WriteState
<1>19. CASE LaunchStart
  BY <1>19 DEF LaunchStart, Step, WriteState
<1>20. CASE LaunchFails
  BY <1>20 DEF LaunchFails, Step, WriteState
<1>21. CASE LaunchRecord
  BY <1>21 DEF LaunchRecord, Step, WriteState
<1>22. ASSUME NEW r \in Runs, RecoverQueued(r) PROVE StopsRecorded'
  BY <1>22 DEF RecoverQueued
<1>23. ASSUME NEW r \in Runs, RecoverAdopt(r) PROVE StopsRecorded'
  BY <1>23 DEF RecoverAdopt
<1>24. ASSUME NEW r \in Runs, RecoverInterrupt(r) PROVE StopsRecorded'
  BY <1>24 DEF RecoverInterrupt
<1>25. ASSUME NEW r \in Runs, CloseSignal(r) PROVE StopsRecorded'
  <2>1. stopping' = stopping \/ stopping' = [stopping EXCEPT ![r] = TRUE]
    BY <1>25 DEF CloseSignal, RequestStop
  <2>2. stopFlag' = [stopFlag EXCEPT ![r] = TRUE] /\ signal' = signal \ {r} /\ UNCHANGED <<await, call>>
    BY <1>25 DEF CloseSignal
  <2> QED
    BY <2>1, <2>2
<1>26. ASSUME NEW r \in Runs, CloseStop(r) PROVE StopsRecorded'
  <2>1. stopping' = [stopping EXCEPT ![r] = TRUE] /\ r \in await \ signal
    BY <1>26 DEF CloseStop, RequestStop
  <2>2. UNCHANGED <<stopFlag, signal, await, call>>
    BY <1>26 DEF CloseStop
  <2> QED
    BY <2>1, <2>2
<1>27. ASSUME NEW r \in Runs, CloseKill(r) PROVE StopsRecorded'
  BY <1>27 DEF CloseKill
<1>28. ASSUME NEW r \in Runs, CloseReturn(r) PROVE StopsRecorded'
  BY <1>28 DEF CloseReturn
<1>29. ASSUME NEW r \in Runs, Submit(r) PROVE StopsRecorded'
  BY <1>29 DEF Submit
<1>30. ASSUME NEW r \in Runs, StopRead(r) PROVE StopsRecorded'
  BY <1>30 DEF StopRead
<1>31. ASSUME NEW r \in Runs, ExitSeen(r) PROVE StopsRecorded'
  BY <1>31 DEF ExitSeen
<1>32. ASSUME NEW r \in Runs, ExitRecord(r) PROVE StopsRecorded'
  BY <1>32 DEF ExitRecord, Outcome
<1>33. ASSUME NEW r \in Runs, ChildBoot(r) PROVE StopsRecorded'
  BY <1>33 DEF ChildBoot
<1>34. ASSUME NEW r \in Runs, ChildCheck(r) PROVE StopsRecorded'
  BY <1>34 DEF ChildCheck
<1>35. ASSUME NEW r \in Runs, ChildStdin(r) PROVE StopsRecorded'
  BY <1>35 DEF ChildStdin
<1>36. ASSUME NEW r \in Runs, ChildStops(r) PROVE StopsRecorded'
  BY <1>36 DEF ChildStops
<1>37. ASSUME NEW r \in Runs, ChildEnds(r) PROVE StopsRecorded'
  BY <1>37 DEF ChildEnds
<1>38. ASSUME NEW r \in Runs, ChildDies(r) PROVE StopsRecorded'
  BY <1>38 DEF ChildDies
<1>39. CASE UNCHANGED vars
  BY <1>39
<1> QED
  BY <1>1, <1>2, <1>3, <1>4, <1>5, <1>6, <1>7, <1>8, <1>9, <1>10, <1>11, <1>12, <1>13, <1>14, <1>15, <1>16, <1>17, <1>18, <1>19, <1>20, <1>21, <1>22, <1>23, <1>24, <1>25, <1>26, <1>27, <1>28, <1>29, <1>30, <1>31, <1>32, <1>33, <1>34, <1>35, <1>36, <1>37, <1>38, <1>39 DEF Next, RobotStep, ApiStep, QueueStep, WatcherStep, ChildStep


\* Every step keeps the outcomes earned.
LEMMA OutcomeStep == IInv /\ StopsRecorded /\ OutcomeEarned /\ [Next]_vars => OutcomeEarned'
<1> SUFFICES ASSUME IInv, StopsRecorded, OutcomeEarned, [Next]_vars PROVE OutcomeEarned'
  OBVIOUS
<1> USE DEF IInv, TypeOK, ThreadsOK, LaunchOrder, Idle, Tracked, Alive, LiveChild, Serving, vars, rowVars, robotVars, procVars, childVars, StopsRecorded, OutcomeEarned
<1>1. CASE RobotStart
  BY <1>1 DEF RobotStart
<1>2. CASE RobotUp
  BY <1>2 DEF RobotUp
<1>3. CASE StartRefused
  BY <1>3 DEF StartRefused, ProcessGone
<1>4. CASE PulseStop
  BY <1>4 DEF PulseStop
<1>5. CASE CloseHalt
  BY <1>5 DEF CloseHalt
<1>6. CASE CloseSnapshot
  BY <1>6 DEF CloseSnapshot
<1>7. CASE RobotExit
  BY <1>7 DEF RobotExit, ProcessGone
<1>8. CASE RobotCrash
  BY <1>8 DEF RobotCrash, ProcessGone
<1>9. CASE StopCancel
  BY <1>9 DEF StopCancel
<1>10. CASE StopMark
  BY <1>10 DEF StopMark
<1>11. CASE StopSignal
  BY <1>11 DEF StopSignal, RequestStop
<1>12. CASE FillPick
  BY <1>12 DEF FillPick, FirstQueued
<1>13. CASE LaunchClaim
  BY <1>13 DEF LaunchClaim, Step, WriteState
<1>14. CASE LaunchPrepare
  BY <1>14 DEF LaunchPrepare, Step, WriteState
<1>15. CASE LaunchRaises
  BY <1>15 DEF LaunchRaises, Step, WriteState
<1>16. CASE LaunchCheck
  BY <1>16 DEF LaunchCheck, Step, WriteState
<1>17. CASE LaunchCancel
  BY <1>17 DEF LaunchCancel, Step, WriteState
<1>18. CASE LaunchRegister
  BY <1>18 DEF LaunchRegister, Step, WriteState
<1>19. CASE LaunchStart
  BY <1>19 DEF LaunchStart, Step, WriteState
<1>20. CASE LaunchFails
  BY <1>20 DEF LaunchFails, Step, WriteState
<1>21. CASE LaunchRecord
  BY <1>21 DEF LaunchRecord, Step, WriteState
<1>22. ASSUME NEW r \in Runs, RecoverQueued(r) PROVE OutcomeEarned'
  BY <1>22 DEF RecoverQueued
<1>23. ASSUME NEW r \in Runs, RecoverAdopt(r) PROVE OutcomeEarned'
  BY <1>23 DEF RecoverAdopt
<1>24. ASSUME NEW r \in Runs, RecoverInterrupt(r) PROVE OutcomeEarned'
  BY <1>24 DEF RecoverInterrupt
<1>25. ASSUME NEW r \in Runs, CloseSignal(r) PROVE OutcomeEarned'
  BY <1>25 DEF CloseSignal, RequestStop
<1>26. ASSUME NEW r \in Runs, CloseStop(r) PROVE OutcomeEarned'
  BY <1>26 DEF CloseStop, RequestStop
<1>27. ASSUME NEW r \in Runs, CloseKill(r) PROVE OutcomeEarned'
  BY <1>27 DEF CloseKill
<1>28. ASSUME NEW r \in Runs, CloseReturn(r) PROVE OutcomeEarned'
  BY <1>28 DEF CloseReturn
<1>29. ASSUME NEW r \in Runs, Submit(r) PROVE OutcomeEarned'
  BY <1>29 DEF Submit
<1>30. ASSUME NEW r \in Runs, StopRead(r) PROVE OutcomeEarned'
  BY <1>30 DEF StopRead
<1>31. ASSUME NEW r \in Runs, ExitSeen(r) PROVE OutcomeEarned'
  BY <1>31 DEF ExitSeen
<1>32. ASSUME NEW r \in Runs, ExitRecord(r) PROVE OutcomeEarned'
  BY <1>32 DEF ExitRecord, Outcome
<1>33. ASSUME NEW r \in Runs, ChildBoot(r) PROVE OutcomeEarned'
  BY <1>33 DEF ChildBoot
<1>34. ASSUME NEW r \in Runs, ChildCheck(r) PROVE OutcomeEarned'
  BY <1>34 DEF ChildCheck
<1>35. ASSUME NEW r \in Runs, ChildStdin(r) PROVE OutcomeEarned'
  BY <1>35 DEF ChildStdin
<1>36. ASSUME NEW r \in Runs, ChildStops(r) PROVE OutcomeEarned'
  BY <1>36 DEF ChildStops
<1>37. ASSUME NEW r \in Runs, ChildEnds(r) PROVE OutcomeEarned'
  BY <1>37 DEF ChildEnds
<1>38. ASSUME NEW r \in Runs, ChildDies(r) PROVE OutcomeEarned'
  BY <1>38 DEF ChildDies
<1>39. CASE UNCHANGED vars
  BY <1>39
<1> QED
  BY <1>1, <1>2, <1>3, <1>4, <1>5, <1>6, <1>7, <1>8, <1>9, <1>10, <1>11, <1>12, <1>13, <1>14, <1>15, <1>16, <1>17, <1>18, <1>19, <1>20, <1>21, <1>22, <1>23, <1>24, <1>25, <1>26, <1>27, <1>28, <1>29, <1>30, <1>31, <1>32, <1>33, <1>34, <1>35, <1>36, <1>37, <1>38, <1>39 DEF Next, RobotStep, ApiStep, QueueStep, WatcherStep, ChildStep


\* Every step keeps the rows watched.
LEMMA RecoveryStep == IInv /\ RowsWatched /\ [Next]_vars => RowsWatched'
<1> SUFFICES ASSUME IInv, RowsWatched, [Next]_vars PROVE RowsWatched'
  OBVIOUS
<1> USE DEF IInv, TypeOK, ThreadsOK, LaunchOrder, Idle, Tracked, Alive, LiveChild, Serving, vars, rowVars, robotVars, procVars, childVars, RowsWatched, ActiveRow, ActiveStates
<1>1. CASE RobotStart
  BY <1>1 DEF RobotStart
<1>2. CASE RobotUp
  BY <1>2 DEF RobotUp
<1>3. CASE StartRefused
  BY <1>3 DEF StartRefused, ProcessGone
<1>4. CASE PulseStop
  BY <1>4 DEF PulseStop
<1>5. CASE CloseHalt
  BY <1>5 DEF CloseHalt
<1>6. CASE CloseSnapshot
  BY <1>6 DEF CloseSnapshot
<1>7. CASE RobotExit
  BY <1>7 DEF RobotExit, ProcessGone
<1>8. CASE RobotCrash
  BY <1>8 DEF RobotCrash, ProcessGone
<1>9. CASE StopCancel
  BY <1>9 DEF StopCancel
<1>10. CASE StopMark
  BY <1>10 DEF StopMark
<1>11. CASE StopSignal
  BY <1>11 DEF StopSignal, RequestStop
<1>12. CASE FillPick
  BY <1>12 DEF FillPick, FirstQueued
<1>13. CASE LaunchClaim
  BY <1>13 DEF LaunchClaim, Step, WriteState
<1>14. CASE LaunchPrepare
  BY <1>14 DEF LaunchPrepare, Step, WriteState
<1>15. CASE LaunchRaises
  BY <1>15 DEF LaunchRaises, Step, WriteState
<1>16. CASE LaunchCheck
  BY <1>16 DEF LaunchCheck, Step, WriteState
<1>17. CASE LaunchCancel
  BY <1>17 DEF LaunchCancel, Step, WriteState
<1>18. CASE LaunchRegister
  BY <1>18 DEF LaunchRegister, Step, WriteState
<1>19. CASE LaunchStart
  BY <1>19 DEF LaunchStart, Step, WriteState
<1>20. CASE LaunchFails
  BY <1>20 DEF LaunchFails, Step, WriteState
<1>21. CASE LaunchRecord
  BY <1>21 DEF LaunchRecord, Step, WriteState
<1>22. ASSUME NEW r \in Runs, RecoverQueued(r) PROVE RowsWatched'
  BY <1>22 DEF RecoverQueued
<1>23. ASSUME NEW r \in Runs, RecoverAdopt(r) PROVE RowsWatched'
  BY <1>23 DEF RecoverAdopt
<1>24. ASSUME NEW r \in Runs, RecoverInterrupt(r) PROVE RowsWatched'
  BY <1>24 DEF RecoverInterrupt
<1>25. ASSUME NEW r \in Runs, CloseSignal(r) PROVE RowsWatched'
  BY <1>25 DEF CloseSignal, RequestStop
<1>26. ASSUME NEW r \in Runs, CloseStop(r) PROVE RowsWatched'
  BY <1>26 DEF CloseStop, RequestStop
<1>27. ASSUME NEW r \in Runs, CloseKill(r) PROVE RowsWatched'
  BY <1>27 DEF CloseKill
<1>28. ASSUME NEW r \in Runs, CloseReturn(r) PROVE RowsWatched'
  BY <1>28 DEF CloseReturn
<1>29. ASSUME NEW r \in Runs, Submit(r) PROVE RowsWatched'
  BY <1>29 DEF Submit
<1>30. ASSUME NEW r \in Runs, StopRead(r) PROVE RowsWatched'
  BY <1>30 DEF StopRead
<1>31. ASSUME NEW r \in Runs, ExitSeen(r) PROVE RowsWatched'
  BY <1>31 DEF ExitSeen
<1>32. ASSUME NEW r \in Runs, ExitRecord(r) PROVE RowsWatched'
  BY <1>32 DEF ExitRecord, Outcome
<1>33. ASSUME NEW r \in Runs, ChildBoot(r) PROVE RowsWatched'
  BY <1>33 DEF ChildBoot
<1>34. ASSUME NEW r \in Runs, ChildCheck(r) PROVE RowsWatched'
  BY <1>34 DEF ChildCheck
<1>35. ASSUME NEW r \in Runs, ChildStdin(r) PROVE RowsWatched'
  BY <1>35 DEF ChildStdin
<1>36. ASSUME NEW r \in Runs, ChildStops(r) PROVE RowsWatched'
  BY <1>36 DEF ChildStops
<1>37. ASSUME NEW r \in Runs, ChildEnds(r) PROVE RowsWatched'
  BY <1>37 DEF ChildEnds
<1>38. ASSUME NEW r \in Runs, ChildDies(r) PROVE RowsWatched'
  BY <1>38 DEF ChildDies
<1>39. CASE UNCHANGED vars
  BY <1>39
<1> QED
  BY <1>1, <1>2, <1>3, <1>4, <1>5, <1>6, <1>7, <1>8, <1>9, <1>10, <1>11, <1>12, <1>13, <1>14, <1>15, <1>16, <1>17, <1>18, <1>19, <1>20, <1>21, <1>22, <1>23, <1>24, <1>25, <1>26, <1>27, <1>28, <1>29, <1>30, <1>31, <1>32, <1>33, <1>34, <1>35, <1>36, <1>37, <1>38, <1>39 DEF Next, RobotStep, ApiStep, QueueStep, WatcherStep, ChildStep


EndInv == IInv /\ SlotHeld /\ StopsRecorded /\ OutcomeEarned /\ RowsWatched

LEMMA InitEndInv == Init => EndInv
BY InitIInv DEF Init, EndInv, SlotHeld, StopsRecorded, OutcomeEarned, RowsWatched, Tracked, Idle

LEMMA InductiveEndInv == EndInv /\ [Next]_vars => EndInv'
BY InductiveIInv, SlotStep, StopStep, OutcomeStep, RecoveryStep DEF EndInv

\* No slot is lost, no row says of a process that failed that it finished, and
\* none is "stopped" without a recorded stop, in any order of stop(), close(),
\* the watchers, early deaths and restarts.
THEOREM EndsAccounted == Spec => []EndIsAccounted
<1>1. EndInv => EndIsAccounted
  BY DEF EndInv, SlotHeld, OutcomeEarned, EndIsAccounted
<1> QED
  BY <1>1, InitEndInv, InductiveEndInv, PTL DEF Spec

\* Every row that is active when the robot comes up again has a watcher.
THEOREM RecoveredAlwaysWatched == Spec => RecoveredIsWatched
<1>1. EndInv /\ [Next]_vars =>
        [robot = "recovering" /\ robot' = "up" =>
           \A r \in Runs : ActiveRow(r)' => watcher'[r] \in {"waiting", "popped", "done"}]_vars
  <2> SUFFICES ASSUME EndInv, [Next]_vars, robot = "recovering", robot' = "up", NEW r \in Runs, ActiveRow(r)'
               PROVE  watcher'[r] \in {"waiting", "popped", "done"}
    OBVIOUS
  <2>1. RobotUp
    BY DEF EndInv, IInv, ThreadsOK, Serving, Next, RobotStep, ApiStep, QueueStep, WatcherStep, ChildStep, vars,
       robotVars, RobotStart, StartRefused, PulseStop, CloseHalt, CloseSnapshot, RobotExit, RobotCrash,
       RecoverQueued, RecoverAdopt, RecoverInterrupt, CloseSignal, CloseStop, CloseKill, CloseReturn,
       StopCancel, StopMark, StopSignal, Submit, StopRead, FillPick, LaunchClaim, LaunchPrepare,
       LaunchRaises, LaunchCheck, LaunchCancel, LaunchRegister, LaunchStart, LaunchFails, LaunchRecord,
       ExitSeen, ExitRecord, ChildBoot, ChildCheck, ChildStdin, ChildStops, ChildEnds, ChildDies
  <2>2. ActiveRow(r) /\ pending = {} /\ watcher' = watcher
    BY <2>1 DEF RobotUp, rowVars, procVars, ActiveRow
  <2> QED
    BY <2>2 DEF EndInv, RowsWatched, IInv, TypeOK
<1> QED
  BY <1>1, InitEndInv, InductiveEndInv, PTL DEF Spec, RecoveredIsWatched

-----------------------------------------------------------------------------
(* HistoryStart: a stop of the operator reaches the session of the run     *)
(* that begins, for any request, any candles and any number of failed      *)
(* reads.                                                                  *)

(* The session is attached from Attach on; between the two steps of attach()   *)
(* a stop is remembered, about to be told, or told already; after them only    *)
(* the last two are left.                                                      *)
SessionInv ==
    /\ attempt \in {1, 2}
    /\ stage = "attach" => attached = attempt - 1
    /\ stage # "attach" => attached = attempt
StopInv ==
    /\ stage = "attached" /\ stopReason => recalled \/ telling = attempt \/ attempt \in halted
    /\ stage \notin {"attach", "attached"} /\ stopReason => telling = attempt \/ attempt \in halted
StartIInv == SessionInv /\ StopInv

LEMMA StartInitIInv == StartInit => StartIInv
BY DEF StartInit, StartIInv, SessionInv, StopInv

\* The steps of the check leave the sessions alone.
Checks == stage \notin {"attach", "attached"} /\ stage' \notin {"attach", "attached"} /\ UNCHANGED <<attempt, progressVars>>

LEMMA CheckSteps ==
  ASSUME PingSource \/ CheckPair \/ CheckAgain \/ FixedChecked \/ CheckFrame \/ CheckExit \/ Begin
  PROVE  Checks
<1>1. CASE PingSource
  BY <1>1 DEF PingSource, Checks
<1>2. CASE CheckPair
  BY <1>2 DEF CheckPair, Checks
<1>3. CASE CheckAgain \/ FixedChecked
  BY <1>3 DEF CheckAgain, FixedChecked, Checks
<1>4. CASE CheckFrame
  BY <1>4 DEF CheckFrame, Checks
<1>5. CASE CheckExit
  BY <1>5 DEF CheckExit, Checks
<1>6. CASE Begin
  BY <1>6 DEF Begin, AllChecked, Checks
<1> QED
  BY <1>1, <1>2, <1>3, <1>4, <1>5, <1>6

LEMMA StartInductive == StartIInv /\ [StartNext]_startVars => StartIInv'
<1> SUFFICES ASSUME StartIInv, [StartNext]_startVars PROVE StartIInv'
  OBVIOUS
<1> USE DEF StartIInv, SessionInv, StopInv
<1>1. CASE AskStop
  BY <1>1 DEF AskStop
<1>2. CASE TellStop
  BY <1>2 DEF TellStop
<1>3. CASE Attach
  BY <1>3 DEF Attach, Recalls
<1>4. CASE AttachTells
  BY <1>4 DEF AttachTells
<1>5. CASE Checks
  BY <1>5 DEF Checks, progressVars
<1>6. CASE Repeat
  <2>1. AllChecked /\ UNCHANGED progressVars
    BY <1>6 DEF Repeat
  <2>2. CASE attempt = 1 /\ attempt' = 2 /\ stage' = "attach"
    BY <2>1, <2>2 DEF AllChecked, progressVars
  <2>3. CASE attempt = 2 /\ stage' = "moved" /\ UNCHANGED attempt
    BY <2>1, <2>3 DEF AllChecked, progressVars
  <2> QED
    BY <1>6, <2>2, <2>3 DEF Repeat
<1>7. CASE UNCHANGED startVars
  BY <1>7 DEF startVars, progressVars
<1> QED
  BY <1>1, <1>2, <1>3, <1>4, <1>5, <1>6, <1>7, CheckSteps DEF StartNext

\* The two attempts of a run and the session each of them has.
THEOREM SessionsInOrder == StartSpec => []SessionInv
<1>1. StartIInv => SessionInv
  BY DEF StartIInv
<1> QED
  BY <1>1, StartInitIInv, StartInductive, PTL DEF StartSpec

\* A stop asked for in either attempt, however its two steps cross the change
\* of the session, has told the session of the run that begins.
THEOREM StopReachesRunAlways == StartSpec => []StopReachesRun
<1>1. StartIInv => StopReachesRun
  BY DEF StartIInv, SessionInv, StopInv, StopReachesRun
<1> QED
  BY <1>1, StartInitIInv, StartInductive, PTL DEF StartSpec
=============================================================================
