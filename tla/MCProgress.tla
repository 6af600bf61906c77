----------------------------- MODULE MCProgress -----------------------------
(* What must happen at last, under the fairness of each component: the pairs   *)
(* of the contours, the queue of history runs and the end of a contour, side   *)
(* by side; part says which.                                                   *)
EXTENDS PairDemand
CONSTANTS
    Runs, MaxRuns, MaxStarts,
    Keys, MaxGeneration, Faults, OrphanLaunch, LiveGuard
VARIABLES
    part,
    state, stopFlag, accepted, robot, beat, pending, processes, stopping,
    thread, watcher, call, signal, await, child, stdin, starts,
    desired, applied, status, core, heartbeat, phase, read, mem, roster, trade, orders

Jobs == INSTANCE HistoryRuns
Ending == INSTANCE ContourControl WITH beat <- heartbeat

jobVars == <<state, stopFlag, accepted, robot, beat, pending, processes, stopping,
             thread, watcher, call, signal, await, child, stdin, starts>>
endingVars == <<desired, applied, status, core, heartbeat, phase, read, mem, roster, trade, orders>>
vars == <<part, demandVars, jobVars, endingVars>>

Init == /\ part \in {"pairs", "jobs", "ending"}
        /\ DemandInit /\ Jobs!Init /\ Ending!Init
Next ==
    \/ part = "pairs" /\ DemandNext /\ UNCHANGED <<part, jobVars, endingVars>>
    \/ part = "jobs" /\ Jobs!Next /\ UNCHANGED <<part, demandVars, endingVars>>
    \/ part = "ending" /\ Ending!Next /\ UNCHANGED <<part, demandVars, jobVars>>

(* DemandFairness of the part; nothing is enabled that the fairness of the two *)
(* others asks for, while they rest in their initial states.                   *)
PairsFairness ==
    /\ WF_demandVars(part = "pairs" /\ PollerStep)
    /\ \A p \in DemandPairs : WF_demandVars(part = "pairs" /\ PublishReadiness(p))
    /\ \A c \in Contours : WF_demandVars(part = "pairs" /\ Follow(c))

Spec == /\ Init /\ [][Next]_vars
        /\ PairsFairness /\ Jobs!Fairness
        /\ Ending!Fairness /\ \A k \in Keys : SF_endingVars(Ending!PositionExits(k))

(* A stop of a run, the closing of a contour and the removal of an instrument  *)
(* are seen through to their ends.                                             *)
EndingsFinish == Jobs!StopReaches /\ Ending!CloseAllFinishes /\ Ending!RemovedLeaves
=============================================================================
