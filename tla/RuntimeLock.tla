---------------------------- MODULE RuntimeLock ----------------------------
(* Processes that take robot.pid of one directory (runtime_lock.py). Opening,  *)
(* reading, unlinking and writing the file are steps of their own: other       *)
(* processes come in between.                                                  *)
EXTENDS Naturals

CONSTANTS Starters, MaxTries

ASSUME LockAssumption == MaxTries \in Nat \ {0} /\ "nobody" \notin Starters

VARIABLES
    file,  \* who created the file at the path and whether its pid is written
    start, \* where each process is in acquire_runtime_lock
    tries  \* passes of its loop

lockVars == <<file, start, tries>>

Absent == [by |-> "nobody", written |-> FALSE]
Living(s) == start[s] \notin {"unborn", "dead"}

LockInit ==
    /\ file = Absent
    /\ start = [s \in Starters |-> "unborn"]
    /\ tries = [s \in Starters |-> 0]

GoTo(s, pc) == start' = [start EXCEPT ![s] = pc]

Begin(s) == start[s] = "unborn" /\ GoTo(s, "open") /\ UNCHANGED <<file, tries>>

LoopsLeftOneMore(s) == tries[s] <= MaxTries \* if the loop ran once too often
LoopsLeft(s) == tries[s] < MaxTries

(* O_CREAT | O_EXCL: creates an empty file or finds one.                       *)
Open(s) ==
    /\ start[s] = "open" /\ LoopsLeft(s)
    /\ tries' = [tries EXCEPT ![s] = @ + 1]
    /\ IF file = Absent THEN file' = [by |-> s, written |-> FALSE] /\ GoTo(s, "write")
                        ELSE file' = file /\ GoTo(s, "read")

GiveUp(s) == start[s] = "open" /\ tries[s] = MaxTries /\ GoTo(s, "refused") /\ UNCHANGED <<file, tries>>

OccupiedByOwnUser == FALSE \* if a process of another user counted as dead

(* The pid of a living process refuses the start. An empty or a vanished file *)
(* has no pid.                                                                *)
Occupied == file # Absent /\ file.written /\ Living(file.by)

Read(s) ==
    /\ start[s] = "read" /\ GoTo(s, IF Occupied THEN "refused" ELSE "unlink")
    /\ UNCHANGED <<file, tries>>

(* Removes whatever the path names by now.                                    *)
Unlink(s) == start[s] = "unlink" /\ file' = Absent /\ GoTo(s, "open") /\ UNCHANGED tries

(* The pid goes to the file that was opened, be it at the path or not.        *)
Write(s) ==
    /\ start[s] = "write" /\ GoTo(s, "holds")
    /\ file' = IF file.by = s THEN [file EXCEPT !.written = TRUE] ELSE file
    /\ UNCHANGED tries

(* The file stays behind; a refused process ends by itself.                   *)
Die(s) == Living(s) /\ GoTo(s, "dead") /\ UNCHANGED <<file, tries>>

LockNext == \E s \in Starters :
    Begin(s) \/ Open(s) \/ GiveUp(s) \/ Read(s) \/ Unlink(s) \/ Write(s) \/ Die(s)

LockSpec == LockInit /\ [][LockNext]_lockVars

-----------------------------------------------------------------------------
LockTypeOK ==
    /\ file \in [by : Starters \cup {"nobody"}, written : BOOLEAN]
    /\ start \in [Starters -> {"unborn", "open", "read", "unlink", "write", "holds", "refused", "dead"}]
    /\ tries \in [Starters -> 0..MaxTries]

(* The file names the process that holds it, and no start that looked before  *)
(* is still about to remove or to write it.                                   *)
Settled(h) ==
    /\ start[h] = "holds" /\ file = [by |-> h, written |-> TRUE]
    /\ \A s \in Starters \ {h} : start[s] \notin {"unlink", "write", "holds"}

(* A robot that holds its directory with no other start under way keeps it    *)
(* for as long as it lives, however many starts come later and interleave. It *)
(* is not so for starts that overlap with its own: two of them can find the   *)
(* same dead pid, and the later unlink removes the file of the first.         *)
HolderKeeps == [][\A h \in Starters : Settled(h) => Settled(h)' \/ ~Living(h)']_lockVars
=============================================================================
