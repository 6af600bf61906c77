--------------------------- MODULE ControlProofs ---------------------------
(* Proofs about RuntimeLock, for any number of processes and of passes of the  *)
(* loop, and about LaunchControl, for any number of commands, processes of the *)
(* contour, lives of the robot and failures of its core.                       *)
EXTENDS LaunchControl, RuntimeLock, FiniteSetTheorems, TLAPS

Stages == {"unborn", "open", "read", "unlink", "write", "holds", "refused", "dead"}

LEMMA LockTypesInit == LockInit => LockTypeOK
BY LockAssumption DEF LockInit, LockTypeOK, Absent

LEMMA LockTypesStep == LockTypeOK /\ [LockNext]_lockVars => LockTypeOK'
<1> SUFFICES ASSUME LockTypeOK, LockNext PROVE LockTypeOK'
  BY DEF LockTypeOK, lockVars
<1>1. PICK s \in Starters :
        Begin(s) \/ Open(s) \/ GiveUp(s) \/ Read(s) \/ Unlink(s) \/ Write(s) \/ Die(s)
  BY DEF LockNext
<1>2. \A pc \in Stages : [start EXCEPT ![s] = pc] \in [Starters -> Stages]
  BY <1>1 DEF LockTypeOK, Stages
<1>3. start' \in [Starters -> Stages]
  BY <1>1, <1>2 DEF Begin, Open, GiveUp, Read, Unlink, Write, Die, GoTo, Stages
<1>4. tries' \in [Starters -> 0..MaxTries]
  <2>1. CASE Open(s)
    <3>1. tries[s] + 1 \in 0..MaxTries
      BY <2>1, LockAssumption DEF Open, LoopsLeft, LockTypeOK
    <3> QED
      BY <2>1, <3>1 DEF Open, LockTypeOK
  <2>2. CASE tries' = tries
    BY <2>2 DEF LockTypeOK
  <2> QED
    BY <1>1, <2>1, <2>2 DEF Begin, GiveUp, Read, Unlink, Write, Die
<1>5. file' \in [by : Starters \cup {"nobody"}, written : BOOLEAN]
  <2>1. Absent \in [by : Starters \cup {"nobody"}, written : BOOLEAN]
    BY DEF Absent
  <2>2. [by |-> s, written |-> FALSE] \in [by : Starters \cup {"nobody"}, written : BOOLEAN]
    OBVIOUS
  <2>3. [file EXCEPT !.written = TRUE] \in [by : Starters \cup {"nobody"}, written : BOOLEAN]
    BY DEF LockTypeOK
  <2>4. file' \in {file, Absent, [by |-> s, written |-> FALSE], [file EXCEPT !.written = TRUE]}
    BY <1>1 DEF Begin, Open, GiveUp, Read, Unlink, Write, Die
  <2> QED
    BY <2>1, <2>2, <2>3, <2>4 DEF LockTypeOK
<1> QED
  BY <1>3, <1>4, <1>5 DEF LockTypeOK, Stages

\* The loop of every process ends after at most MaxTries passes, and the pid in
\* the file is that of a process that created it there.
THEOREM LockTypeCorrect == LockSpec => []LockTypeOK
BY LockTypesInit, LockTypesStep, PTL DEF LockSpec

\* What every step of another process leaves alone while one holds the file.
LEMMA SettledStep ==
  ASSUME LockTypeOK, LockNext, NEW h \in Starters, Settled(h)
  PROVE  Settled(h)' \/ ~Living(h)'
<1>1. PICK s \in Starters :
        Begin(s) \/ Open(s) \/ GiveUp(s) \/ Read(s) \/ Unlink(s) \/ Write(s) \/ Die(s)
  BY DEF LockNext
<1>2. file # Absent /\ Occupied
  BY LockAssumption DEF Settled, Absent, Occupied, Living
<1>3. CASE s = h
  <2>1. Die(s)
    BY <1>1, <1>3 DEF Settled, Begin, Open, GiveUp, Read, Unlink, Write
  <2> QED
    BY <2>1, <1>3 DEF Die, GoTo, Living, LockTypeOK
<1>4. CASE s # h
  <2>1. file' = file /\ \E pc \in {"open", "read", "refused", "dead"} : GoTo(s, pc)
    BY <1>1, <1>2, <1>4 DEF Settled, Begin, Open, GiveUp, Read, Unlink, Write, Die
  <2> QED
    BY <2>1, <1>4 DEF Settled, GoTo, LockTypeOK
<1> QED
  BY <1>3, <1>4

\* A robot that holds its directory with no other start under way keeps it for
\* as long as it lives, for any number of later starts and any interleaving.
THEOREM HolderKeepsAlways == LockSpec => HolderKeeps
<1>1. LockTypeOK /\ [LockNext]_lockVars
        => [\A h \in Starters : Settled(h) => Settled(h)' \/ ~Living(h)']_lockVars
  BY SettledStep
<1> QED
  BY <1>1, LockTypeCorrect, PTL DEF LockSpec, HolderKeeps
-----------------------------------------------------------------------------
(* LaunchControl: the sequences of commands that wait for the main thread.     *)

CallTypes == [kind : Kinds, expected : {AnyRevision} \cup Revisions, made : Revisions,
              step : {"unsent", "sent", "checked", "decided", "runs", "stops", "waits", "done"},
              answer : {"none", "done", "refused", "late", "lost"}]

Elements(q) == {q[i] : i \in DOMAIN q}
Distinct(q) == \A i, j \in DOMAIN q : q[i] = q[j] => i = j

(* A command that is put behind a queue it is not in.                          *)
LEMMA Appended ==
  ASSUME NEW q \in Seq(Calls), NEW c \in Calls, Distinct(q), c \notin Elements(q)
  PROVE  /\ Append(q, c) \in Seq(Calls) /\ Distinct(Append(q, c))
         /\ Elements(Append(q, c)) = Elements(q) \cup {c}
<1>1. Append(q, c) \in Seq(Calls) /\ Len(Append(q, c)) = Len(q) + 1 /\ Len(q) \in Nat
  OBVIOUS
<1>2. DOMAIN q = 1..Len(q) /\ DOMAIN Append(q, c) = 1..(Len(q) + 1)
  OBVIOUS
<1>3. \A i \in 1..(Len(q) + 1) : Append(q, c)[i] = IF i \in DOMAIN q THEN q[i] ELSE c
  OBVIOUS
<1>4. Len(q) + 1 \notin DOMAIN q /\ 1..(Len(q) + 1) = DOMAIN q \cup {Len(q) + 1}
  BY <1>1, <1>2
<1>5. Elements(Append(q, c)) = Elements(q) \cup {c}
  BY <1>2, <1>3, <1>4 DEF Elements
<1>6. Distinct(Append(q, c))
  BY <1>2, <1>3, <1>4 DEF Elements, Distinct
<1> QED
  BY <1>1, <1>5, <1>6

(* The first command of a queue is taken.                                      *)
LEMMA Taken ==
  ASSUME NEW q \in Seq(Calls), q # <<>>, Distinct(q)
  PROVE  /\ Tail(q) \in Seq(Calls) /\ Distinct(Tail(q)) /\ Head(q) \in Calls
         /\ Head(q) \in Elements(q) /\ Elements(Tail(q)) = Elements(q) \ {Head(q)}
<1>1. Len(q) \in Nat /\ Len(q) > 0 /\ DOMAIN q = 1..Len(q) /\ Head(q) = q[1] /\ Head(q) \in Calls
  OBVIOUS
<1>2. Tail(q) \in Seq(Calls) /\ DOMAIN Tail(q) = 1..(Len(q) - 1)
  OBVIOUS
<1>3. \A i \in 1..(Len(q) - 1) : Tail(q)[i] = q[i + 1]
  OBVIOUS
<1>4. Distinct(Tail(q))
  <2>1. \A i \in 1..(Len(q) - 1) : i + 1 \in DOMAIN q
    BY <1>1
  <2>2. SUFFICES ASSUME NEW i \in 1..(Len(q) - 1), NEW j \in 1..(Len(q) - 1), q[i + 1] = q[j + 1]
                 PROVE  i = j
    BY <1>2, <1>3 DEF Distinct
  <2>3. i + 1 = j + 1
    BY <2>1, <2>2 DEF Distinct
  <2> QED
    BY <2>3
<1>5. Head(q) \in Elements(q)
  BY <1>1 DEF Elements
<1>6. Elements(Tail(q)) \subseteq Elements(q) \ {Head(q)}
  <2>1. SUFFICES ASSUME NEW i \in 1..(Len(q) - 1) PROVE q[i + 1] \in Elements(q) \ {q[1]}
    BY <1>1, <1>2, <1>3 DEF Elements
  <2>2. i + 1 \in DOMAIN q /\ 1 \in DOMAIN q /\ i + 1 # 1
    BY <1>1
  <2> QED
    BY <2>2 DEF Elements, Distinct
<1>7. Elements(q) \ {Head(q)} \subseteq Elements(Tail(q))
  <2>1. SUFFICES ASSUME NEW i \in DOMAIN q, q[i] # q[1] PROVE q[i] \in Elements(Tail(q))
    BY <1>1 DEF Elements
  <2>2. i - 1 \in 1..(Len(q) - 1) /\ (i - 1) + 1 = i
    BY <1>1, <2>1
  <2>3. Tail(q)[i - 1] = q[i] /\ i - 1 \in DOMAIN Tail(q)
    BY <1>2, <1>3, <2>2
  <2> QED
    BY <2>3 DEF Elements
<1> QED
  BY <1>1, <1>2, <1>4, <1>5, <1>6, <1>7
-----------------------------------------------------------------------------
(* LaunchControl: what a step writes into a command.                           *)

Steps == {"unsent", "sent", "checked", "decided", "runs", "stops", "waits", "done"}
Answers == {"none", "done", "refused", "late", "lost"}

Becomes(after, c, s, a, g) ==
    /\ after \in [Calls -> CallTypes]
    /\ \A d \in Calls \ {c} : after[d] = calls[d]
    /\ after[c].kind = calls[c].kind /\ after[c].expected = calls[c].expected
    /\ after[c].step = s /\ after[c].answer = a /\ after[c].made = g

LEMMA StepIs ==
  ASSUME calls \in [Calls -> CallTypes], NEW c \in Calls, NEW s \in Steps
  PROVE  Becomes([calls EXCEPT ![c].step = s], c, s, calls[c].answer, calls[c].made)
BY DEF Becomes, CallTypes, Steps

LEMMA DoneIs ==
  ASSUME calls \in [Calls -> CallTypes], NEW c \in Calls, NEW a \in Answers
  PROVE  Becomes(Done(c, a), c, "done", a, calls[c].made)
<1>1. calls[c] \in CallTypes
  OBVIOUS
<1>2. Done(c, a) = [calls EXCEPT ![c] = [[@ EXCEPT !.step = "done"] EXCEPT !.answer = a]]
  BY DEF Done
<1>3. [[calls[c] EXCEPT !.step = "done"] EXCEPT !.answer = a] \in CallTypes
  BY <1>1 DEF CallTypes, Answers
<1> QED
  BY <1>1, <1>2, <1>3 DEF Becomes, CallTypes

LEMMA MadeIs ==
  ASSUME calls \in [Calls -> CallTypes], NEW c \in Calls, NEW a \in Answers, NEW g \in Revisions
  PROVE  Becomes(Made(c, a, g), c, "done", a, g)
<1>1. calls[c] \in CallTypes
  OBVIOUS
<1>2. Made(c, a, g) = [calls EXCEPT ![c] = [[[@ EXCEPT !.step = "done"] EXCEPT !.answer = a] EXCEPT !.made = g]]
  BY DEF Made
<1>3. [[[calls[c] EXCEPT !.step = "done"] EXCEPT !.answer = a] EXCEPT !.made = g] \in CallTypes
  BY <1>1 DEF CallTypes, Answers
<1> QED
  BY <1>1, <1>2, <1>3 DEF Becomes, CallTypes

LEMMA OnlyMadeIs ==
  ASSUME calls \in [Calls -> CallTypes], NEW c \in Calls, NEW g \in Revisions
  PROVE  Becomes([calls EXCEPT ![c].made = g], c, calls[c].step, calls[c].answer, g)
BY DEF Becomes, CallTypes

(* A robot that dies leaves no command on its way.                             *)
LEMMA HangupIs ==
  ASSUME calls \in [Calls -> CallTypes]
  PROVE  /\ Hangup \in [Calls -> CallTypes]
         /\ \A c \in Calls : /\ Hangup[c].kind = calls[c].kind /\ Hangup[c].expected = calls[c].expected
                             /\ Hangup[c].made = calls[c].made /\ Hangup[c].step \in {"unsent", "done"}
                             /\ Hangup[c].step = "unsent" => calls[c].step = "unsent"
                             /\ Hangup[c].answer \in {calls[c].answer, "lost"}
<1>1. \A c \in Calls : Hangup[c] = IF calls[c].step \in {"unsent", "done"} THEN calls[c]
                                   ELSE [[calls[c] EXCEPT !.step = "done"] EXCEPT !.answer = "lost"]
  BY DEF Hangup
<1>2. \A c \in Calls : calls[c] \in CallTypes
  OBVIOUS
<1>3. \A c \in Calls : [[calls[c] EXCEPT !.step = "done"] EXCEPT !.answer = "lost"] \in CallTypes
  BY <1>2 DEF CallTypes
<1>4. Hangup \in [Calls -> CallTypes]
  BY <1>2, <1>3 DEF Hangup
<1>5. ASSUME NEW c \in Calls
      PROVE  /\ Hangup[c].kind = calls[c].kind /\ Hangup[c].expected = calls[c].expected
             /\ Hangup[c].made = calls[c].made /\ Hangup[c].step \in {"unsent", "done"}
             /\ Hangup[c].step = "unsent" => calls[c].step = "unsent"
             /\ Hangup[c].answer \in {calls[c].answer, "lost"}
  <2>1. CASE calls[c].step \in {"unsent", "done"}
    BY <1>1, <2>1
  <2>2. CASE calls[c].step \notin {"unsent", "done"}
    <3>1. Hangup[c] = [[calls[c] EXCEPT !.step = "done"] EXCEPT !.answer = "lost"]
      BY <1>1, <2>2
    <3>2. calls[c] \in [kind : Kinds, expected : {AnyRevision} \cup Revisions, made : Revisions,
                        step : Steps, answer : Answers]
      BY <1>2 DEF CallTypes, Steps, Answers
    <3> QED
      BY <3>1, <3>2
  <2> QED
    BY <2>1, <2>2
<1> QED
  BY <1>4, <1>5
-----------------------------------------------------------------------------
(* LaunchControl: the invariant.                                               *)

(* A command the main thread will take or has taken: nothing is made of it yet,*)
(* its thread waits or has given up.                                           *)
Handed(c, k) ==
    /\ calls[c].kind = k /\ calls[c].made = 0
    /\ calls[c].step = "waits" \/ (calls[c].step = "done" /\ calls[c].answer = "late")

CallsInv == \A c \in Calls :
    /\ calls[c].step = "decided" => calls[c].kind = "start"
    /\ calls[c].step \in {"runs", "stops"} => calls[c].kind = "member"
    /\ calls[c].step # "done" => calls[c].made = 0
    /\ ~Up => calls[c].step \in {"unsent", "done"}

(* A command is in one place: in its queue once, or in the main thread's hand. *)
QueueInv == Up =>
    /\ Distinct(launchQueue) /\ Distinct(memberQueue)
    /\ \A c \in Elements(launchQueue) : Handed(c, "start")
    /\ \A c \in Elements(memberQueue) : Handed(c, "member")
    /\ main = "resolve" => /\ holding \in Calls \ Elements(launchQueue)
                           /\ Handed(holding, "start")
    /\ main = "member" => /\ holding \in Calls \ Elements(memberQueue)
                          /\ Handed(holding, "member")
    /\ main \notin {"resolve", "member"} => holding = NoCall

(* Every revision of the row is one command's.                                 *)
Makers == {c \in Calls : calls[c].made # 0}
MadeInv == row.gen = Cardinality(Makers)

StarterInv == starter.state = "retrying" => starter.attempts <= MaxAttempts

LaunchInv == LaunchTypeOK /\ StarterInv /\ CallsInv /\ QueueInv /\ MadeInv /\ OneLaunch /\ AppliedAsExpected

LEMMA RevisionsAreNat == Cardinality(Calls) \in Nat /\ Revisions \subseteq Nat /\ 0 \in Revisions
<1>1. Cardinality(Calls) \in Nat
  BY LaunchAssumption, FS_CardinalityType
<1> QED
  BY <1>1 DEF Revisions

LEMMA TypedCalls == LaunchTypeOK => calls \in [Calls -> CallTypes]
BY DEF LaunchTypeOK, CallTypes

LEMMA OpenAre ==
  OpenLaunches = {c \in Calls : /\ calls[c].kind = "start"
                                /\ calls[c].step = "decided" \/ c = holding \/ c \in Elements(launchQueue)}
BY DEF OpenLaunches, Elements

(* A command that makes a revision is one more maker, and the bound is kept.   *)
LEMMA OneMoreMaker ==
  ASSUME MadeInv, NEW c \in Calls, calls[c].made = 0
  PROVE  /\ row.gen + 1 \in Revisions /\ row.gen + 1 # 0
         /\ row.gen + 1 = Cardinality(Makers \cup {c})
<1>1. IsFiniteSet(Makers) /\ IsFiniteSet(Calls)
  BY LaunchAssumption, FS_Subset DEF Makers
<1>2. c \notin Makers
  BY DEF Makers
<1>3. Cardinality(Makers \cup {c}) = Cardinality(Makers) + 1 /\ IsFiniteSet(Makers \cup {c})
  BY <1>1, <1>2, FS_AddElement
<1>4. Cardinality(Makers \cup {c}) <= Cardinality(Calls)
  BY <1>1, FS_Subset DEF Makers
<1>5. Cardinality(Makers) \in Nat /\ Cardinality(Calls) \in Nat
  BY <1>1, FS_CardinalityType
<1> QED
  BY <1>3, <1>4, <1>5 DEF MadeInv, Revisions

LEMMA LaunchInvInit == LaunchInit => LaunchInv
<1> SUFFICES ASSUME LaunchInit PROVE LaunchInv
  OBVIOUS
<1>1. \A c \in Calls : calls[c] = [kind |-> "start", expected |-> AnyRevision, step |-> "unsent",
                                   answer |-> "none", made |-> 0]
  BY DEF LaunchInit, Command
<1>2. calls \in [Calls -> CallTypes]
  <2>1. DOMAIN calls = Calls /\ calls = [c \in Calls |-> calls[c]]
    BY DEF LaunchInit
  <2>2. \A c \in Calls : calls[c] \in CallTypes
    BY <1>1, RevisionsAreNat DEF CallTypes, Kinds, AnyRevision
  <2> QED
    BY <2>1, <2>2
<1>3. LaunchTypeOK
  BY <1>2, LaunchAssumption, RevisionsAreNat, SMTT(60)
     DEF LaunchInit, LaunchTypeOK, CallTypes, FreshControl, NoProc, Procs, Kinds
<1>4. CallsInv /\ AppliedAsExpected
  BY <1>1 DEF CallsInv, AppliedAsExpected
<1>5. Makers = {}
  BY <1>1 DEF Makers
<1>6. MadeInv
  BY <1>5, FS_EmptySet DEF MadeInv, LaunchInit
<1> QED
  BY <1>3, <1>4, <1>6 DEF LaunchInv, LaunchInit, StarterInv, QueueInv, OneLaunch, Up
-----------------------------------------------------------------------------
(* LaunchControl: the parts of the invariant that every kind of step keeps.    *)

LaunchParts == CallsInv /\ QueueInv /\ MadeInv /\ OneLaunch /\ AppliedAsExpected

(* Where the main thread holds no command and its robot stays as it is.        *)
Elsewhere == {"down", "resolve", "member", "close"}

LEMMA ElementsAreCalls ==
  LaunchTypeOK => Elements(launchQueue) \subseteq Calls /\ Elements(memberQueue) \subseteq Calls
<1> SUFFICES ASSUME LaunchTypeOK
             PROVE  Elements(launchQueue) \subseteq Calls /\ Elements(memberQueue) \subseteq Calls
  OBVIOUS
<1>1. launchQueue \in Seq(Calls) /\ memberQueue \in Seq(Calls)
  BY DEF LaunchTypeOK
<1> QED
  BY <1>1 DEF Elements

LEMMA QuietStep ==
  ASSUME LaunchInv, UNCHANGED <<calls, launchQueue, memberQueue, holding, row>>, ctl'.pending = ctl.pending,
         main' = main \/ (main \notin Elsewhere /\ main' \notin Elsewhere)
  PROVE  LaunchParts'
<1>1. Up' = Up /\ (main # "close") = (main' # "close") /\ Makers' = Makers
  BY DEF Up, Elsewhere, Makers
<1>2. OpenLaunches' = OpenLaunches
  BY DEF OpenLaunches
<1>3. QueueInv'
  BY <1>1 DEF LaunchInv, QueueInv, Handed, Elsewhere, Elements, Distinct
<1>4. CallsInv' /\ MadeInv' /\ OneLaunch' /\ AppliedAsExpected'
  BY <1>1, <1>2 DEF LaunchInv, CallsInv, MadeInv, OneLaunch, AppliedAsExpected
<1> QED
  BY <1>3, <1>4 DEF LaunchParts

(* A command that its own thread still works on is nowhere else.               *)
LEMMA NotHanded ==
  ASSUME LaunchInv, Up, NEW c \in Calls, calls[c].step \notin {"waits", "done"}
  PROVE  /\ c # holding /\ c \notin Elements(launchQueue) /\ c \notin Elements(memberQueue)
         /\ calls[c].made = 0
BY NoCallAssumption DEF LaunchInv, QueueInv, CallsInv, Handed

LEMMA SameMakers ==
  ASSUME NEW c \in Calls, NEW s, NEW a, Becomes(calls', c, s, a, calls[c].made)
  PROVE  Makers' = Makers
BY DEF Becomes, Makers

LEMMA MoreMakers ==
  ASSUME NEW c \in Calls, NEW s, NEW a, NEW g, g # 0, Becomes(calls', c, s, a, g)
  PROVE  Makers' = Makers \cup {c}
BY DEF Becomes, Makers

(* The thread of a command goes on, nothing is made and nobody else concerned. *)
LEMMA OwnStep ==
  ASSUME LaunchInv, Up, NEW c \in Calls, NEW s \in {"checked", "runs", "stops", "done"}, NEW a,
         calls[c].step \in {"sent", "checked", "runs", "stops"}, Becomes(calls', c, s, a, calls[c].made),
         s \in {"runs", "stops"} => calls[c].kind = "member", ctl'.pending = ctl.pending,
         UNCHANGED <<main, launchQueue, memberQueue, holding, row>>
  PROVE  LaunchParts'
<1>1. /\ c # holding /\ c \notin Elements(launchQueue) /\ c \notin Elements(memberQueue)
      /\ calls[c].made = 0
  BY NotHanded
<1>2. /\ Elements(launchQueue)' = Elements(launchQueue) /\ Elements(memberQueue)' = Elements(memberQueue)
      /\ Distinct(launchQueue)' = Distinct(launchQueue) /\ Distinct(memberQueue)' = Distinct(memberQueue)
      /\ Elements(launchQueue) \subseteq Calls /\ Elements(memberQueue) \subseteq Calls /\ Up'
  BY ElementsAreCalls DEF Elements, Distinct, Up, LaunchInv
<1>3. CallsInv'
  BY <1>1, <1>2 DEF LaunchInv, CallsInv, Becomes
<1>4. \A d \in Calls \ {c}, k \in Kinds : Handed(d, k)' = Handed(d, k)
  BY DEF Becomes, Handed
<1>5. QueueInv'
  BY <1>1, <1>2, <1>4 DEF LaunchInv, QueueInv, Kinds
<1>6. OpenLaunches' = OpenLaunches
  BY <1>1, <1>2, OpenAre DEF Becomes, OpenLaunches, Elements
<1>7. OneLaunch'
  BY <1>2, <1>6 DEF LaunchInv, OneLaunch
<1>8. MadeInv'
  BY SameMakers DEF LaunchInv, MadeInv
<1>9. AppliedAsExpected'
  BY <1>1 DEF LaunchInv, AppliedAsExpected, Becomes
<1> QED
  BY <1>3, <1>5, <1>7, <1>8, <1>9 DEF LaunchParts

(* The record of a stop makes the next revision in its own transaction.        *)
LEMMA RecordedStep ==
  ASSUME LaunchInv, Up, NEW c \in Calls, calls[c].step = "checked", Expected(c),
         Becomes(calls', c, "done", "done", row.gen + 1), row'.gen = row.gen + 1,
         UNCHANGED <<main, launchQueue, memberQueue, holding, ctl>>
  PROVE  LaunchParts'
<1>1. /\ c # holding /\ c \notin Elements(launchQueue) /\ c \notin Elements(memberQueue)
      /\ calls[c].made = 0
  BY NotHanded
<1>2. /\ Elements(launchQueue)' = Elements(launchQueue) /\ Elements(memberQueue)' = Elements(memberQueue)
      /\ Distinct(launchQueue)' = Distinct(launchQueue) /\ Distinct(memberQueue)' = Distinct(memberQueue)
      /\ Elements(launchQueue) \subseteq Calls /\ Elements(memberQueue) \subseteq Calls /\ Up'
  BY ElementsAreCalls DEF Elements, Distinct, Up, LaunchInv
<1>3. CallsInv'
  BY <1>1, <1>2 DEF LaunchInv, CallsInv, Becomes
<1>4. \A d \in Calls \ {c}, k \in Kinds : Handed(d, k)' = Handed(d, k)
  BY DEF Becomes, Handed
<1>5. QueueInv'
  BY <1>1, <1>2, <1>4 DEF LaunchInv, QueueInv, Kinds
<1>6. OpenLaunches' = OpenLaunches
  BY <1>1, <1>2, OpenAre DEF Becomes, OpenLaunches, Elements
<1>7. OneLaunch'
  BY <1>2, <1>6 DEF LaunchInv, OneLaunch
<1>8. MadeInv'
  BY <1>1, OneMoreMaker, MoreMakers DEF LaunchInv, MadeInv
<1>9. AppliedAsExpected'
  BY <1>1 DEF LaunchInv, AppliedAsExpected, Becomes, Expected
<1> QED
  BY <1>3, <1>5, <1>7, <1>8, <1>9 DEF LaunchParts

(* The operator sends a command he has not sent yet.                           *)
LEMMA SendStep ==
  ASSUME LaunchInv, NEW c \in Calls, Send(c)
  PROVE  LaunchParts' /\ calls' \in [Calls -> CallTypes]
<1>1. PICK k \in Kinds, e \in {AnyRevision, row.gen} : calls' = [calls EXCEPT ![c] = Command(k, e)]
  BY DEF Send
<1>2. Up /\ calls[c].step = "unsent" /\ UNCHANGED <<main, launchQueue, memberQueue, holding, row, ctl>>
  BY DEF Send, mainVars
<1>3. calls \in [Calls -> CallTypes] /\ row.gen \in Revisions
  BY TypedCalls DEF LaunchInv, LaunchTypeOK
<1>4. Command(k, e) \in CallTypes
  BY <1>3, RevisionsAreNat DEF Command, CallTypes
<1>5. calls' \in [Calls -> CallTypes] /\ (\A d \in Calls \ {c} : calls'[d] = calls[d])
      /\ calls'[c].step = "sent" /\ calls'[c].made = 0
  BY <1>1, <1>3, <1>4 DEF Command
<1>6. /\ c # holding /\ c \notin Elements(launchQueue) /\ c \notin Elements(memberQueue)
      /\ calls[c].made = 0
  BY <1>2, NotHanded
<1>7. /\ Elements(launchQueue)' = Elements(launchQueue) /\ Elements(memberQueue)' = Elements(memberQueue)
      /\ Distinct(launchQueue)' = Distinct(launchQueue) /\ Distinct(memberQueue)' = Distinct(memberQueue)
      /\ Elements(launchQueue) \subseteq Calls /\ Elements(memberQueue) \subseteq Calls /\ Up'
  BY <1>2, ElementsAreCalls DEF Elements, Distinct, Up, LaunchInv
<1>8. CallsInv'
  BY <1>5, <1>7 DEF LaunchInv, CallsInv
<1>9. \A d \in Calls \ {c}, kk \in Kinds : Handed(d, kk)' = Handed(d, kk)
  BY <1>5 DEF Handed
<1>10. QueueInv'
  BY <1>2, <1>6, <1>7, <1>9 DEF LaunchInv, QueueInv, Kinds
<1>11. OpenLaunches' = OpenLaunches
  BY <1>2, <1>5, <1>6, <1>7, OpenAre DEF OpenLaunches, Elements
<1>12. OneLaunch'
  BY <1>2, <1>7, <1>11 DEF LaunchInv, OneLaunch
<1>13. Makers' = Makers
  BY <1>5, <1>6 DEF Makers
<1>14. MadeInv' /\ AppliedAsExpected'
  BY <1>2, <1>5, <1>13 DEF LaunchInv, MadeInv, AppliedAsExpected
<1> QED
  BY <1>5, <1>8, <1>10, <1>12, <1>14 DEF LaunchParts

(* submit() accepts a launch: there was none.                                  *)
LEMMA DecideStep ==
  ASSUME LaunchInv, Up, NEW c \in Calls, calls[c].step = "checked", calls[c].kind = "start",
         ctl.pending = NoCall, ctl'.pending = c, Becomes(calls', c, "decided", calls[c].answer, calls[c].made),
         UNCHANGED <<main, launchQueue, memberQueue, holding, row>>
  PROVE  LaunchParts'
<1>1. /\ c # holding /\ c \notin Elements(launchQueue) /\ c \notin Elements(memberQueue)
      /\ calls[c].made = 0
  BY NotHanded
<1>2. /\ Elements(launchQueue)' = Elements(launchQueue) /\ Elements(memberQueue)' = Elements(memberQueue)
      /\ Distinct(launchQueue)' = Distinct(launchQueue) /\ Distinct(memberQueue)' = Distinct(memberQueue)
      /\ Elements(launchQueue) \subseteq Calls /\ Elements(memberQueue) \subseteq Calls /\ Up'
  BY ElementsAreCalls DEF Elements, Distinct, Up, LaunchInv
<1>3. CallsInv'
  BY <1>1, <1>2 DEF LaunchInv, CallsInv, Becomes
<1>4. \A d \in Calls \ {c}, k \in Kinds : Handed(d, k)' = Handed(d, k)
  BY DEF Becomes, Handed
<1>5. QueueInv'
  BY <1>1, <1>2, <1>4 DEF LaunchInv, QueueInv, Kinds
<1>6. OpenLaunches' = OpenLaunches \cup {c}
  BY <1>1, <1>2, OpenAre DEF Becomes, OpenLaunches, Elements
<1>7. OneLaunch'
  BY <1>2, <1>6, NoCallAssumption DEF LaunchInv, OneLaunch
<1>8. MadeInv'
  BY SameMakers DEF LaunchInv, MadeInv
<1>9. AppliedAsExpected'
  BY <1>1 DEF LaunchInv, AppliedAsExpected, Becomes
<1> QED
  BY <1>3, <1>5, <1>7, <1>8, <1>9 DEF LaunchParts

(* The accepted launch is put into the queue.                                  *)
LEMMA PutStep ==
  ASSUME LaunchInv, NEW c \in Calls, SubmitPuts(c)
  PROVE  LaunchParts' /\ calls' \in [Calls -> CallTypes] /\ launchQueue' \in Seq(Calls)
<1>1. Up /\ calls[c].step = "decided" /\ launchQueue' = Append(launchQueue, c)
      /\ UNCHANGED <<main, memberQueue, holding, row, ctl>>
  BY DEF SubmitPuts, mainVars
<1>2. calls \in [Calls -> CallTypes] /\ launchQueue \in Seq(Calls)
  BY TypedCalls DEF LaunchInv, LaunchTypeOK
<1>3. Becomes(calls', c, "waits", calls[c].answer, calls[c].made)
  BY <1>2, StepIs DEF SubmitPuts, Steps
<1>4. /\ c # holding /\ c \notin Elements(launchQueue) /\ c \notin Elements(memberQueue)
      /\ calls[c].made = 0 /\ calls[c].kind = "start"
  BY <1>1, NotHanded DEF LaunchInv, CallsInv
<1>5. launchQueue' \in Seq(Calls) /\ Distinct(launchQueue)'
      /\ Elements(launchQueue)' = Elements(launchQueue) \cup {c}
  <2>1. Distinct(launchQueue)
    BY <1>1 DEF LaunchInv, QueueInv
  <2> QED
    BY <1>1, <1>2, <1>4, <2>1, Appended DEF Elements, Distinct
<1>6. /\ Elements(memberQueue)' = Elements(memberQueue) /\ Distinct(memberQueue)' = Distinct(memberQueue)
      /\ Elements(launchQueue) \subseteq Calls /\ Elements(memberQueue) \subseteq Calls /\ Up'
  BY <1>1, ElementsAreCalls DEF Elements, Distinct, Up, LaunchInv
<1>7. CallsInv'
  BY <1>3, <1>4, <1>6 DEF LaunchInv, CallsInv, Becomes
<1>8. (\A d \in Calls \ {c}, k \in Kinds : Handed(d, k)' = Handed(d, k)) /\ Handed(c, "start")'
  BY <1>3, <1>4 DEF Becomes, Handed
<1>9. QueueInv'
  BY <1>1, <1>4, <1>5, <1>6, <1>8 DEF LaunchInv, QueueInv, Kinds
<1>10. OpenLaunches' = OpenLaunches
  <2>1. OpenLaunches' = {d \in Calls : /\ calls'[d].kind = "start"
                                       /\ calls'[d].step = "decided" \/ d = holding' \/ d \in Elements(launchQueue)'}
    BY DEF OpenLaunches, Elements
  <2> QED
    BY <1>1, <1>3, <1>4, <1>5, <2>1, OpenAre DEF Becomes
<1>11. OneLaunch'
  BY <1>1, <1>6, <1>10 DEF LaunchInv, OneLaunch
<1>12. MadeInv'
  BY <1>1, <1>3, SameMakers DEF LaunchInv, MadeInv
<1>13. AppliedAsExpected'
  BY <1>3, <1>4 DEF LaunchInv, AppliedAsExpected, Becomes
<1> QED
  BY <1>3, <1>5, <1>7, <1>9, <1>11, <1>12, <1>13 DEF LaunchParts, Becomes

(* The change of the members is put into its queue.                            *)
LEMMA MemberPutStep ==
  ASSUME LaunchInv, Up, NEW c \in Calls, calls[c].step \in {"runs", "stops"},
         memberQueue' = Append(memberQueue, c), calls' = [calls EXCEPT ![c].step = "waits"],
         UNCHANGED <<main, launchQueue, holding, row, ctl>>
  PROVE  LaunchParts' /\ calls' \in [Calls -> CallTypes] /\ memberQueue' \in Seq(Calls)
<1>2. calls \in [Calls -> CallTypes] /\ memberQueue \in Seq(Calls)
  BY TypedCalls DEF LaunchInv, LaunchTypeOK
<1>3. Becomes(calls', c, "waits", calls[c].answer, calls[c].made)
  BY <1>2, StepIs DEF Steps
<1>4. /\ c # holding /\ c \notin Elements(launchQueue) /\ c \notin Elements(memberQueue)
      /\ calls[c].made = 0 /\ calls[c].kind = "member"
  BY NotHanded DEF LaunchInv, CallsInv
<1>5. memberQueue' \in Seq(Calls) /\ Distinct(memberQueue)'
      /\ Elements(memberQueue)' = Elements(memberQueue) \cup {c}
  <2>1. Distinct(memberQueue)
    BY DEF LaunchInv, QueueInv
  <2> QED
    BY <1>2, <1>4, <2>1, Appended, SMTT(60) DEF Elements, Distinct
<1>6. /\ Elements(launchQueue)' = Elements(launchQueue) /\ Distinct(launchQueue)' = Distinct(launchQueue)
      /\ Elements(launchQueue) \subseteq Calls /\ Elements(memberQueue) \subseteq Calls /\ Up'
  BY ElementsAreCalls DEF Elements, Distinct, Up, LaunchInv
<1>7. CallsInv'
  BY <1>3, <1>4, <1>6 DEF LaunchInv, CallsInv, Becomes
<1>8. (\A d \in Calls \ {c}, k \in Kinds : Handed(d, k)' = Handed(d, k)) /\ Handed(c, "member")'
  BY <1>3, <1>4 DEF Becomes, Handed
<1>9. QueueInv'
  BY <1>4, <1>5, <1>6, <1>8 DEF LaunchInv, QueueInv, Kinds
<1>10. OpenLaunches' = OpenLaunches
  <2>1. OpenLaunches' = {d \in Calls : /\ calls'[d].kind = "start"
                                       /\ calls'[d].step = "decided" \/ d = holding' \/ d \in Elements(launchQueue)'}
    BY DEF OpenLaunches, Elements
  <2> QED
    BY <1>3, <1>4, <1>6, <2>1, OpenAre DEF Becomes
<1>11. OneLaunch'
  BY <1>6, <1>10 DEF LaunchInv, OneLaunch
<1>12. MadeInv'
  BY <1>3, SameMakers DEF LaunchInv, MadeInv
<1>13. AppliedAsExpected'
  BY <1>3, <1>4 DEF LaunchInv, AppliedAsExpected, Becomes
<1> QED
  BY <1>3, <1>5, <1>7, <1>9, <1>11, <1>12, <1>13 DEF LaunchParts, Becomes

(* A thread that waited long enough answers 202; its command stays handed.     *)
LEMMA TimeOutStep ==
  ASSUME LaunchInv, NEW c \in Calls, CallTimesOut(c)
  PROVE  LaunchParts' /\ calls' \in [Calls -> CallTypes]
<1>1. Up /\ calls[c].step = "waits" /\ UNCHANGED <<main, launchQueue, memberQueue, holding, row, ctl>>
  BY DEF CallTimesOut, mainVars
<1>2. calls \in [Calls -> CallTypes]
  BY TypedCalls DEF LaunchInv
<1>3. Becomes(calls', c, "done", "late", calls[c].made)
  BY <1>2, DoneIs DEF CallTimesOut, Answers
<1>4. calls[c].made = 0
  BY <1>1 DEF LaunchInv, CallsInv
<1>5. /\ Elements(launchQueue)' = Elements(launchQueue) /\ Elements(memberQueue)' = Elements(memberQueue)
      /\ Distinct(launchQueue)' = Distinct(launchQueue) /\ Distinct(memberQueue)' = Distinct(memberQueue)
      /\ Elements(launchQueue) \subseteq Calls /\ Elements(memberQueue) \subseteq Calls /\ Up'
  BY <1>1, ElementsAreCalls DEF Elements, Distinct, Up, LaunchInv
<1>6. CallsInv'
  BY <1>3, <1>4, <1>5 DEF LaunchInv, CallsInv, Becomes
<1>7. \A d \in Calls, k \in Kinds : Handed(d, k)' = Handed(d, k)
  BY <1>1, <1>3, <1>4 DEF Becomes, Handed
<1>8. QueueInv'
  BY <1>1, <1>5, <1>7 DEF LaunchInv, QueueInv, Kinds
<1>9. OpenLaunches' = OpenLaunches
  BY <1>1, <1>3, <1>5, OpenAre DEF Becomes, OpenLaunches, Elements
<1>10. OneLaunch'
  BY <1>1, <1>5, <1>9 DEF LaunchInv, OneLaunch
<1>11. MadeInv'
  BY <1>1, <1>3, SameMakers DEF LaunchInv, MadeInv
<1>12. AppliedAsExpected'
  BY <1>3, <1>4 DEF LaunchInv, AppliedAsExpected, Becomes
<1> QED
  BY <1>3, <1>6, <1>8, <1>10, <1>11, <1>12 DEF LaunchParts, Becomes

(* The main thread takes the oldest command of a queue into its hand.          *)
LEMMA TakeLaunchStep ==
  ASSUME LaunchInv, TakeLaunch
  PROVE  LaunchParts' /\ launchQueue' \in Seq(Calls) /\ holding' \in Calls
<1>1. /\ main = "await" /\ main' = "resolve" /\ launchQueue # <<>>
      /\ holding' = Head(launchQueue) /\ launchQueue' = Tail(launchQueue)
      /\ UNCHANGED <<memberQueue, calls, row, ctl>>
  BY DEF TakeLaunch
<1>2. launchQueue \in Seq(Calls) /\ Up /\ Up' /\ Distinct(launchQueue)
  BY <1>1 DEF LaunchInv, LaunchTypeOK, QueueInv, Up
<1>3. /\ launchQueue' \in Seq(Calls) /\ Distinct(launchQueue)' /\ holding' \in Calls
      /\ holding' \in Elements(launchQueue) /\ Elements(launchQueue)' = Elements(launchQueue) \ {holding'}
  <2>1. /\ Tail(launchQueue) \in Seq(Calls) /\ Distinct(Tail(launchQueue)) /\ Head(launchQueue) \in Calls
        /\ Head(launchQueue) \in Elements(launchQueue)
        /\ Elements(Tail(launchQueue)) = Elements(launchQueue) \ {Head(launchQueue)}
    BY <1>1, <1>2, Taken
  <2>2. Elements(launchQueue)' = Elements(Tail(launchQueue)) /\ Distinct(launchQueue)' = Distinct(Tail(launchQueue))
    BY <1>1 DEF Elements, Distinct
  <2> QED
    BY <1>1, <2>1, <2>2
<1>4. /\ Elements(memberQueue)' = Elements(memberQueue) /\ Distinct(memberQueue)' = Distinct(memberQueue)
      /\ Elements(launchQueue) \subseteq Calls /\ holding = NoCall
  BY <1>1, <1>2, ElementsAreCalls DEF Elements, Distinct, LaunchInv, QueueInv
<1>5. \A d, k : Handed(d, k)' = Handed(d, k)
  BY <1>1 DEF Handed
<1>6. QueueInv'
  BY <1>1, <1>2, <1>3, <1>4, <1>5 DEF LaunchInv, QueueInv
<1>7. OpenLaunches' = OpenLaunches
  <2>1. OpenLaunches' = {d \in Calls : /\ calls[d].kind = "start"
                                       /\ calls[d].step = "decided" \/ d = holding' \/ d \in Elements(launchQueue)'}
    BY <1>1 DEF OpenLaunches, Elements
  <2> QED
    BY <1>3, <1>4, <2>1, OpenAre, NoCallAssumption
<1>8. OneLaunch'
  BY <1>1, <1>2, <1>7 DEF LaunchInv, OneLaunch
<1>9. CallsInv' /\ MadeInv' /\ AppliedAsExpected'
  BY <1>1, <1>2 DEF LaunchInv, CallsInv, MadeInv, AppliedAsExpected, Makers
<1> QED
  BY <1>3, <1>6, <1>8, <1>9 DEF LaunchParts

LEMMA TakeMemberStep ==
  ASSUME LaunchInv, TakeMember
  PROVE  LaunchParts' /\ memberQueue' \in Seq(Calls) /\ holding' \in Calls
<1>1. /\ main = "supervise" /\ main' = "member" /\ memberQueue # <<>>
      /\ holding' = Head(memberQueue) /\ memberQueue' = Tail(memberQueue)
      /\ UNCHANGED <<launchQueue, calls, row, ctl>>
  BY DEF TakeMember
<1>2. memberQueue \in Seq(Calls) /\ Up /\ Up' /\ Distinct(memberQueue)
  BY <1>1 DEF LaunchInv, LaunchTypeOK, QueueInv, Up
<1>3. /\ memberQueue' \in Seq(Calls) /\ Distinct(memberQueue)' /\ holding' \in Calls
      /\ holding' \in Elements(memberQueue) /\ Elements(memberQueue)' = Elements(memberQueue) \ {holding'}
  <2>1. /\ Tail(memberQueue) \in Seq(Calls) /\ Distinct(Tail(memberQueue)) /\ Head(memberQueue) \in Calls
        /\ Head(memberQueue) \in Elements(memberQueue)
        /\ Elements(Tail(memberQueue)) = Elements(memberQueue) \ {Head(memberQueue)}
    BY <1>1, <1>2, Taken
  <2>2. Elements(memberQueue)' = Elements(Tail(memberQueue)) /\ Distinct(memberQueue)' = Distinct(Tail(memberQueue))
    BY <1>1 DEF Elements, Distinct
  <2> QED
    BY <1>1, <2>1, <2>2
<1>4. /\ Elements(launchQueue)' = Elements(launchQueue) /\ Distinct(launchQueue)' = Distinct(launchQueue)
      /\ Elements(memberQueue) \subseteq Calls /\ holding = NoCall
  BY <1>1, <1>2, ElementsAreCalls DEF Elements, Distinct, LaunchInv, QueueInv
<1>5. \A d, k : Handed(d, k)' = Handed(d, k)
  BY <1>1 DEF Handed
<1>6. QueueInv'
  BY <1>1, <1>2, <1>3, <1>4, <1>5 DEF LaunchInv, QueueInv
<1>7. calls[holding'].kind = "member"
  BY <1>2, <1>3 DEF LaunchInv, QueueInv, Handed
<1>8. OpenLaunches' = OpenLaunches
  <2>1. OpenLaunches' = {d \in Calls : /\ calls[d].kind = "start"
                                       /\ calls[d].step = "decided" \/ d = holding' \/ d \in Elements(launchQueue)}
    BY <1>1 DEF OpenLaunches, Elements
  <2> QED
    BY <1>4, <1>7, <2>1, OpenAre, NoCallAssumption
<1>9. OneLaunch'
  BY <1>1, <1>2, <1>8 DEF LaunchInv, OneLaunch
<1>10. CallsInv' /\ MadeInv' /\ AppliedAsExpected'
  BY <1>1, <1>2 DEF LaunchInv, CallsInv, MadeInv, AppliedAsExpected, Makers
<1> QED
  BY <1>3, <1>6, <1>9, <1>10 DEF LaunchParts

(* The main thread has settled the command in its hand; a launch is no longer  *)
(* pending then, and a revision that was made is the command's.                *)
LEMMA AnswerStep ==
  ASSUME LaunchInv, main \in {"resolve", "member"}, main' \notin Elsewhere, holding' = NoCall,
         NEW a, NEW g, Becomes(calls', holding, "done", a, g), UNCHANGED <<launchQueue, memberQueue>>,
         ctl'.pending = IF main = "resolve" THEN NoCall ELSE ctl.pending,
         \/ g = 0 /\ row' = row
         \/ g = row.gen + 1 /\ row'.gen = g /\ Expected(holding) /\ a # "refused"
  PROVE  LaunchParts'
<1>1. Up /\ Up' /\ holding \in Calls /\ calls[holding].made = 0
      /\ calls[holding].step \in {"waits", "done"}
      /\ calls[holding].kind = IF main = "resolve" THEN "start" ELSE "member"
  BY DEF Up, Elsewhere, LaunchInv, QueueInv, Handed
<1>2. /\ Elements(launchQueue)' = Elements(launchQueue) /\ Elements(memberQueue)' = Elements(memberQueue)
      /\ Distinct(launchQueue)' = Distinct(launchQueue) /\ Distinct(memberQueue)' = Distinct(memberQueue)
      /\ Elements(launchQueue) \subseteq Calls /\ Elements(memberQueue) \subseteq Calls
  BY ElementsAreCalls DEF Elements, Distinct, LaunchInv
<1>3. holding \notin Elements(launchQueue) /\ holding \notin Elements(memberQueue)
  BY <1>1 DEF LaunchInv, QueueInv, Handed
<1>4. \A d \in Calls \ {holding}, k \in Kinds : Handed(d, k)' = Handed(d, k)
  BY <1>1 DEF Becomes, Handed
<1>5. QueueInv'
  BY <1>1, <1>2, <1>3, <1>4 DEF LaunchInv, QueueInv, Kinds, Elsewhere
<1>6. CallsInv'
  BY <1>1 DEF LaunchInv, CallsInv, Becomes
<1>7. OpenLaunches' = OpenLaunches \ {holding}
  <2>1. OpenLaunches' = {d \in Calls : /\ calls'[d].kind = "start"
                                       /\ calls'[d].step = "decided" \/ d = holding' \/ d \in Elements(launchQueue)'}
    BY DEF OpenLaunches, Elements
  <2> QED
    BY <1>1, <1>2, <1>3, <2>1, OpenAre, NoCallAssumption DEF Becomes
<1>8. OneLaunch'
  <2>1. OpenLaunches = {ctl.pending} \ {NoCall}
    BY <1>1 DEF LaunchInv, OneLaunch
  <2>2. main = "resolve" => holding \in OpenLaunches
    BY <1>1, OpenAre
  <2>3. main = "member" => holding \notin OpenLaunches
    BY <1>1, OpenAre
  <2> QED
    BY <1>7, <2>1, <2>2, <2>3 DEF OneLaunch
<1>9. MadeInv'
  <2>1. CASE g = 0 /\ row' = row
    BY <1>1, <2>1, SameMakers DEF LaunchInv, MadeInv
  <2>2. CASE g = row.gen + 1 /\ row'.gen = g
    BY <1>1, <2>2, OneMoreMaker, MoreMakers DEF LaunchInv, MadeInv
  <2> QED
    BY <2>1, <2>2
<1>10. AppliedAsExpected'
  BY <1>1 DEF LaunchInv, AppliedAsExpected, Becomes, Expected
<1> QED
  BY <1>5, <1>6, <1>8, <1>9, <1>10 DEF LaunchParts

(* The robot leaves: nothing is in the hand of the main thread any more.       *)
LEMMA LeaveStep ==
  ASSUME LaunchInv, Up, Leave
  PROVE  LaunchParts'
<1>1. main' = "close" /\ holding' = NoCall /\ UNCHANGED <<calls, launchQueue, memberQueue, row>> /\ Up'
  BY DEF Leave, Up
<1>2. \A d, k : Handed(d, k)' = Handed(d, k)
  BY <1>1 DEF Handed
<1>3. QueueInv'
  BY <1>1, <1>2 DEF LaunchInv, QueueInv, Elements, Distinct
<1>4. OneLaunch' /\ CallsInv' /\ MadeInv' /\ AppliedAsExpected'
  BY <1>1 DEF LaunchInv, OneLaunch, CallsInv, MadeInv, AppliedAsExpected, Makers
<1> QED
  BY <1>3, <1>4 DEF LaunchParts

(* The robot is gone, with its threads.                                        *)
LEMMA EndStep ==
  ASSUME LaunchInv, Up, main' = "down", calls' = Hangup, row' = row
  PROVE  LaunchParts' /\ calls' \in [Calls -> CallTypes]
<1>1. calls' \in [Calls -> CallTypes]
      /\ \A c \in Calls : /\ calls'[c].kind = calls[c].kind /\ calls'[c].expected = calls[c].expected
                          /\ calls'[c].made = calls[c].made /\ calls'[c].step \in {"unsent", "done"}
                          /\ calls'[c].step = "unsent" => calls[c].step = "unsent"
                          /\ calls'[c].answer \in {calls[c].answer, "lost"}
  BY HangupIs, TypedCalls DEF LaunchInv
<1>2. ~Up'
  BY DEF Up
<1>3. QueueInv' /\ OneLaunch'
  BY <1>2 DEF QueueInv, OneLaunch
<1>4. CallsInv' /\ AppliedAsExpected'
  BY <1>1 DEF LaunchInv, CallsInv, AppliedAsExpected
<1>5. Makers' = Makers
  BY <1>1 DEF Makers
<1> QED
  BY <1>1, <1>3, <1>4, <1>5 DEF LaunchInv, MadeInv, LaunchParts

(* A robot that boots knows of no command.                                     *)
LEMMA BootStep ==
  ASSUME LaunchInv, RobotBoots
  PROVE  LaunchParts'
<1>1. /\ ~Up /\ main' = "core" /\ launchQueue' = <<>> /\ memberQueue' = <<>> /\ holding' = NoCall
      /\ ctl'.pending = NoCall /\ UNCHANGED <<calls, row>>
  BY DEF RobotBoots, FreshControl, Up
<1>2. \A c \in Calls : calls[c].step \in {"unsent", "done"}
  BY <1>1 DEF LaunchInv, CallsInv
<1>3. Elements(launchQueue)' = {} /\ Elements(memberQueue)' = {} /\ Distinct(launchQueue)' /\ Distinct(memberQueue)'
  BY <1>1 DEF Elements, Distinct
<1>4. QueueInv'
  BY <1>1, <1>3 DEF QueueInv
<1>5. OpenLaunches' = {}
  BY <1>1, <1>2, NoCallAssumption DEF OpenLaunches
<1>6. OneLaunch'
  BY <1>1, <1>5 DEF OneLaunch
<1>7. CallsInv' /\ MadeInv' /\ AppliedAsExpected'
  BY <1>1, <1>2 DEF LaunchInv, CallsInv, MadeInv, AppliedAsExpected, Makers
<1> QED
  BY <1>4, <1>6, <1>7 DEF LaunchParts

(* An answer reaches its caller, or finds that it gave up.                     *)
LEMMA ReplyIs ==
  ASSUME LaunchInv, main \in {"resolve", "member"}, NEW a \in Answers
  PROVE  \E b \in {a, "late"} : Becomes(Reply(holding, a), holding, "done", b, 0)
<1>1. holding \in Calls /\ calls[holding].made = 0 /\ calls \in [Calls -> CallTypes]
      /\ (calls[holding].step = "waits" \/ (calls[holding].step = "done" /\ calls[holding].answer = "late"))
  BY TypedCalls DEF LaunchInv, QueueInv, Handed, Up
<1>2. CASE calls[holding].step = "waits"
  BY <1>1, <1>2, DoneIs DEF Reply
<1>3. CASE calls[holding].step # "waits"
  BY <1>1, <1>3 DEF Reply, Becomes
<1> QED
  BY <1>2, <1>3

LEMMA ReplyMadeIs ==
  ASSUME LaunchInv, main \in {"resolve", "member"}, NEW g \in Revisions
  PROVE  \E b \in {"done", "late"} : Becomes(ReplyMade(holding, "done", g), holding, "done", b, g)
<1>1. holding \in Calls /\ calls[holding].made = 0 /\ calls \in [Calls -> CallTypes]
      /\ (calls[holding].step = "waits" \/ (calls[holding].step = "done" /\ calls[holding].answer = "late"))
  BY TypedCalls DEF LaunchInv, QueueInv, Handed, Up
<1>2. CASE calls[holding].step = "waits"
  BY <1>1, <1>2, MadeIs DEF ReplyMade, Answers
<1>3. CASE calls[holding].step # "waits"
  <2>1. Becomes([calls EXCEPT ![holding].made = g], holding, calls[holding].step, calls[holding].answer, g)
    BY <1>1, OnlyMadeIs
  <2> QED
    BY <1>1, <1>3, <2>1 DEF ReplyMade
<1> QED
  BY <1>2, <1>3

(* Every step of the thread of a command keeps the parts of the invariant.     *)
LEMMA ThreadStep ==
  ASSUME LaunchInv, NEW c \in Calls, CallStep(c)
  PROVE  LaunchParts' /\ calls' \in [Calls -> CallTypes]
<1>0. calls \in [Calls -> CallTypes]
  BY TypedCalls DEF LaunchInv
<1>1. CASE SubmitChecks(c)
  <2>1. \E s \in {"checked", "done"} : \E a : Becomes(calls', c, s, a, calls[c].made)
    BY <1>0, <1>1, DoneIs, StepIs DEF SubmitChecks, Steps, Answers
  <2> QED
    BY <1>1, <2>1, OwnStep DEF SubmitChecks, mainVars, Becomes
<1>2. CASE SubmitDecides(c)
  <2>1. CASE CanStart
    <3>1. Becomes(calls', c, "decided", calls[c].answer, calls[c].made)
      BY <1>0, <1>2, <2>1, StepIs DEF SubmitDecides, Steps
    <3>2. ctl.pending = NoCall /\ ctl'.pending = c
      BY <1>2, <2>1 DEF SubmitDecides, CanStart, LaunchInv, LaunchTypeOK
    <3> QED
      BY <1>2, <3>1, <3>2, DecideStep DEF SubmitDecides, mainVars, Becomes
  <2>2. CASE ~CanStart
    <3>1. Becomes(calls', c, "done", "refused", calls[c].made) /\ ctl' = ctl
      BY <1>0, <1>2, <2>2, DoneIs DEF SubmitDecides, Answers
    <3> QED
      BY <1>2, <3>1, OwnStep DEF SubmitDecides, mainVars, Becomes
  <2> QED
    BY <2>1, <2>2
<1>3. CASE SubmitPuts(c)
  BY <1>3, PutStep
<1>4. CASE StopLooks(c)
  <2>1. \E s \in {"checked", "done"} : \E a : Becomes(calls', c, s, a, calls[c].made)
    BY <1>0, <1>4, DoneIs, StepIs DEF StopLooks, Steps, Answers
  <2> QED
    BY <1>4, <2>1, OwnStep DEF StopLooks, mainVars, Becomes
<1>5. CASE StopRecords(c)
  <2>1. Up /\ calls[c].step = "checked" /\ UNCHANGED <<main, launchQueue, memberQueue, holding, ctl>>
    BY <1>5 DEF StopRecords, mainVars
  <2>2. CASE row' = row /\ \E a \in {"refused", "done"} : calls' = Done(c, a)
    <3>1. \E a : Becomes(calls', c, "done", a, calls[c].made)
      BY <1>0, <2>2, DoneIs DEF Answers
    <3> QED
      BY <2>1, <2>2, <3>1, OwnStep DEF Becomes
  <2>3. CASE Expected(c) /\ row'.gen = row.gen + 1 /\ calls' = Made(c, "done", row.gen + 1)
    <3>1. calls[c].made = 0
      BY <2>1 DEF LaunchInv, CallsInv
    <3>2. Becomes(calls', c, "done", "done", row.gen + 1)
      BY <1>0, <2>3, <3>1, MadeIs, OneMoreMaker DEF Answers, LaunchInv
    <3> QED
      BY <2>1, <2>3, <3>2, RecordedStep DEF Becomes
  <2> QED
    BY <1>5, <2>2, <2>3 DEF StopRecords, RecordStopMode
<1>6. CASE MemberReads(c)
  <2>1. \E s \in {"runs", "stops"} : calls' = [calls EXCEPT ![c].step = s]
    BY <1>6 DEF MemberReads
  <2>2. \E s \in {"runs", "stops"} : \E a : Becomes(calls', c, s, a, calls[c].made)
    BY <1>0, <2>1, StepIs DEF Steps
  <2> QED
    BY <1>6, <2>2, OwnStep DEF MemberReads, mainVars, Becomes
<1>7. CASE MemberPuts(c)
  <2>1. CASE calls' = Done(c, "refused") /\ memberQueue' = memberQueue
    <3>1. Becomes(calls', c, "done", "refused", calls[c].made)
      BY <1>0, <2>1, DoneIs DEF Answers
    <3> QED
      BY <1>7, <2>1, <3>1, OwnStep DEF MemberPuts, mainVars, Becomes
  <2>2. CASE memberQueue' = Append(memberQueue, c) /\ calls' = [calls EXCEPT ![c].step = "waits"]
    BY <1>7, <2>2, MemberPutStep DEF MemberPuts, mainVars
  <2> QED
    BY <1>7, <2>1, <2>2 DEF MemberPuts
<1> QED
  BY <1>1, <1>2, <1>3, <1>4, <1>5, <1>6, <1>7 DEF CallStep

(* ... and so does every answer of the main thread.                            *)
LEMMA MainAnswers ==
  ASSUME LaunchInv, \/ Reject \/ LaunchStale \/ MarkLaunched
                    \/ MemberRefused \/ MemberIgnored \/ MemberStale \/ MemberConflicts \/ MemberChanged
  PROVE  LaunchParts' /\ calls' \in [Calls -> CallTypes]
<1>0. "pending" \in DOMAIN ctl /\ "gen" \in DOMAIN row
  BY DEF LaunchInv, LaunchTypeOK
<1>1. CASE main = "resolve" /\ Forget("refused")
  <2>1. \E b \in {"refused", "late"} : Becomes(calls', holding, "done", b, 0)
    BY <1>1, ReplyIs DEF Forget, Answers
  <2>2. ctl'.pending = NoCall /\ main' = "await" /\ holding' = NoCall
        /\ UNCHANGED <<launchQueue, memberQueue, row>>
    BY <1>0, <1>1 DEF Forget
  <2> QED
    BY <1>1, <2>1, <2>2, AnswerStep DEF Elsewhere, Becomes
<1>2. CASE MarkLaunched
  <2>1. main = "resolve" /\ Expected(holding) /\ calls[holding].made = 0 /\ holding \in Calls
    BY <1>2 DEF MarkLaunched, LaunchInv, QueueInv, Handed, Up
  <2>2. \E b \in {"done", "late"} : Becomes(calls', holding, "done", b, row.gen + 1)
    BY <1>2, <2>1, ReplyMadeIs, OneMoreMaker DEF MarkLaunched, LaunchInv
  <2>3. ctl'.pending = NoCall /\ main' = "prepare" /\ holding' = NoCall /\ row'.gen = row.gen + 1
        /\ UNCHANGED <<launchQueue, memberQueue>>
    BY <1>0, <1>2 DEF MarkLaunched
  <2> QED
    BY <2>1, <2>2, <2>3, AnswerStep DEF Elsewhere, Becomes
<1>3. CASE \E a \in {"refused", "done"} : MemberAnswered(a)
  <2>1. main = "member" /\ \E b : Becomes(calls', holding, "done", b, 0)
    BY <1>3, ReplyIs DEF MemberAnswered, Answers
  <2>2. main' = "supervise" /\ holding' = NoCall /\ UNCHANGED <<launchQueue, memberQueue, row, ctl>>
    BY <1>3 DEF MemberAnswered
  <2> QED
    BY <2>1, <2>2, AnswerStep DEF Elsewhere, Becomes
<1>4. CASE MemberChanged
  <2>1. main = "member" /\ Expected(holding) /\ calls[holding].made = 0 /\ holding \in Calls
    BY <1>4 DEF MemberChanged, LaunchInv, QueueInv, Handed, Up
  <2>2. \E b \in {"done", "late"} : Becomes(calls', holding, "done", b, row.gen + 1)
    BY <1>4, <2>1, ReplyMadeIs, OneMoreMaker DEF MemberChanged, LaunchInv
  <2>3. main' = "supervise" /\ holding' = NoCall /\ row'.gen = row.gen + 1
        /\ UNCHANGED <<launchQueue, memberQueue, ctl>>
    BY <1>0, <1>4 DEF MemberChanged
  <2> QED
    BY <2>1, <2>2, <2>3, AnswerStep DEF Elsewhere, Becomes
<1> QED
  BY <1>1, <1>2, <1>3, <1>4 DEF Reject, LaunchStale, MemberRefused, MemberIgnored, MemberStale, MemberConflicts

(* What concerns no command.                                                   *)
Unconcerned ==
    \/ CoreFails \/ CoreRetries \/ NoToken \/ CoreReady \/ Recover \/ ReplaceGone \/ ReplaceKills
    \/ Prepare \/ StartContour \/ AdoptProcess \/ MarkProcess \/ MarkRunning \/ SuperviseEnds
    \/ WatcherSees \/ MarkExited \/ CloseKills \/ ContourAges \/ \E p \in Procs : ContourStep(p)

LEMMA UnconcernedStep ==
  ASSUME LaunchInv, Unconcerned
  PROVE  LaunchParts' /\ calls' \in [Calls -> CallTypes]
<1>0. calls \in [Calls -> CallTypes]
  BY TypedCalls DEF LaunchInv
<1>1. "pending" \in DOMAIN ctl
  BY DEF LaunchInv, LaunchTypeOK
<1>2. UNCHANGED <<calls, launchQueue, memberQueue, holding, row>>
  BY DEF Unconcerned, CoreFails, CoreRetries, NoToken, CoreReady, Recover, ReplaceGone, ReplaceKills, Decide,
     Prepare, StartContour, AdoptProcess, MarkProcess, MarkRunning, SuperviseEnds, WatcherSees, MarkExited,
     CloseKills, ContourAges, ContourStep, ContourBoots, ContourTouches, ContourStops, ContourFinishes,
     ContourGone, ContourCrashes, mainVars, robot
<1>3. ctl'.pending = ctl.pending
  BY <1>1 DEF Unconcerned, CoreFails, CoreRetries, NoToken, CoreReady, Recover, ReplaceGone, ReplaceKills, Decide,
     Prepare, StartContour, AdoptProcess, MarkProcess, MarkRunning, SuperviseEnds, WatcherSees, MarkExited,
     CloseKills, ContourAges, ContourStep, ContourBoots, ContourTouches, ContourStops, ContourFinishes,
     ContourGone, ContourCrashes, robot, AcceptCommands, MarkRecovered, AfterExit
<1>4. main' = main \/ (main \notin Elsewhere /\ main' \notin Elsewhere)
  BY DEF Unconcerned, CoreFails, CoreRetries, NoToken, CoreReady, Recover, ReplaceGone, ReplaceKills, Decide,
     Prepare, StartContour, AdoptProcess, MarkProcess, MarkRunning, SuperviseEnds, WatcherSees, MarkExited,
     CloseKills, ContourAges, ContourStep, ContourBoots, ContourTouches, ContourStops, ContourFinishes,
     ContourGone, ContourCrashes, mainVars, robot, Elsewhere
<1> QED
  BY <1>0, <1>2, <1>3, <1>4, QuietStep

LEMMA PartsStep ==
  ASSUME LaunchInv, [LaunchNext]_launchVars
  PROVE  LaunchParts' /\ calls' \in [Calls -> CallTypes]
<1>0. calls \in [Calls -> CallTypes]
  BY TypedCalls DEF LaunchInv
<1>1. CASE UNCHANGED launchVars
  BY <1>0, <1>1, QuietStep DEF launchVars
<1>2. ASSUME NEW c \in Calls, Send(c) \/ CallStep(c) \/ CallTimesOut(c)
      PROVE  LaunchParts' /\ calls' \in [Calls -> CallTypes]
  BY <1>2, SendStep, ThreadStep, TimeOutStep
<1>3. CASE TakeLaunch \/ TakeMember
  BY <1>0, <1>3, TakeLaunchStep, TakeMemberStep DEF TakeLaunch, TakeMember
<1>4. CASE \/ Reject \/ LaunchStale \/ MarkLaunched
           \/ MemberRefused \/ MemberIgnored \/ MemberStale \/ MemberConflicts \/ MemberChanged
  BY <1>4, MainAnswers
<1>5. CASE PrepareFails \/ Interrupt
  BY <1>0, <1>5, LeaveStep DEF PrepareFails, Interrupt, Leave, Up
<1>6. CASE RobotEnds \/ RobotCrashes
  BY <1>6, EndStep DEF RobotEnds, RobotCrashes, Up
<1>7. CASE RobotBoots
  BY <1>0, <1>7, BootStep DEF RobotBoots
<1>8. CASE Unconcerned
  BY <1>8, UnconcernedStep
<1> QED
  BY <1>1, <1>2, <1>3, <1>4, <1>5, <1>6, <1>7, <1>8 DEF LaunchNext, MainStep, Unconcerned
-----------------------------------------------------------------------------
(* LaunchControl: the types of what a step writes besides the commands.        *)

CtlTypes == [state : {"waiting", "starting", "running", "stopped", "failed"}, pid : {0} \cup Procs,
             accepting : BOOLEAN, pending : Calls \cup {NoCall}, recorded : BOOLEAN,
             rise : {"command", "autostart", "adopted"}]
ProcTypes == [id : {0} \cup Procs, adopted : BOOLEAN, exited : BOOLEAN, marked : BOOLEAN]
RowTypes == [running : BOOLEAN, mode : StopKinds \cup {"none"}, gen : Revisions]
StatusTypes == [pid : {0} \cup Procs, version : Versions, fresh : BOOLEAN, stopping : BOOLEAN,
                exited : BOOLEAN]
StarterTypes == [state : {"starting", "retrying", "ready", "failed"}, attempts : 0..(MaxAttempts + 2)]

LEMMA QueuesTyped ==
  ASSUME LaunchInv, [LaunchNext]_launchVars
  PROVE  launchQueue' \in Seq(Calls) /\ memberQueue' \in Seq(Calls) /\ holding' \in Calls \cup {NoCall}
<1>1. launchQueue \in Seq(Calls) /\ memberQueue \in Seq(Calls) /\ holding \in Calls \cup {NoCall}
  BY DEF LaunchInv, LaunchTypeOK
<1>2. CASE TakeLaunch
  BY <1>1, <1>2, TakeLaunchStep DEF TakeLaunch
<1>3. CASE TakeMember
  BY <1>1, <1>3, TakeMemberStep DEF TakeMember
<1>4. ASSUME NEW c \in Calls, Send(c) \/ CallStep(c) \/ CallTimesOut(c)
      PROVE  launchQueue' \in Seq(Calls) /\ memberQueue' \in Seq(Calls) /\ holding' \in Calls \cup {NoCall}
  <2>1. Append(launchQueue, c) \in Seq(Calls) /\ Append(memberQueue, c) \in Seq(Calls)
    BY <1>1
  <2>2. /\ launchQueue' \in {launchQueue, Append(launchQueue, c)}
        /\ memberQueue' \in {memberQueue, Append(memberQueue, c)} /\ holding' = holding
    BY <1>4 DEF Send, CallStep, CallTimesOut, SubmitChecks, SubmitDecides, SubmitPuts, StopLooks,
       StopRecords, MemberReads, MemberPuts, mainVars
  <2> QED
    BY <1>1, <2>1, <2>2
<1>5. CASE RobotBoots
  BY <1>5 DEF RobotBoots
<1>6. CASE UNCHANGED <<launchQueue, memberQueue>> /\ holding' \in {holding, NoCall}
  BY <1>1, <1>6
<1>7. CASE Unconcerned
  BY <1>1, <1>7 DEF Unconcerned, CoreFails, CoreRetries, NoToken, CoreReady, Recover, ReplaceGone, ReplaceKills,
     Decide, Prepare, StartContour, AdoptProcess, MarkProcess, MarkRunning, SuperviseEnds, WatcherSees,
     MarkExited, CloseKills, ContourAges, ContourStep, ContourBoots, ContourTouches, ContourStops,
     ContourFinishes, ContourGone, ContourCrashes, mainVars, robot
<1> QED
  BY <1>2, <1>3, <1>4, <1>5, <1>6, <1>7 DEF LaunchNext, MainStep, Unconcerned, Reject, LaunchStale, Forget,
     MarkLaunched, MemberRefused, MemberIgnored, MemberStale, MemberConflicts, MemberAnswered, MemberChanged,
     PrepareFails, Interrupt, Leave, RobotEnds, RobotCrashes, launchVars

(* A revision more, or the row as it was.                                      *)
LEMMA RowTyped ==
  ASSUME LaunchInv, [LaunchNext]_launchVars
  PROVE  row' \in RowTypes
<1>1. row \in RowTypes
  BY DEF LaunchInv, LaunchTypeOK, RowTypes
<1>2. ASSUME NEW c \in Calls, StopRecords(c) PROVE row' \in RowTypes
  <2>1. calls[c].made = 0 /\ calls[c].kind \in StopKinds
    BY <1>2 DEF StopRecords, LaunchInv, CallsInv
  <2>2. row.gen + 1 \in Revisions
    BY <2>1, OneMoreMaker DEF LaunchInv
  <2>3. [running |-> FALSE, mode |-> calls[c].kind, gen |-> row.gen + 1] \in RowTypes
    BY <2>1, <2>2 DEF RowTypes
  <2>4. row' \in {row, [running |-> FALSE, mode |-> calls[c].kind, gen |-> row.gen + 1]}
    BY <1>2 DEF StopRecords, RecordStopMode
  <2> QED
    BY <1>1, <2>3, <2>4
<1>3. CASE MarkLaunched \/ MemberChanged
  <2>1. holding \in Calls /\ calls[holding].made = 0
    BY <1>3 DEF MarkLaunched, MemberChanged, LaunchInv, QueueInv, Handed, Up
  <2>2. row.gen + 1 \in Revisions
    BY <2>1, OneMoreMaker DEF LaunchInv
  <2>3. /\ [running |-> TRUE, mode |-> "none", gen |-> row.gen + 1] \in RowTypes
        /\ [row EXCEPT !.gen = row.gen + 1] \in RowTypes
    BY <1>1, <2>2 DEF RowTypes
  <2>4. row' \in {[running |-> TRUE, mode |-> "none", gen |-> row.gen + 1], [row EXCEPT !.gen = row.gen + 1]}
    BY <1>3 DEF MarkLaunched, MemberChanged
  <2> QED
    BY <2>3, <2>4
<1>4. CASE row' = row
  BY <1>1, <1>4
<1>5. CASE Unconcerned
  BY <1>1, <1>5 DEF Unconcerned, CoreFails, CoreRetries, NoToken, CoreReady, Recover, ReplaceGone, ReplaceKills,
     Decide, Prepare, StartContour, AdoptProcess, MarkProcess, MarkRunning, SuperviseEnds, WatcherSees,
     MarkExited, CloseKills, ContourAges, ContourStep, ContourBoots, ContourTouches, ContourStops,
     ContourFinishes, ContourGone, ContourCrashes, mainVars, robot
<1> QED
  BY <1>2, <1>3, <1>4, <1>5 DEF LaunchNext, MainStep, CallStep, Unconcerned, Reject, LaunchStale, Forget,
     MemberRefused, MemberIgnored, MemberStale, MemberConflicts, MemberAnswered,
     PrepareFails, Interrupt, Leave, RobotEnds, RobotCrashes, RobotBoots, TakeLaunch, TakeMember, launchVars,
     Send, CallTimesOut, SubmitChecks, SubmitDecides, SubmitPuts, StopLooks, MemberReads, MemberPuts

LEMMA ControlTyped ==
  ASSUME LaunchInv, [LaunchNext]_launchVars
  PROVE  ctl' \in CtlTypes
<1>1. ctl \in CtlTypes /\ proc.id \in {0} \cup Procs
  BY DEF LaunchInv, LaunchTypeOK, CtlTypes
<1>2. FreshControl \in CtlTypes
  BY DEF FreshControl, CtlTypes
<1>3. \A v \in {"waiting", "starting", "running", "stopped", "failed"} :
        /\ [ctl EXCEPT !.state = v] \in CtlTypes
        /\ [ctl EXCEPT !.state = v, !.pending = NoCall] \in CtlTypes
        /\ [ctl EXCEPT !.pid = 0, !.state = v] \in CtlTypes
        /\ [ctl EXCEPT !.accepting = TRUE, !.state = v] \in CtlTypes
  BY <1>1 DEF CtlTypes
<1>4. \A c \in Calls : [ctl EXCEPT !.state = "starting", !.pending = c] \in CtlTypes
  BY <1>1 DEF CtlTypes
<1>5. \A how \in {"command", "autostart", "adopted"} :
        [ctl EXCEPT !.state = "starting", !.accepting = FALSE, !.rise = how, !.recorded = FALSE] \in CtlTypes
  BY <1>1 DEF CtlTypes
<1>6. [ctl EXCEPT !.state = "starting", !.accepting = FALSE, !.pending = NoCall,
                  !.rise = "command", !.recorded = TRUE] \in CtlTypes
  BY <1>1 DEF CtlTypes
<1>7. [ctl EXCEPT !.pid = proc.id, !.recorded = FALSE] \in CtlTypes
  BY <1>1 DEF CtlTypes
<1>8. ASSUME AcceptCommands PROVE ctl' \in CtlTypes
  <2>1. PICK v \in {"waiting", "stopped", "failed"} : ctl' = [ctl EXCEPT !.accepting = TRUE, !.state = v]
    BY <1>1, <1>8 DEF AcceptCommands, CtlTypes
  <2> QED
    BY <1>3, <2>1
<1>9. ASSUME NEW plan, Decide(plan) PROVE ctl' \in CtlTypes
  BY <1>1, <1>5, <1>8, <1>9 DEF Decide, MarkRecovered
<1>10. CASE Unconcerned
  <2>1. CASE MarkExited
    BY <1>3, <2>1 DEF MarkExited, AfterExit
  <2>2. CASE Recover \/ ReplaceGone
    BY <1>9, <2>2 DEF Recover, ReplaceGone
  <2>3. CASE SuperviseEnds
    BY <1>8, <2>3 DEF SuperviseEnds
  <2>4. CASE MarkProcess
    BY <1>7, <2>4 DEF MarkProcess
  <2>5. CASE MarkRunning
    BY <1>3, <2>5 DEF MarkRunning
  <2>6. CASE ctl' = ctl
    BY <1>1, <2>6
  <2> QED
    BY <1>10, <2>1, <2>2, <2>3, <2>4, <2>5, <2>6 DEF Unconcerned, CoreFails, CoreRetries, NoToken, CoreReady,
       ReplaceKills, Prepare, StartContour, AdoptProcess, WatcherSees, CloseKills, ContourAges, ContourStep,
       ContourBoots, ContourTouches, ContourStops, ContourFinishes, ContourGone, ContourCrashes, mainVars, robot
<1>11. ASSUME NEW c \in Calls, Send(c) \/ CallStep(c) \/ CallTimesOut(c) PROVE ctl' \in CtlTypes
  BY <1>1, <1>4, <1>11 DEF Send, CallStep, CallTimesOut, SubmitChecks, SubmitDecides, SubmitPuts, StopLooks,
     StopRecords, MemberReads, MemberPuts
<1>12. CASE RobotBoots
  BY <1>2, <1>12 DEF RobotBoots
<1>13. CASE \/ Reject \/ LaunchStale \/ MarkLaunched
            \/ MemberRefused \/ MemberIgnored \/ MemberStale \/ MemberConflicts \/ MemberChanged
  BY <1>1, <1>3, <1>6, <1>13 DEF Reject, LaunchStale, Forget, MarkLaunched, MemberRefused, MemberIgnored,
     MemberStale, MemberConflicts, MemberAnswered, MemberChanged
<1>14. CASE ctl' = ctl
  BY <1>1, <1>14
<1> QED
  BY <1>10, <1>11, <1>12, <1>13, <1>14 DEF LaunchNext, MainStep, Unconcerned, PrepareFails, Interrupt, Leave,
     RobotEnds, RobotCrashes, TakeLaunch, TakeMember, launchVars

LEMMA ProcTyped ==
  ASSUME LaunchInv, [LaunchNext]_launchVars
  PROVE  proc' \in ProcTypes /\ life' \in [Procs -> {"unborn", "boot", "trade", "ending", "gone", "killed"}]
         /\ lockFile' \in {0} \cup Procs
<1>1. proc \in ProcTypes /\ lockFile \in {0} \cup Procs
      /\ life \in [Procs -> {"unborn", "boot", "trade", "ending", "gone", "killed"}]
  BY DEF LaunchInv, LaunchTypeOK, ProcTypes
<1>2. /\ NoProc \in ProcTypes
      /\ \A p \in {0} \cup Procs : /\ [NoProc EXCEPT !.id = p] \in ProcTypes
                                   /\ [NoProc EXCEPT !.id = p, !.adopted = TRUE] \in ProcTypes
      /\ [proc EXCEPT !.exited = TRUE] \in ProcTypes /\ [proc EXCEPT !.marked = TRUE] \in ProcTypes
  BY <1>1 DEF NoProc, ProcTypes
<1>3. \A p, v : v \in {"boot", "trade", "ending", "gone", "killed"} =>
        [life EXCEPT ![p] = v] \in [Procs -> {"unborn", "boot", "trade", "ending", "gone", "killed"}]
  BY <1>1
<1>4. proc' \in {proc, NoProc, [proc EXCEPT !.exited = TRUE], [proc EXCEPT !.marked = TRUE]}
      \/ \E p \in {0} \cup Procs : proc' \in {[NoProc EXCEPT !.id = p], [NoProc EXCEPT !.id = p, !.adopted = TRUE]}
  BY <1>1 DEF LaunchNext, MainStep, CallStep, Reject, LaunchStale, Forget, MarkLaunched,
     MemberRefused, MemberIgnored, MemberStale, MemberConflicts, MemberAnswered, MemberChanged,
     PrepareFails, Interrupt, Leave, RobotEnds, RobotCrashes, RobotBoots, TakeLaunch, TakeMember, launchVars,
     Send, CallTimesOut, SubmitChecks, SubmitDecides, SubmitPuts, StopLooks, StopRecords, MemberReads, MemberPuts,
     CoreFails, CoreRetries, NoToken, CoreReady, Recover, ReplaceGone, ReplaceKills, Decide,
     Prepare, StartContour, AdoptProcess, MarkProcess, MarkRunning, SuperviseEnds, WatcherSees,
     MarkExited, CloseKills, ContourAges, ContourStep, ContourBoots, ContourTouches, ContourStops,
     ContourFinishes, ContourGone, ContourCrashes, mainVars, robot
<1>5. /\ life' = life \/ \E p, v : v \in {"boot", "trade", "ending", "gone", "killed"} /\ life' = [life EXCEPT ![p] = v]
      /\ lockFile' \in {lockFile} \cup Procs
  BY <1>1 DEF LaunchNext, MainStep, CallStep, Reject, LaunchStale, Forget, MarkLaunched,
     MemberRefused, MemberIgnored, MemberStale, MemberConflicts, MemberAnswered, MemberChanged,
     PrepareFails, Interrupt, Leave, RobotEnds, RobotCrashes, RobotBoots, TakeLaunch, TakeMember, launchVars,
     Send, CallTimesOut, SubmitChecks, SubmitDecides, SubmitPuts, StopLooks, StopRecords, MemberReads, MemberPuts,
     CoreFails, CoreRetries, NoToken, CoreReady, Recover, ReplaceGone, ReplaceKills, Decide,
     Prepare, StartContour, AdoptProcess, MarkProcess, MarkRunning, SuperviseEnds, WatcherSees,
     MarkExited, CloseKills, ContourAges, ContourStep, ContourBoots, ContourTouches, ContourStops,
     ContourFinishes, ContourGone, ContourCrashes, mainVars, robot, contour
<1>6. proc' \in ProcTypes
  BY <1>1, <1>2, <1>4
<1>7. life' \in [Procs -> {"unborn", "boot", "trade", "ending", "gone", "killed"}]
  BY <1>1, <1>3, <1>5
<1> QED
  BY <1>1, <1>5, <1>6, <1>7

LEMMA StatusTyped ==
  ASSUME LaunchInv, [LaunchNext]_launchVars
  PROVE  snapshot' \in StatusTypes
<1>1. snapshot \in StatusTypes
  BY DEF LaunchInv, LaunchTypeOK, StatusTypes
<1>2. ASSUME NEW p \in Procs, ContourBoots(p) PROVE snapshot' \in StatusTypes
  <2>1. \A v \in Versions : [pid |-> p, version |-> v, fresh |-> TRUE, stopping |-> FALSE,
                             exited |-> FALSE] \in StatusTypes
    BY DEF StatusTypes
  <2>2. snapshot' = snapshot \/ \E v \in Versions :
          snapshot' = [pid |-> p, version |-> v, fresh |-> TRUE, stopping |-> FALSE, exited |-> FALSE]
    BY <1>2 DEF ContourBoots
  <2> QED
    BY <1>1, <2>1, <2>2
<1>3. ASSUME NEW p \in Procs, ContourTouches(p) \/ ContourStops(p) \/ ContourFinishes(p) PROVE snapshot' \in StatusTypes
  <2>1. snapshot' \in {[snapshot EXCEPT !.fresh = TRUE], [snapshot EXCEPT !.stopping = TRUE],
                     [snapshot EXCEPT !.exited = TRUE, !.stopping = FALSE]}
    BY <1>3 DEF ContourTouches, ContourStops, ContourFinishes
  <2> QED
    BY <1>1, <2>1 DEF StatusTypes
<1>4. CASE ContourAges
  BY <1>1, <1>4 DEF ContourAges, StatusTypes
<1>5. CASE snapshot' = snapshot
  BY <1>1, <1>5
<1> QED
  BY <1>2, <1>3, <1>4, <1>5 DEF LaunchNext, MainStep, CallStep, Reject, LaunchStale, Forget, MarkLaunched,
     MemberRefused, MemberIgnored, MemberStale, MemberConflicts, MemberAnswered, MemberChanged,
     PrepareFails, Interrupt, Leave, RobotEnds, RobotCrashes, RobotBoots, TakeLaunch, TakeMember, launchVars,
     Send, CallTimesOut, SubmitChecks, SubmitDecides, SubmitPuts, StopLooks, StopRecords, MemberReads, MemberPuts,
     CoreFails, CoreRetries, NoToken, CoreReady, Recover, ReplaceGone, ReplaceKills, Decide,
     Prepare, StartContour, AdoptProcess, MarkProcess, MarkRunning, SuperviseEnds, WatcherSees,
     MarkExited, CloseKills, ContourStep, ContourGone, ContourCrashes, mainVars, robot, contour

LEMMA RestTyped ==
  ASSUME LaunchInv, [LaunchNext]_launchVars
  PROVE  /\ main' \in {"down", "core", "tokenless", "recover", "replace", "await", "resolve", "prepare",
                       "start", "adopt", "mark", "supervise", "member", "close"}
         /\ lives' \in 0..MaxLives /\ version' \in Versions /\ pulse' \in {"on", "stopped"}
         /\ starter' \in StarterTypes /\ StarterInv'
<1>1. /\ main \in {"down", "core", "tokenless", "recover", "replace", "await", "resolve", "prepare",
                   "start", "adopt", "mark", "supervise", "member", "close"}
      /\ lives \in 0..MaxLives /\ version \in Versions /\ pulse \in {"on", "stopped"}
      /\ starter \in StarterTypes /\ StarterInv /\ MaxLives \in Nat /\ MaxAttempts \in Nat
  BY LaunchAssumption DEF LaunchInv, LaunchTypeOK, StarterTypes
<1>2. CASE RobotBoots
  <2>1. [state |-> "starting", attempts |-> 1] \in StarterTypes
    BY <1>1 DEF StarterTypes
  <2> QED
    BY <1>1, <1>2, <2>1 DEF RobotBoots, StarterInv
<1>3. CASE CoreFails \/ CoreRetries \/ NoToken \/ CoreReady
  BY <1>1, <1>3 DEF CoreFails, CoreRetries, NoToken, CoreReady, StarterTypes, StarterInv
<1>4. CASE /\ UNCHANGED <<lives, version, starter>> /\ pulse' \in {pulse, "stopped"}
           /\ main' \in {main, "down", "recover", "replace", "await", "resolve", "prepare",
                         "start", "adopt", "mark", "supervise", "member", "close"}
  BY <1>1, <1>4 DEF StarterInv
<1> QED
  BY <1>2, <1>3, <1>4 DEF LaunchNext, MainStep, CallStep, Reject, LaunchStale, Forget, MarkLaunched,
     MemberRefused, MemberIgnored, MemberStale, MemberConflicts, MemberAnswered, MemberChanged,
     PrepareFails, Interrupt, Leave, RobotEnds, RobotCrashes, TakeLaunch, TakeMember, launchVars,
     Send, CallTimesOut, SubmitChecks, SubmitDecides, SubmitPuts, StopLooks, StopRecords, MemberReads, MemberPuts,
     Recover, ReplaceGone, ReplaceKills, Decide, Prepare, StartContour, AdoptProcess, MarkProcess, MarkRunning,
     SuperviseEnds, WatcherSees, MarkExited, CloseKills, ContourAges, ContourStep, ContourBoots, ContourTouches,
     ContourStops, ContourFinishes, ContourGone, ContourCrashes, mainVars, robot

LEMMA LaunchInvStep == LaunchInv /\ [LaunchNext]_launchVars => LaunchInv'
<1> SUFFICES ASSUME LaunchInv, [LaunchNext]_launchVars PROVE LaunchInv'
  OBVIOUS
<1>1. LaunchParts' /\ calls' \in [Calls -> CallTypes]
  BY PartsStep
<1>2. LaunchTypeOK' /\ StarterInv'
  BY <1>1, QueuesTyped, RowTyped, ControlTyped, ProcTyped, StatusTyped, RestTyped
     DEF LaunchTypeOK, CallTypes, RowTypes, CtlTypes, ProcTypes, StatusTypes, StarterTypes
<1> QED
  BY <1>1, <1>2 DEF LaunchInv, LaunchParts

LEMMA LaunchInvAlways == LaunchSpec => []LaunchInv
BY LaunchInvInit, LaunchInvStep, PTL DEF LaunchSpec

\* The main thread, its queues, the row and the contour's processes keep their
\* types; the row's revision never passes the number of commands.
THEOREM LaunchTypeCorrect == LaunchSpec => []LaunchTypeOK
<1>1. LaunchInv => LaunchTypeOK
  BY DEF LaunchInv
<1> QED
  BY <1>1, LaunchInvAlways, PTL

\* At most one accepted launch is open and it is the pending one, for any number
\* of operators, of timeouts and of lives of the robot.
THEOREM OneLaunchAlways == LaunchSpec => []OneLaunch
<1>1. LaunchInv => OneLaunch
  BY DEF LaunchInv
<1> QED
  BY <1>1, LaunchInvAlways, PTL

\* A command makes the revision after the one its sender read, or none, and
\* what was refused has made none, whenever its answer comes.
THEOREM AppliedAlways == LaunchSpec => []AppliedAsExpected
<1>1. LaunchInv => AppliedAsExpected
  BY DEF LaunchInv
<1> QED
  BY <1>1, LaunchInvAlways, PTL

=============================================================================
