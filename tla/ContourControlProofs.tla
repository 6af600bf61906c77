------------------------ MODULE ContourControlProofs ------------------------
(***************************************************************************)
(* Proofs about ContourControl for any set of instruments and any number   *)
(* of generations.                                                         *)
(*                                                                         *)
(* What the core may rely on is spread over three records and the memory   *)
(* of a process that dies at any step, so each invariant needs to say how  *)
(* far the memory is behind the desired state: a process that knows the    *)
(* desired generation knows its mode (GenerationsOK), a process that       *)
(* latched its exit admits nothing more (StoppedForGood), and the members  *)
(* that status.json names cover every live trade (CycleOK), which is what  *)
(* autostart_members and the choice of the next roster rest on.            *)
(***************************************************************************)
EXTENDS ContourControl, TLAPS

AfterBoot == Running \ {"boot"}

\* What of the desired state the memory may still lag behind.
GenerationsOK ==
  /\ applied.generation <= desired.generation
  /\ mem.generation <= desired.generation
  /\ mem.mode # "on" /\ mem.generation = desired.generation => mem.mode = desired.mode
  /\ phase \in {"down", "launched", "boot", "save", "exec"} => mem.state # "stopped"
  /\ phase = "boot" => mem.mode = "on"

\* After "stopped" of the desired generation nothing admits an entry: the
\* process is gone or leaves at the end of this tick.
StoppedForGood ==
  applied.state = "stopped" /\ applied.generation = desired.generation =>
    /\ Held = {} /\ desired.mode # "on" /\ status.state = "stopped"
    /\ \/ phase = "down"
       \/ phase \in {"analysis", "idle"} /\ mem.stop /\ mem.mode # "on"

\* The memory of a process that has not read the desired state yet.
BootFresh ==
  phase \in {"down", "launched", "boot"} =>
    \A k \in Keys : mem.members[k] = "none" /\ mem.stops[k] = "none"

\* The desired state before_tick holds may be old, its members are not gone.
ReadOK ==
  phase = "save" =>
    /\ mem.mode = read.mode
    /\ \A k \in Keys : read.members[k] # "absent" => desired.members[k] # "absent"
    /\ mem.generation = desired.generation => read = desired

\* The cycle covers the live trades, the memory and status.json cover the cycle.
CycleOK ==
  /\ Held \subseteq Members(desired)
  /\ Held \subseteq status.members
  /\ phase # "down" => Held \subseteq roster /\ roster \subseteq Members(desired)
  /\ phase \in AfterBoot => \A k \in roster : mem.members[k] \in {"trading", "draining", "closing"}
  /\ \A k \in Keys : mem.members[k] # "none" => desired.members[k] # "absent"
  /\ phase = "analysis" => roster \subseteq status.members

\* A process that knows the desired generation blocks what must not enter.
BlocksOK ==
  phase \in {"idle", "exec", "analysis"} /\ mem.generation = desired.generation =>
    /\ mem.mode = desired.mode
    /\ \A k \in roster : mem.stops[k] = "none" => desired.members[k] = "active"

CycleInv == BootFresh /\ ReadOK /\ CycleOK /\ BlocksOK

-----------------------------------------------------------------------------
(* What the operators of the boundary return.                              *)

DesiredType == [generation : 0..MaxGeneration, mode : Modes, members : [Keys -> MemberGoals]]

MemType == [generation : 0..MaxGeneration, mode : Modes, state : States,
            members : [Keys -> MemberStates], stops : [Keys -> {"none"} \cup StopModes],
            link : {"ok", "lost"}, hold : BOOLEAN, stop : BOOLEAN]

\* Where a goal takes a member, from whatever state it is in.
LEMMA MemberNextIs ==
  ASSUME NEW k \in Keys, NEW goal \in MemberGoals, NEW m \in MemType
  PROVE  /\ MemberNext(k, goal, m) \in MemberStates
         /\ goal = "absent" => MemberNext(k, goal, m) = m.members[k]
         /\ goal = "active" => MemberNext(k, goal, m) \in {"warming", "warmed", "trading"}
         /\ goal \in StopModes => MemberNext(k, goal, m) \in {"none", "draining", "closing"}
         /\ m.members[k] \in {"trading", "draining", "closing"} \/ (m.members[k] = "none" /\ k \in roster)
            => /\ goal = "active" => MemberNext(k, goal, m) = "trading"
               /\ goal \in StopModes => MemberNext(k, goal, m) \in {"draining", "closing"}
               /\ goal # "absent" => MemberNext(k, goal, m) \in {"trading", "draining", "closing"}
<1>1. m.members[k] \in MemberStates
  BY DEF MemType
<1>2. CASE goal = "absent"
  BY <1>1, <1>2 DEF MemberNext, MemberStates, StopModes
<1>3. CASE goal = "active"
  BY <1>1, <1>3 DEF MemberNext, MemberStates, StopModes
<1>4. CASE goal = "no_entries"
  BY <1>1, <1>4 DEF MemberNext, MemberStates, StopModes
<1>5. CASE goal = "close_all"
  BY <1>1, <1>5 DEF MemberNext, MemberStates, StopModes
<1> QED
  BY <1>2, <1>3, <1>4, <1>5 DEF MemberGoals, StopModes

\* The block of an instrument is one of the modes, and a removed one has it.
LEMMA StopNextIs ==
  ASSUME NEW k \in Keys, NEW goal \in MemberGoals, NEW m \in MemType
  PROVE  /\ StopNext(k, goal, m) \in {"none"} \cup StopModes
         /\ MemberNext(k, goal, m) \in {"draining", "closing"} /\ goal # "absent"
            => StopNext(k, goal, m) = goal /\ goal # "none"
         /\ m.members[k] \in {"trading", "draining", "closing"} \/ (m.members[k] = "none" /\ k \in roster)
            => StopNext(k, goal, m) # "none" \/ goal \in {"absent", "active"}
<1>1. m.stops[k] \in {"none"} \cup StopModes
  BY DEF MemType
<1>2. MemberNext(k, goal, m) \in {"draining", "closing"} /\ goal # "absent" => goal \in StopModes
  BY MemberNextIs DEF MemberGoals
<1>3. MemberNext(k, goal, m) \in {"draining", "closing"} /\ goal # "absent"
      => StopNext(k, goal, m) = goal /\ goal # "none"
  BY <1>2 DEF StopNext, StopModes
<1>4. goal \notin {"absent", "active"} => goal \in StopModes
  BY DEF MemberGoals
<1>5. StopNext(k, goal, m) \in {"none"} \cup StopModes
  BY <1>1, <1>2 DEF StopNext, StopModes
<1> QED
  BY <1>3, <1>4, <1>5, MemberNextIs

\* The memory after applying a generation, and after the link was noted.
LEMMA WithDesiredType ==
  ASSUME NEW m \in MemType, NEW d \in DesiredType
  PROVE  /\ WithDesired(m, d) \in MemType
         /\ WithDesired(m, d).state # "stopped"
         /\ WithDesired(m, d).members = m.members
         /\ WithDesired(m, d).stops = m.stops
         /\ WithDesired(m, d).mode = d.mode
         /\ WithDesired(m, d).generation = d.generation
         /\ WithDesired(m, d).stop = m.stop
  BY DEF WithDesired, MemType, DesiredType, StateOf, States, Modes, StopModes

LEMMA LinkedType ==
  ASSUME NEW m \in MemType
  PROVE  /\ Linked(m) \in MemType
         /\ Linked(m).state = m.state
         /\ Linked(m).members = m.members
         /\ Linked(m).stops = m.stops
         /\ Linked(m).mode = m.mode
         /\ Linked(m).generation = m.generation
         /\ Linked(m).stop = m.stop
  BY DEF Linked, MemType

\* _apply_members changes the members and their blocks only.
LEMMA WithMembersType ==
  ASSUME NEW m \in MemType, NEW d \in DesiredType
  PROVE  /\ WithMembers(m, d) \in MemType
         /\ WithMembers(m, d).state = m.state
         /\ WithMembers(m, d).mode = m.mode
         /\ WithMembers(m, d).generation = m.generation
         /\ WithMembers(m, d).stop = m.stop
         /\ \A k \in Keys : /\ WithMembers(m, d).members[k] = MemberNext(k, d.members[k], m)
                            /\ WithMembers(m, d).stops[k] = StopNext(k, d.members[k], m)
<1>1. \A k \in Keys : d.members[k] \in MemberGoals
  BY DEF DesiredType
<1>2. /\ [k \in Keys |-> MemberNext(k, d.members[k], m)] \in [Keys -> MemberStates]
      /\ [k \in Keys |-> StopNext(k, d.members[k], m)] \in [Keys -> {"none"} \cup StopModes]
  BY <1>1, MemberNextIs, StopNextIs
<1> QED
  BY <1>2 DEF WithMembers, MemType

\* Warming only moves on, and to trading only for those that are ready.
LEMMA ProgressType ==
  ASSUME NEW m \in MemType, NEW ready \in SUBSET Warmed(m)
  PROVE  /\ Progress(m, ready) \in MemType
         /\ Progress(m, ready).state = m.state
         /\ Progress(m, ready).mode = m.mode
         /\ Progress(m, ready).generation = m.generation
         /\ Progress(m, ready).stop = m.stop
         /\ Progress(m, ready).stops = m.stops
         /\ \A k \in Keys :
              /\ Progress(m, ready).members[k] = "none" <=> m.members[k] = "none"
              /\ m.members[k] \in {"trading", "draining", "closing"}
                 => Progress(m, ready).members[k] = m.members[k]
              /\ k \in ready => Progress(m, ready).members[k] = "trading"
<1>1. m.members \in [Keys -> MemberStates]
  BY DEF MemType
<1>2. \A k \in Keys : k \in ready => m.members[k] = "warmed"
  BY DEF Warmed
<1> DEFINE f == [k \in Keys |->
     CASE m.members[k] = "warming" -> "warmed"
       [] m.members[k] = "warmed" /\ k \in ready -> "trading"
       [] OTHER -> m.members[k]]
<1>3. f \in [Keys -> MemberStates]
  BY <1>1 DEF MemberStates
<1>4. \A k \in Keys :
              /\ f[k] = "none" <=> m.members[k] = "none"
              /\ m.members[k] \in {"trading", "draining", "closing"} => f[k] = m.members[k]
              /\ k \in ready => f[k] = "trading"
  BY <1>1, <1>2 DEF MemberStates
<1>5. Progress(m, ready) = [m EXCEPT !.members = f]
  BY DEF Progress
<1> HIDE DEF f
<1> QED
  BY <1>3, <1>4, <1>5 DEF MemType

\* A retired instrument has no trade, the others keep what they had.
LEMMA RetiredType ==
  ASSUME NEW m \in MemType
  PROVE  /\ Retired(m) \in MemType
         /\ Retired(m).state = m.state
         /\ Retired(m).mode = m.mode
         /\ Retired(m).generation = m.generation
         /\ Retired(m).stop = m.stop
         /\ \A k \in Keys \ Drained : /\ Retired(m).members[k] = m.members[k]
                                      /\ Retired(m).stops[k] = m.stops[k]
         /\ \A k \in Keys : Retired(m).members[k] \in {"none", m.members[k]}
<1> DEFINE f == [k \in Keys |-> IF k \in Drained THEN "none" ELSE m.members[k]]
           g == [k \in Keys |-> IF k \in Drained THEN "none" ELSE m.stops[k]]
<1>1. f \in [Keys -> MemberStates] /\ g \in [Keys -> {"none"} \cup StopModes]
  BY DEF MemType, MemberStates
<1>2. /\ \A k \in Keys \ Drained : f[k] = m.members[k] /\ g[k] = m.stops[k]
      /\ \A k \in Keys : f[k] \in {"none", m.members[k]}
  OBVIOUS
<1>3. Retired(m) = [m EXCEPT !.members = f, !.stops = g]
  BY DEF Retired
<1> HIDE DEF f, g
<1> QED
  BY <1>1, <1>2, <1>3 DEF MemType

\* A stop adds at most one order to a trade that has none.
LEMMA StopTradesIs ==
  ASSUME NEW old \in [Keys -> 0..2], NEW mode, NEW keys
  PROVE  /\ StopTrades(old, mode, keys) \in [Keys -> 0..2]
         /\ (\A k \in Keys : old[k] <= 1) => \A k \in Keys : StopTrades(old, mode, keys)[k] <= 1
  BY DEF StopTrades

LEMMA StopContourIs ==
  ASSUME NEW old \in [Keys -> 0..2], NEW mode
  PROVE  /\ StopContour(old, mode) \in [Keys -> 0..2]
         /\ (\A k \in Keys : old[k] <= 1) => \A k \in Keys : StopContour(old, mode)[k] <= 1
  BY StopTradesIs DEF StopContour

LEMMA StopMembersIs ==
  ASSUME NEW old \in [Keys -> 0..2], NEW m, NEW d
  PROVE  /\ StopMembers(old, m, d) \in [Keys -> 0..2]
         /\ (\A k \in Keys : old[k] <= 1) => \A k \in Keys : StopMembers(old, m, d)[k] <= 1
<1>1. \A k \in Keys : /\ StopTrades(old, d.members[k], {k})[k] \in 0..2
                      /\ (\A j \in Keys : old[j] <= 1) => StopTrades(old, d.members[k], {k})[k] <= 1
  BY StopTradesIs
<1> QED
  BY <1>1 DEF StopMembers

\* Both steps of a tick that apply the members.
LEMMA ApplyMembersIs ==
  ASSUME NEW m \in MemType, NEW old \in [Keys -> 0..2], NEW d \in DesiredType,
         roster \in SUBSET Keys, ApplyMembers(m, old, d)
  PROVE  /\ mem' \in MemType /\ roster' \in SUBSET Keys /\ orders' \in [Keys -> 0..2]
         /\ mem'.state = m.state /\ mem'.mode = m.mode
         /\ mem'.generation = m.generation /\ mem'.stop = m.stop
         /\ (\A k \in Keys : old[k] <= 1) => \A k \in Keys : orders'[k] <= 1
         /\ \A k \in Keys : /\ mem'.stops[k] = StopNext(k, d.members[k], m)
                            /\ mem'.members[k] = "none" <=> MemberNext(k, d.members[k], m) = "none"
                            /\ MemberNext(k, d.members[k], m) \in {"trading", "draining", "closing"}
                               => mem'.members[k] = MemberNext(k, d.members[k], m)
                            /\ k \in roster' =>
                                 \/ k \in roster
                                 \/ MemberNext(k, d.members[k], m) = "warmed" /\ mem'.members[k] = "trading"
                            /\ k \in roster /\ m.members[k] \in {"trading", "draining", "closing"} => k \in roster'
<1> DEFINE n == WithMembers(m, d)
<1>1. PICK ready \in SUBSET Warmed(n) :
        /\ mem' = Progress(n, ready)
        /\ roster' = (roster \ Dropped(m, d)) \cup ready
        /\ orders' = StopMembers(old, m, d)
  BY DEF ApplyMembers
<1>2. /\ n \in MemType
      /\ n.state = m.state /\ n.mode = m.mode /\ n.generation = m.generation /\ n.stop = m.stop
      /\ \A k \in Keys : /\ n.members[k] = MemberNext(k, d.members[k], m)
                         /\ n.stops[k] = StopNext(k, d.members[k], m)
  BY WithMembersType
<1> HIDE DEF n
<1>3. \A k \in Keys : k \in ready => n.members[k] = "warmed"
  BY DEF Warmed
<1>4. ready \subseteq Keys /\ Dropped(m, d) \subseteq Keys
  BY DEF Warmed, Dropped
<1>5. \A k \in Dropped(m, d) : m.members[k] \in {"warming", "warmed"}
  BY DEF Dropped
<1>6. /\ mem' \in MemType /\ mem'.state = n.state /\ mem'.mode = n.mode
      /\ mem'.generation = n.generation /\ mem'.stop = n.stop /\ mem'.stops = n.stops
      /\ \A k \in Keys :
              /\ mem'.members[k] = "none" <=> n.members[k] = "none"
              /\ n.members[k] \in {"trading", "draining", "closing"} => mem'.members[k] = n.members[k]
              /\ k \in ready => mem'.members[k] = "trading"
  BY <1>1, <1>2, ProgressType
<1>7. /\ orders' \in [Keys -> 0..2]
      /\ (\A k \in Keys : old[k] <= 1) => \A k \in Keys : orders'[k] <= 1
  BY <1>1, StopMembersIs
<1>8. \A k \in Keys : /\ k \in roster' => k \in roster \/ k \in ready
                      /\ k \in roster /\ m.members[k] \in {"trading", "draining", "closing"} => k \in roster'
  BY <1>1, <1>5
<1> QED
  BY <1>1, <1>2, <1>3, <1>4, <1>6, <1>7, <1>8

-----------------------------------------------------------------------------
(* Type correctness.                                                       *)

StatusType == [state : States \cup {"none"}, members : SUBSET Keys]

LEMMA SnapshotType ==
  ASSUME NEW m \in MemType PROVE Snapshot(m) \in StatusType
  BY DEF Snapshot, StatusType, MemType

LEMMA FreshType == Fresh \in MemType
  BY MaxGenerationAssumption DEF Fresh, MemType, Modes, States, MemberStates

\* The parts of TypeOK by name.
LEMMA TypeParts ==
  TypeOK <=>
    /\ desired \in DesiredType
    /\ applied \in [generation : 0..MaxGeneration, state : States]
    /\ status \in StatusType
    /\ core \in {"down", "up", "stopping"}
    /\ beat \in {"running", "silent", "stopped"}
    /\ phase \in Phases
    /\ mem \in MemType
    /\ read \in DesiredType \cup {NoRead}
    /\ roster \in SUBSET Keys
    /\ trade \in [Keys -> Holders]
    /\ orders \in [Keys -> 0..2]
  BY DEF TypeOK, DesiredType, MemType, StatusType

\* before_tick holds a desired state between its two steps.
ReadHeld == phase = "save" => read \in DesiredType /\ read.generation = mem.generation

LEMMA TypeInit == Init => TypeOK /\ ReadHeld
<1> SUFFICES ASSUME Init PROVE TypeOK /\ ReadHeld
  OBVIOUS
<1>1. desired \in DesiredType
  BY MaxGenerationAssumption DEF Init, DesiredType, Modes, MemberGoals
<1>2. applied \in [generation : 0..MaxGeneration, state : States] /\ status \in StatusType
  BY MaxGenerationAssumption DEF Init, States, StatusType, NoStatus
<1> QED
  BY <1>1, <1>2, FreshType, TypeParts DEF Init, Phases, Holders, ReadHeld

\* Every step keeps the types.
LEMMA TypeNext == TypeOK /\ ReadHeld /\ [Next]_vars => TypeOK'
<1> SUFFICES ASSUME TypeOK, ReadHeld, [Next]_vars PROVE TypeOK'
  OBVIOUS
<1> DEFINE T ==
    /\ desired \in DesiredType
    /\ applied \in [generation : 0..MaxGeneration, state : States]
    /\ status \in StatusType
    /\ core \in {"down", "up", "stopping"}
    /\ beat \in {"running", "silent", "stopped"}
    /\ phase \in Phases
    /\ mem \in MemType
    /\ read \in DesiredType \cup {NoRead}
    /\ roster \in SUBSET Keys
    /\ trade \in [Keys -> Holders]
    /\ orders \in [Keys -> 0..2]
<1>a. T
  BY TypeParts DEF T
<1> SUFFICES T'
  BY TypeParts DEF TypeOK, DesiredType, MemType, StatusType
<1> USE <1>a DEF T, Phases, Running
<1>b. phase = "save" => read \in DesiredType
  BY DEF ReadHeld
<1>1. ASSUME NEW S \in SUBSET Keys \ {{}}, RecordLaunch(S) PROVE T'
  <2>1. desired' \in DesiredType
    BY <1>1, MaxGenerationAssumption DEF RecordLaunch, DesiredType, Modes, MemberGoals
  <2> QED
    BY <1>1, <2>1 DEF RecordLaunch, vars, coreVars, fileVars, tradeVars
<1>2. ASSUME NEW mode \in StopModes, RecordStop(mode) PROVE T'
  <2>1. desired.generation + 1 \in 0..MaxGeneration
    BY <1>2, MaxGenerationAssumption DEF RecordStop, DesiredType
  <2>2. desired.members \in [Keys -> MemberGoals] /\ mode \in Modes
    BY <1>2 DEF DesiredType, Modes, MemberGoals, StopModes
  <2>3. desired' = [generation |-> desired.generation + 1, mode |-> mode, members |-> desired.members]
    BY <1>2 DEF RecordStop, DesiredType
  <2>4. desired' \in DesiredType
    BY <2>1, <2>2, <2>3 DEF DesiredType
  <2> QED
    BY <1>2, <2>4 DEF RecordStop, vars, coreVars, fileVars, tradeVars
<1>3. ASSUME NEW k \in Keys, AddMember(k) PROVE T'
  <2>1. desired.generation + 1 \in 0..MaxGeneration
    BY <1>3, MaxGenerationAssumption DEF AddMember, DesiredType
  <2>2. [desired.members EXCEPT ![k] = "active"] \in [Keys -> MemberGoals] /\ desired.mode \in Modes
    BY <1>3 DEF DesiredType, Modes, MemberGoals, StopModes
  <2>3. desired' = [generation |-> desired.generation + 1, mode |-> desired.mode, members |-> [desired.members EXCEPT ![k] = "active"]]
    BY <1>3 DEF AddMember, DesiredType
  <2>4. desired' \in DesiredType
    BY <2>1, <2>2, <2>3 DEF DesiredType
  <2> QED
    BY <1>3, <2>4 DEF AddMember, vars, coreVars, fileVars, tradeVars
<1>4. ASSUME NEW k \in Keys, NEW mode \in StopModes, RemoveMember(k, mode) PROVE T'
  <2>1. desired.generation + 1 \in 0..MaxGeneration
    BY <1>4, MaxGenerationAssumption DEF RemoveMember, DesiredType
  <2>2. [desired.members EXCEPT ![k] = mode] \in [Keys -> MemberGoals] /\ desired.mode \in Modes
    BY <1>4 DEF DesiredType, Modes, MemberGoals, StopModes
  <2>3. desired' = [generation |-> desired.generation + 1, mode |-> desired.mode, members |-> [desired.members EXCEPT ![k] = mode]]
    BY <1>4 DEF RemoveMember, DesiredType
  <2>4. desired' \in DesiredType
    BY <2>1, <2>2, <2>3 DEF DesiredType
  <2> QED
    BY <1>4, <2>4 DEF RemoveMember, vars, coreVars, fileVars, tradeVars
<1>5. CASE StartProcess
  BY <1>5, FreshType DEF StartProcess, vars, coreVars, fileVars, tradeVars
<1>6. CASE CoreStart
  <2>1. AutostartMembers \in SUBSET Keys
    BY DEF AutostartMembers, Members
  <2> QED
    BY <1>6, <2>1 DEF CoreStart, vars, coreVars, fileVars, tradeVars
<1>7. CASE CoreStop
  <2>1. mem' \in MemType
    BY <1>7 DEF CoreStop, MemType
  <2> QED
    BY <1>7, <2>1 DEF CoreStop, vars, coreVars, fileVars, tradeVars
<1>8. CASE CoreStopped
  BY <1>8 DEF CoreStopped, vars, coreVars, fileVars, tradeVars
<1>9. CASE CoreCrash
  BY <1>9 DEF CoreCrash, vars, coreVars, fileVars, tradeVars
<1>10. CASE BeatAges
  BY <1>10 DEF BeatAges, vars, coreVars, fileVars, tradeVars
<1>11. CASE Boot
  <2> DEFINE w == WithDesired(mem, desired)
             n == WithMembers(w, desired)
  <2>1. w \in MemType
    BY WithDesiredType
  <2> HIDE DEF w
  <2>2. n \in MemType
    BY <2>1, WithMembersType
  <2>3. StopContour(orders, desired.mode) \in [Keys -> 0..2]
    BY StopContourIs
  <2>4. StopMembers(StopContour(orders, desired.mode), w, desired) \in [Keys -> 0..2]
    BY <2>3, StopMembersIs
  <2>5. w.state \in States /\ desired.generation \in 0..MaxGeneration
    BY <2>1 DEF MemType, DesiredType
  <2> HIDE DEF n
  <2>6. Snapshot(n) \in StatusType
    BY <2>2, SnapshotType
  <2>7. /\ mem' = n /\ status' = Snapshot(n) /\ phase' = "idle"
        /\ orders' = StopMembers(StopContour(orders, desired.mode), w, desired)
        /\ applied' = [generation |-> desired.generation, state |-> w.state]
        /\ UNCHANGED <<coreVars, read, roster, trade>>
    BY <1>11 DEF Boot, n, w
  <2> QED
    BY <2>2, <2>4, <2>5, <2>6, <2>7 DEF vars, coreVars, fileVars, tradeVars
<1>12. CASE BootUnread
  <2>1. mem' \in MemType
    BY <1>12 DEF BootUnread, MemType
  <2>2. status' \in StatusType
    BY <1>12, <2>1, SnapshotType DEF BootUnread
  <2> QED
    BY <1>12, <2>1, <2>2 DEF BootUnread, vars, coreVars, fileVars, tradeVars
<1>13. CASE ApplyGeneration
  <2>1. mem' \in MemType
    BY <1>13, LinkedType, WithDesiredType DEF ApplyGeneration
  <2>2. orders' \in [Keys -> 0..2]
    BY <1>13, StopContourIs DEF ApplyGeneration
  <2> QED
    BY <1>13, <2>1, <2>2 DEF ApplyGeneration, vars, coreVars, fileVars, tradeVars
<1>14. CASE SaveGeneration
  <2>1. read \in DesiredType
    BY <1>14, <1>b DEF SaveGeneration
  <2>2. mem' \in MemType /\ roster' \in SUBSET Keys /\ orders' \in [Keys -> 0..2]
    BY <1>14, <2>1, ApplyMembersIs DEF SaveGeneration
  <2>3. applied' \in [generation : 0..MaxGeneration, state : States]
    BY <1>14 DEF SaveGeneration, MemType
  <2> QED
    BY <1>14, <2>2, <2>3 DEF SaveGeneration, vars, coreVars, fileVars, tradeVars
<1>15. CASE RepeatStop
  <2>1. Linked(mem) \in MemType /\ StopContour(orders, mem.mode) \in [Keys -> 0..2]
    BY LinkedType, StopContourIs
  <2>2. mem' \in MemType /\ roster' \in SUBSET Keys /\ orders' \in [Keys -> 0..2]
    BY <1>15, <2>1, ApplyMembersIs DEF RepeatStop
  <2> QED
    BY <1>15, <2>2 DEF RepeatStop, vars, coreVars, fileVars, tradeVars
<1>16. CASE TickUnread
  <2>1. mem' \in MemType /\ orders' \in [Keys -> 0..2]
    BY <1>16, LinkedType, StopContourIs DEF TickUnread
  <2> QED
    BY <1>16, <2>1 DEF TickUnread, vars, coreVars, fileVars, tradeVars
<1>17. ASSUME NEW k \in Keys, EntryFills(k) PROVE T'
  BY <1>17 DEF EntryFills, Becomes, Holders, vars, coreVars, fileVars, tradeVars
<1>18. ASSUME NEW k \in Keys, EntryEnds(k) PROVE T'
  BY <1>18 DEF EntryEnds, Becomes, Holders, vars, coreVars, fileVars, tradeVars
<1>19. ASSUME NEW k \in Keys, CloseFills(k) PROVE T'
  BY <1>19 DEF CloseFills, Becomes, Holders, vars, coreVars, fileVars, tradeVars
<1>20. ASSUME NEW k \in Keys, CloseRefused(k) PROVE T'
  BY <1>20 DEF CloseRefused, Becomes, Holders, vars, coreVars, fileVars, tradeVars
<1>21. ASSUME NEW k \in Keys, PositionExits(k) PROVE T'
  BY <1>21 DEF PositionExits, Becomes, Holders, vars, coreVars, fileVars, tradeVars
<1>22. CASE AfterTick
  <2>1. Retired(mem) \in MemType
    BY RetiredType
  <2>2. mem' \in MemType
    BY <1>22, <2>1 DEF AfterTick, MemType, States
  <2>3. status' \in StatusType
    BY <1>22, <2>2, SnapshotType DEF AfterTick
  <2>4. applied' \in [generation : 0..MaxGeneration, state : States]
    BY <1>22 DEF AfterTick, MemType, States
  <2> QED
    BY <1>22, <2>2, <2>3, <2>4 DEF AfterTick, vars, coreVars, fileVars, tradeVars
<1>23. ASSUME NEW k \in Keys, Admit(k) PROVE T'
  BY <1>23 DEF Admit, Holders, vars, coreVars, fileVars, tradeVars
<1>24. CASE TickEnds
  BY <1>24 DEF TickEnds, vars, coreVars, fileVars, tradeVars
<1>25. CASE Exit
  BY <1>25, FreshType DEF Exit, vars, coreVars, fileVars, tradeVars
<1>26. CASE Crash
  BY <1>26, FreshType DEF Crash, vars, coreVars, fileVars, tradeVars
<1>27. CASE PulseCheck
  <2>1. mem' \in MemType
    BY <1>27 DEF PulseCheck, MemType
  <2> QED
    BY <1>27, <2>1 DEF PulseCheck, vars, coreVars, fileVars, tradeVars
<1>28. CASE UNCHANGED vars
  BY <1>28 DEF vars, coreVars, fileVars, tradeVars
<1> QED
  BY <1>1, <1>2, <1>3, <1>4, <1>5, <1>6, <1>7, <1>8, <1>9, <1>10, <1>11, <1>12, <1>13, <1>14, <1>15, <1>16, <1>17, <1>18, <1>19, <1>20, <1>21, <1>22, <1>23, <1>24, <1>25, <1>26, <1>27, <1>28
     DEF Next, Commands, CoreSteps, ContourSteps, BeforeTick, Execution

LEMMA ReadNext == TypeOK /\ ReadHeld /\ [Next]_vars => ReadHeld'
<1> SUFFICES ASSUME TypeOK, ReadHeld, [Next]_vars PROVE ReadHeld'
  OBVIOUS
<1>a. desired \in DesiredType /\ mem \in MemType /\ phase \in Phases /\ beat \in {"running", "silent", "stopped"}
  BY TypeParts
<1> SUFFICES ASSUME phase' = "save" PROVE read' \in DesiredType /\ read'.generation = mem'.generation
  BY DEF ReadHeld, DesiredType
<1> USE <1>a DEF ReadHeld, Phases, Running
<1>1. ASSUME NEW S \in SUBSET Keys \ {{}}, RecordLaunch(S) PROVE read' \in DesiredType /\ read'.generation = mem'.generation
  BY <1>1 DEF RecordLaunch, vars, coreVars, fileVars, tradeVars
<1>2. ASSUME NEW mode \in StopModes, RecordStop(mode) PROVE read' \in DesiredType /\ read'.generation = mem'.generation
  BY <1>2 DEF RecordStop, vars, coreVars, fileVars, tradeVars
<1>3. ASSUME NEW k \in Keys, AddMember(k) PROVE read' \in DesiredType /\ read'.generation = mem'.generation
  BY <1>3 DEF AddMember, vars, coreVars, fileVars, tradeVars
<1>4. ASSUME NEW k \in Keys, NEW mode \in StopModes, RemoveMember(k, mode) PROVE read' \in DesiredType /\ read'.generation = mem'.generation
  BY <1>4 DEF RemoveMember, vars, coreVars, fileVars, tradeVars
<1>5. CASE StartProcess
  BY <1>5 DEF StartProcess, vars, coreVars, fileVars, tradeVars
<1>6. CASE CoreStart
  BY <1>6 DEF CoreStart, vars, coreVars, fileVars, tradeVars
<1>7. CASE CoreStop
  <2>1. mem'.generation = mem.generation
    BY <1>7 DEF CoreStop, MemType
  <2> QED
    BY <1>7, <2>1 DEF CoreStop, vars, coreVars, fileVars, tradeVars
<1>8. CASE CoreStopped
  BY <1>8 DEF CoreStopped, vars, coreVars, fileVars, tradeVars
<1>9. CASE CoreCrash
  BY <1>9 DEF CoreCrash, vars, coreVars, fileVars, tradeVars
<1>10. CASE BeatAges
  BY <1>10 DEF BeatAges, vars, coreVars, fileVars, tradeVars
<1>11. CASE Boot
  BY <1>11 DEF Boot, vars, coreVars, fileVars, tradeVars
<1>12. CASE BootUnread
  BY <1>12 DEF BootUnread, vars, coreVars, fileVars, tradeVars
<1>13. CASE ApplyGeneration
  <2>1. mem'.generation = desired.generation
    BY <1>13, LinkedType, WithDesiredType DEF ApplyGeneration
  <2> QED
    BY <1>13, <2>1 DEF ApplyGeneration
<1>14. CASE SaveGeneration
  BY <1>14 DEF SaveGeneration, vars, coreVars, fileVars, tradeVars
<1>15. CASE RepeatStop
  BY <1>15 DEF RepeatStop, vars, coreVars, fileVars, tradeVars
<1>16. CASE TickUnread
  BY <1>16 DEF TickUnread, vars, coreVars, fileVars, tradeVars
<1>17. ASSUME NEW k \in Keys, EntryFills(k) PROVE read' \in DesiredType /\ read'.generation = mem'.generation
  BY <1>17 DEF EntryFills, Executes, Becomes, vars, coreVars, fileVars, tradeVars
<1>18. ASSUME NEW k \in Keys, EntryEnds(k) PROVE read' \in DesiredType /\ read'.generation = mem'.generation
  BY <1>18 DEF EntryEnds, Executes, Becomes, vars, coreVars, fileVars, tradeVars
<1>19. ASSUME NEW k \in Keys, CloseFills(k) PROVE read' \in DesiredType /\ read'.generation = mem'.generation
  BY <1>19 DEF CloseFills, Executes, Becomes, vars, coreVars, fileVars, tradeVars
<1>20. ASSUME NEW k \in Keys, CloseRefused(k) PROVE read' \in DesiredType /\ read'.generation = mem'.generation
  BY <1>20 DEF CloseRefused, Executes, Becomes, vars, coreVars, fileVars, tradeVars
<1>21. ASSUME NEW k \in Keys, PositionExits(k) PROVE read' \in DesiredType /\ read'.generation = mem'.generation
  BY <1>21 DEF PositionExits, Executes, Becomes, vars, coreVars, fileVars, tradeVars
<1>22. CASE AfterTick
  BY <1>22 DEF AfterTick, vars, coreVars, fileVars, tradeVars
<1>23. ASSUME NEW k \in Keys, Admit(k) PROVE read' \in DesiredType /\ read'.generation = mem'.generation
  BY <1>23 DEF Admit, vars, coreVars, fileVars, tradeVars
<1>24. CASE TickEnds
  BY <1>24 DEF TickEnds, vars, coreVars, fileVars, tradeVars
<1>25. CASE Exit
  BY <1>25 DEF Exit, vars, coreVars, fileVars, tradeVars
<1>26. CASE Crash
  BY <1>26 DEF Crash, vars, coreVars, fileVars, tradeVars
<1>27. CASE PulseCheck
  <2>1. mem'.generation = mem.generation
    BY <1>27 DEF PulseCheck, MemType
  <2> QED
    BY <1>27, <2>1 DEF PulseCheck, vars, coreVars, fileVars, tradeVars
<1>28. CASE UNCHANGED vars
  BY <1>28 DEF vars, coreVars, fileVars, tradeVars
<1> QED
  BY <1>1, <1>2, <1>3, <1>4, <1>5, <1>6, <1>7, <1>8, <1>9, <1>10, <1>11, <1>12, <1>13, <1>14, <1>15, <1>16, <1>17, <1>18, <1>19, <1>20, <1>21, <1>22, <1>23, <1>24, <1>25, <1>26, <1>27, <1>28
     DEF Next, Commands, CoreSteps, ContourSteps, BeforeTick, Execution

\* Every step of the core and of the contour's process keeps the types.
THEOREM TypeCorrect == Spec => []TypeOK
<1>1. Init => TypeOK /\ ReadHeld
  BY TypeInit
<1>2. TypeOK /\ ReadHeld /\ [Next]_vars => (TypeOK /\ ReadHeld)'
  BY TypeNext, ReadNext
<1> QED
  BY <1>1, <1>2, PTL DEF Spec

-----------------------------------------------------------------------------
(* Stopped for good.                                                       *)

\* The parts of a step that the invariants below read.
LEMMA MemTyped == TypeOK => /\ mem \in MemType /\ desired \in DesiredType /\ phase \in Phases
                            /\ beat \in {"running", "silent", "stopped"}
                            /\ applied.generation \in 0..MaxGeneration
                            /\ mem.generation \in 0..MaxGeneration
                            /\ desired.generation \in 0..MaxGeneration
                            /\ mem.mode \in Modes /\ mem.state \in States /\ mem.stop \in BOOLEAN
                            /\ desired.mode \in Modes
<1> SUFFICES ASSUME TypeOK PROVE mem \in MemType /\ desired \in DesiredType /\ phase \in Phases
                            /\ beat \in {"running", "silent", "stopped"}
                            /\ applied \in [generation : 0..MaxGeneration, state : States]
  BY DEF MemType, DesiredType
<1> QED
  BY TypeParts

\* A check of the pulse and the stop of the core set a flag of the memory.
LEMMA PulseIs ==
  ASSUME TypeOK, PulseCheck
  PROVE  /\ mem'.generation = mem.generation /\ mem'.mode = mem.mode /\ mem'.state = mem.state
         /\ mem'.members = mem.members /\ mem'.stops = mem.stops
         /\ mem.stop => mem'.stop
  BY MemTyped DEF PulseCheck, MemType

LEMMA CoreStopIs ==
  ASSUME TypeOK, CoreStop
  PROVE  /\ mem'.generation = mem.generation /\ mem'.mode = mem.mode /\ mem'.state = mem.state
         /\ mem'.members = mem.members /\ mem'.stops = mem.stops
         /\ mem.stop => mem'.stop
  BY MemTyped DEF CoreStop, MemType

\* What after_tick leaves in the memory.
LEMMA AfterTickIs ==
  ASSUME TypeOK, AfterTick
  PROVE  /\ mem'.generation = mem.generation /\ mem'.mode = mem.mode
         /\ mem'.members = Retired(mem).members /\ mem'.stops = Retired(mem).stops
         /\ Finishes => mem'.state = "stopped" /\ mem'.stop
         /\ ~Finishes => mem'.state = mem.state
<1>1. Retired(mem) \in MemType /\ Retired(mem).generation = mem.generation
      /\ Retired(mem).mode = mem.mode /\ Retired(mem).state = mem.state
  BY MemTyped, RetiredType
<1> QED
  BY <1>1 DEF AfterTick, MemType

\* What a boundary leaves in the memory, for each of its outcomes.
LEMMA BoundaryIs ==
  ASSUME TypeOK, ReadHeld
  PROVE  /\ ApplyGeneration => /\ mem'.generation = desired.generation /\ mem'.mode = desired.mode
                               /\ mem'.state # "stopped"
                               /\ mem'.members = mem.members /\ mem'.stops = mem.stops
         /\ SaveGeneration \/ RepeatStop => /\ mem'.generation = mem.generation /\ mem'.mode = mem.mode
                                            /\ mem'.state = mem.state /\ mem'.stop = mem.stop
         /\ TickUnread => /\ mem'.generation = mem.generation /\ mem'.mode = mem.mode
                          /\ mem'.state = mem.state /\ mem'.stop = mem.stop
                          /\ mem'.members = mem.members /\ mem'.stops = mem.stops
<1>1. mem \in MemType /\ desired \in DesiredType
  BY MemTyped
<1>2. roster \in SUBSET Keys /\ orders \in [Keys -> 0..2]
  BY TypeParts
<1>3. Linked(mem) \in MemType /\ Linked(mem).generation = mem.generation /\ Linked(mem).mode = mem.mode
      /\ Linked(mem).state = mem.state /\ Linked(mem).stop = mem.stop
      /\ Linked(mem).members = mem.members /\ Linked(mem).stops = mem.stops
  BY <1>1, LinkedType
<1>4. CASE ApplyGeneration
  BY <1>1, <1>3, <1>4, WithDesiredType DEF ApplyGeneration, SaveGeneration, RepeatStop, TickUnread, TickBegins
<1>5. CASE SaveGeneration
  <2>1. read \in DesiredType
    BY <1>5 DEF SaveGeneration, ReadHeld
  <2>2. mem'.generation = mem.generation /\ mem'.mode = mem.mode /\ mem'.state = mem.state /\ mem'.stop = mem.stop
    BY <1>1, <1>2, <1>5, <2>1, ApplyMembersIs DEF SaveGeneration
  <2> QED
    BY <1>5, <2>2 DEF ApplyGeneration, SaveGeneration, TickUnread, TickBegins
<1>6. CASE RepeatStop
  <2>1. StopContour(orders, mem.mode) \in [Keys -> 0..2]
    BY <1>2, StopContourIs
  <2>2. mem'.generation = mem.generation /\ mem'.mode = mem.mode /\ mem'.state = mem.state /\ mem'.stop = mem.stop
    BY <1>1, <1>2, <1>3, <1>6, <2>1, ApplyMembersIs DEF RepeatStop
  <2>3. ~ApplyGeneration
    BY <1>6 DEF RepeatStop, ApplyGeneration
  <2>4. TickUnread => mem'.members = mem.members /\ mem'.stops = mem.stops
    BY <1>3 DEF TickUnread
  <2> QED
    BY <2>2, <2>3, <2>4
<1>7. CASE TickUnread
  <2>1. ~ApplyGeneration
    BY <1>7 DEF TickUnread, ApplyGeneration
  <2> QED
    BY <1>3, <1>5, <1>6, <1>7, <2>1 DEF TickUnread
<1> QED
  BY <1>4, <1>5, <1>6, <1>7

\* A start of the process with or without the desired state.
LEMMA BootIs ==
  ASSUME TypeOK
  PROVE  /\ Boot => /\ mem'.generation = desired.generation /\ mem'.mode = desired.mode
                    /\ mem'.state # "stopped" /\ applied'.state # "stopped"
                    /\ \A k \in Keys : /\ mem'.members[k] = MemberNext(k, desired.members[k], WithDesired(mem, desired))
                                       /\ mem'.stops[k] = StopNext(k, desired.members[k], WithDesired(mem, desired))
         /\ BootUnread => /\ mem'.generation = applied.generation /\ mem'.mode = mem.mode
                          /\ mem'.state = mem.state
                          /\ mem'.members = mem.members /\ mem'.stops = mem.stops
<1>1. mem \in MemType /\ desired \in DesiredType
  BY MemTyped
<1> DEFINE w == WithDesired(mem, desired)
<1>2. /\ w \in MemType /\ w.state # "stopped"
      /\ w.generation = desired.generation /\ w.mode = desired.mode
  BY <1>1, WithDesiredType
<1> HIDE DEF w
<1>3. /\ WithMembers(w, desired).state = w.state
      /\ WithMembers(w, desired).generation = w.generation
      /\ WithMembers(w, desired).mode = w.mode
      /\ \A k \in Keys : /\ WithMembers(w, desired).members[k] = MemberNext(k, desired.members[k], w)
                         /\ WithMembers(w, desired).stops[k] = StopNext(k, desired.members[k], w)
  BY <1>1, <1>2, WithMembersType
<1>4. Boot => mem' = WithMembers(w, desired) /\ applied'.state = w.state
  BY DEF Boot, w
<1>5. BootUnread => mem' = [mem EXCEPT !.generation = applied.generation]
  BY DEF BootUnread
<1>6. Boot => /\ mem'.generation = desired.generation /\ mem'.mode = desired.mode
              /\ mem'.state # "stopped" /\ applied'.state # "stopped"
              /\ \A k \in Keys : /\ mem'.members[k] = MemberNext(k, desired.members[k], w)
                                 /\ mem'.stops[k] = StopNext(k, desired.members[k], w)
  BY <1>2, <1>3, <1>4
<1>7. BootUnread => /\ mem'.generation = applied.generation /\ mem'.mode = mem.mode
                    /\ mem'.state = mem.state
                    /\ mem'.members = mem.members /\ mem'.stops = mem.stops
  BY <1>1, <1>5 DEF MemType
<1> QED
  BY <1>6, <1>7 DEF w

\* The state "stopped" latches the exit.
IdleNotStopped == mem.state = "stopped" => mem.stop

\* The memory is never ahead of the core, and behind it only by generation.
LEMMA GenerationsNext ==
  TypeOK /\ ReadHeld /\ GenerationsOK /\ IdleNotStopped /\ [Next]_vars => GenerationsOK'
<1> SUFFICES ASSUME TypeOK, ReadHeld, GenerationsOK, IdleNotStopped, [Next]_vars PROVE GenerationsOK'
  OBVIOUS
<1>a. /\ mem.generation \in Nat /\ applied.generation \in Nat /\ desired.generation \in Nat
      /\ phase \in Phases /\ mem.mode \in Modes
  BY MemTyped, MaxGenerationAssumption
<1> USE <1>a DEF GenerationsOK, IdleNotStopped, Phases, Running
<1>1. ASSUME NEW S \in SUBSET Keys \ {{}}, RecordLaunch(S) PROVE GenerationsOK'
  BY <1>1, MemTyped DEF RecordLaunch, DesiredType, MemType, vars, coreVars, fileVars, tradeVars
<1>2. ASSUME NEW mode \in StopModes, RecordStop(mode) PROVE GenerationsOK'
  <2>1. desired'.generation = desired.generation + 1
    BY <1>2 DEF RecordStop, DesiredType
  <2> QED
    BY <1>2, <2>1 DEF RecordStop, vars, coreVars, fileVars, tradeVars
<1>3. ASSUME NEW k \in Keys, AddMember(k) PROVE GenerationsOK'
  <2>1. desired'.generation = desired.generation + 1
    BY <1>3 DEF AddMember, DesiredType
  <2> QED
    BY <1>3, <2>1 DEF AddMember, vars, coreVars, fileVars, tradeVars
<1>4. ASSUME NEW k \in Keys, NEW mode \in StopModes, RemoveMember(k, mode) PROVE GenerationsOK'
  <2>1. desired'.generation = desired.generation + 1
    BY <1>4 DEF RemoveMember, DesiredType
  <2> QED
    BY <1>4, <2>1 DEF RemoveMember, vars, coreVars, fileVars, tradeVars
<1>5. CASE StartProcess
  BY <1>5, MaxGenerationAssumption DEF StartProcess, Fresh, vars, coreVars, fileVars, tradeVars
<1>6. CASE CoreStart
  BY <1>6 DEF CoreStart, Autostarts, vars, coreVars, fileVars, tradeVars
<1>7. CASE CoreStop
  BY <1>7, CoreStopIs DEF CoreStop, vars, coreVars, fileVars, tradeVars
<1>8. CASE CoreStopped
  BY <1>8 DEF CoreStopped, vars, coreVars, fileVars, tradeVars
<1>9. CASE CoreCrash
  BY <1>9 DEF CoreCrash, vars, coreVars, fileVars, tradeVars
<1>10. CASE BeatAges
  BY <1>10 DEF BeatAges, vars, coreVars, fileVars, tradeVars
<1>11. CASE Boot
  <2>1. applied'.generation = desired.generation
    BY <1>11 DEF Boot
  <2> QED
    BY <1>11, <2>1, BootIs DEF Boot, vars, coreVars, fileVars, tradeVars
<1>12. CASE BootUnread
  BY <1>12, BootIs DEF BootUnread, vars, coreVars, fileVars, tradeVars
<1>13. CASE ApplyGeneration
  BY <1>13, BoundaryIs DEF ApplyGeneration, TickBegins, vars, coreVars, fileVars, tradeVars
<1>14. CASE SaveGeneration
  <2>1. applied'.generation = mem.generation
    BY <1>14 DEF SaveGeneration
  <2> QED
    BY <1>14, <2>1, BoundaryIs DEF SaveGeneration, vars, coreVars, fileVars, tradeVars
<1>15. CASE RepeatStop
  BY <1>15, BoundaryIs DEF RepeatStop, TickBegins, vars, coreVars, fileVars, tradeVars
<1>16. CASE TickUnread
  BY <1>16, BoundaryIs DEF TickUnread, TickBegins, vars, coreVars, fileVars, tradeVars
<1>17. ASSUME NEW k \in Keys, EntryFills(k) PROVE GenerationsOK'
  BY <1>17 DEF EntryFills, Executes, Becomes, vars, coreVars, fileVars, tradeVars
<1>18. ASSUME NEW k \in Keys, EntryEnds(k) PROVE GenerationsOK'
  BY <1>18 DEF EntryEnds, Executes, Becomes, vars, coreVars, fileVars, tradeVars
<1>19. ASSUME NEW k \in Keys, CloseFills(k) PROVE GenerationsOK'
  BY <1>19 DEF CloseFills, Executes, Becomes, vars, coreVars, fileVars, tradeVars
<1>20. ASSUME NEW k \in Keys, CloseRefused(k) PROVE GenerationsOK'
  BY <1>20 DEF CloseRefused, Executes, Becomes, vars, coreVars, fileVars, tradeVars
<1>21. ASSUME NEW k \in Keys, PositionExits(k) PROVE GenerationsOK'
  BY <1>21 DEF PositionExits, Executes, Becomes, vars, coreVars, fileVars, tradeVars
<1>22. CASE AfterTick
  <2>1. applied'.generation \in {mem.generation, applied.generation}
    BY <1>22 DEF AfterTick
  <2> QED
    BY <1>22, <2>1, AfterTickIs DEF AfterTick, vars, coreVars, fileVars, tradeVars
<1>23. ASSUME NEW k \in Keys, Admit(k) PROVE GenerationsOK'
  BY <1>23 DEF Admit, vars, coreVars, fileVars, tradeVars
<1>24. CASE TickEnds
  BY <1>24 DEF TickEnds, vars, coreVars, fileVars, tradeVars
<1>25. CASE Exit
  BY <1>25, MaxGenerationAssumption DEF Exit, Fresh, vars, coreVars, fileVars, tradeVars
<1>26. CASE Crash
  BY <1>26, MaxGenerationAssumption DEF Crash, Fresh, vars, coreVars, fileVars, tradeVars
<1>27. CASE PulseCheck
  BY <1>27, PulseIs DEF PulseCheck, vars, coreVars, fileVars, tradeVars
<1>28. CASE UNCHANGED vars
  BY <1>28 DEF vars, coreVars, fileVars, tradeVars
<1> QED
  BY <1>1, <1>2, <1>3, <1>4, <1>5, <1>6, <1>7, <1>8, <1>9, <1>10, <1>11, <1>12, <1>13, <1>14, <1>15, <1>16, <1>17, <1>18, <1>19, <1>20, <1>21, <1>22, <1>23, <1>24, <1>25, <1>26, <1>27, <1>28
     DEF Next, Commands, CoreSteps, ContourSteps, BeforeTick, Execution

LEMMA IdleNext ==
  TypeOK /\ ReadHeld /\ GenerationsOK /\ IdleNotStopped /\ [Next]_vars => IdleNotStopped'
<1> SUFFICES ASSUME TypeOK, ReadHeld, GenerationsOK, IdleNotStopped, [Next]_vars PROVE IdleNotStopped'
  OBVIOUS
<1> USE DEF IdleNotStopped
<1>1. ASSUME NEW S \in SUBSET Keys \ {{}}, RecordLaunch(S) PROVE IdleNotStopped'
  BY <1>1 DEF RecordLaunch, vars, coreVars, fileVars, tradeVars
<1>2. ASSUME NEW mode \in StopModes, RecordStop(mode) PROVE IdleNotStopped'
  BY <1>2 DEF RecordStop, vars, coreVars, fileVars, tradeVars
<1>3. ASSUME NEW k \in Keys, AddMember(k) PROVE IdleNotStopped'
  BY <1>3 DEF AddMember, vars, coreVars, fileVars, tradeVars
<1>4. ASSUME NEW k \in Keys, NEW mode \in StopModes, RemoveMember(k, mode) PROVE IdleNotStopped'
  BY <1>4 DEF RemoveMember, vars, coreVars, fileVars, tradeVars
<1>5. CASE StartProcess
  BY <1>5 DEF StartProcess, Fresh, vars, coreVars, fileVars, tradeVars
<1>6. CASE CoreStart
  BY <1>6 DEF CoreStart, vars, coreVars, fileVars, tradeVars
<1>7. CASE CoreStop
  BY <1>7, CoreStopIs DEF CoreStop, vars, coreVars, fileVars, tradeVars
<1>8. CASE CoreStopped
  BY <1>8 DEF CoreStopped, vars, coreVars, fileVars, tradeVars
<1>9. CASE CoreCrash
  BY <1>9 DEF CoreCrash, vars, coreVars, fileVars, tradeVars
<1>10. CASE BeatAges
  BY <1>10 DEF BeatAges, vars, coreVars, fileVars, tradeVars
<1>11. CASE Boot
  BY <1>11, BootIs
<1>12. CASE BootUnread
  BY <1>12, BootIs DEF BootUnread, GenerationsOK
<1>13. CASE ApplyGeneration
  BY <1>13, BoundaryIs
<1>14. CASE SaveGeneration
  BY <1>14, BoundaryIs
<1>15. CASE RepeatStop
  BY <1>15, BoundaryIs
<1>16. CASE TickUnread
  BY <1>16, BoundaryIs
<1>17. ASSUME NEW k \in Keys, EntryFills(k) PROVE IdleNotStopped'
  BY <1>17 DEF EntryFills, Executes, Becomes
<1>18. ASSUME NEW k \in Keys, EntryEnds(k) PROVE IdleNotStopped'
  BY <1>18 DEF EntryEnds, Executes, Becomes
<1>19. ASSUME NEW k \in Keys, CloseFills(k) PROVE IdleNotStopped'
  BY <1>19 DEF CloseFills, Executes, Becomes
<1>20. ASSUME NEW k \in Keys, CloseRefused(k) PROVE IdleNotStopped'
  BY <1>20 DEF CloseRefused, Executes, Becomes
<1>21. ASSUME NEW k \in Keys, PositionExits(k) PROVE IdleNotStopped'
  BY <1>21 DEF PositionExits, Executes, Becomes
<1>22. CASE AfterTick
  BY <1>22, AfterTickIs DEF AfterTick, GenerationsOK
<1>23. ASSUME NEW k \in Keys, Admit(k) PROVE IdleNotStopped'
  BY <1>23 DEF Admit, vars, coreVars, fileVars, tradeVars
<1>24. CASE TickEnds
  BY <1>24 DEF TickEnds, vars, coreVars, fileVars, tradeVars
<1>25. CASE Exit
  BY <1>25 DEF Exit, Fresh
<1>26. CASE Crash
  BY <1>26 DEF Crash, Fresh
<1>27. CASE PulseCheck
  BY <1>27, PulseIs DEF PulseCheck, vars, coreVars, fileVars, tradeVars
<1>28. CASE UNCHANGED vars
  BY <1>28 DEF vars, coreVars, fileVars, tradeVars
<1> QED
  BY <1>1, <1>2, <1>3, <1>4, <1>5, <1>6, <1>7, <1>8, <1>9, <1>10, <1>11, <1>12, <1>13, <1>14, <1>15, <1>16, <1>17, <1>18, <1>19, <1>20, <1>21, <1>22, <1>23, <1>24, <1>25, <1>26, <1>27, <1>28
     DEF Next, Commands, CoreSteps, ContourSteps, BeforeTick, Execution

LEMMA StoppedNext ==
  TypeOK /\ ReadHeld /\ GenerationsOK /\ StoppedForGood /\ [Next]_vars => StoppedForGood'
<1> SUFFICES ASSUME TypeOK, ReadHeld, GenerationsOK, StoppedForGood, [Next]_vars PROVE StoppedForGood'
  OBVIOUS
<1>a. /\ mem.generation \in Nat /\ applied.generation \in Nat /\ desired.generation \in Nat
      /\ phase \in Phases
  BY MemTyped, MaxGenerationAssumption
<1> USE <1>a DEF GenerationsOK, StoppedForGood, Phases, Running, Held
<1>1. ASSUME NEW S \in SUBSET Keys \ {{}}, RecordLaunch(S) PROVE StoppedForGood'
  BY <1>1 DEF RecordLaunch, vars, coreVars, fileVars, tradeVars
<1>2. ASSUME NEW mode \in StopModes, RecordStop(mode) PROVE StoppedForGood'
  <2>1. desired'.generation = desired.generation + 1
    BY <1>2, MemTyped DEF RecordStop, DesiredType
  <2> QED
    BY <1>2, <2>1 DEF RecordStop, vars, coreVars, fileVars, tradeVars
<1>3. ASSUME NEW k \in Keys, AddMember(k) PROVE StoppedForGood'
  <2>1. desired'.generation = desired.generation + 1
    BY <1>3, MemTyped DEF AddMember, DesiredType
  <2> QED
    BY <1>3, <2>1 DEF AddMember, vars, coreVars, fileVars, tradeVars
<1>4. ASSUME NEW k \in Keys, NEW mode \in StopModes, RemoveMember(k, mode) PROVE StoppedForGood'
  <2>1. desired'.generation = desired.generation + 1
    BY <1>4, MemTyped DEF RemoveMember, DesiredType
  <2> QED
    BY <1>4, <2>1 DEF RemoveMember, vars, coreVars, fileVars, tradeVars
<1>5. CASE StartProcess
  BY <1>5 DEF StartProcess, vars, coreVars, fileVars, tradeVars
<1>6. CASE CoreStart
  BY <1>6 DEF CoreStart, Autostarts, ShouldRun, vars, coreVars, fileVars, tradeVars
<1>7. CASE CoreStop
  BY <1>7, CoreStopIs DEF CoreStop, vars, coreVars, fileVars, tradeVars
<1>8. CASE CoreStopped
  BY <1>8 DEF CoreStopped, vars, coreVars, fileVars, tradeVars
<1>9. CASE CoreCrash
  BY <1>9 DEF CoreCrash, vars, coreVars, fileVars, tradeVars
<1>10. CASE BeatAges
  BY <1>10 DEF BeatAges, vars, coreVars, fileVars, tradeVars
<1>11. CASE Boot
  BY <1>11, BootIs DEF Boot, vars, coreVars, fileVars, tradeVars
<1>12. CASE BootUnread
  BY <1>12 DEF BootUnread, vars, coreVars, fileVars, tradeVars
<1>13. CASE ApplyGeneration
  <2>1. ~(applied.state = "stopped" /\ applied.generation = desired.generation)
    BY <1>13 DEF ApplyGeneration, TickBegins
  <2> QED
    BY <1>13, <2>1 DEF ApplyGeneration, vars, coreVars, fileVars, tradeVars
<1>14. CASE SaveGeneration
  <2>1. applied'.state # "stopped"
    BY <1>14 DEF SaveGeneration
  <2> QED
    BY <2>1
<1>15. CASE RepeatStop
  BY <1>15 DEF RepeatStop, TickBegins, vars, coreVars, fileVars, tradeVars
<1>16. CASE TickUnread
  BY <1>16 DEF TickUnread, TickBegins, vars, coreVars, fileVars, tradeVars
<1>17. ASSUME NEW k \in Keys, EntryFills(k) PROVE StoppedForGood'
  BY <1>17 DEF EntryFills, Executes, Becomes, vars, coreVars, fileVars, tradeVars
<1>18. ASSUME NEW k \in Keys, EntryEnds(k) PROVE StoppedForGood'
  BY <1>18 DEF EntryEnds, Executes, Becomes, vars, coreVars, fileVars, tradeVars
<1>19. ASSUME NEW k \in Keys, CloseFills(k) PROVE StoppedForGood'
  BY <1>19 DEF CloseFills, Executes, Becomes, vars, coreVars, fileVars, tradeVars
<1>20. ASSUME NEW k \in Keys, CloseRefused(k) PROVE StoppedForGood'
  BY <1>20 DEF CloseRefused, Executes, Becomes, vars, coreVars, fileVars, tradeVars
<1>21. ASSUME NEW k \in Keys, PositionExits(k) PROVE StoppedForGood'
  BY <1>21 DEF PositionExits, Executes, Becomes, vars, coreVars, fileVars, tradeVars
<1>22. CASE AfterTick
  <2>1. CASE ~Finishes
    BY <1>22, <2>1 DEF AfterTick, vars, coreVars, fileVars, tradeVars
  <2>2. CASE Finishes
    <3>1. Held = {} /\ mem.mode # "on"
      BY <2>2 DEF Finishes, Empty
    <3>2. status'.state = "stopped" /\ mem'.stop /\ mem'.mode = mem.mode
      BY <1>22, <2>2, AfterTickIs DEF AfterTick, Snapshot
    <3>3. applied'.generation = mem.generation
      BY <1>22, <2>2 DEF AfterTick
    <3> QED
      BY <1>22, <3>1, <3>2, <3>3 DEF AfterTick, vars, coreVars, fileVars, tradeVars
  <2> QED
    BY <2>1, <2>2
<1>23. ASSUME NEW k \in Keys, Admit(k) PROVE StoppedForGood'
  BY <1>23 DEF Admit, Allowed, vars, coreVars, fileVars, tradeVars
<1>24. CASE TickEnds
  BY <1>24 DEF TickEnds, vars, coreVars, fileVars, tradeVars
<1>25. CASE Exit
  BY <1>25 DEF Exit, vars, coreVars, fileVars, tradeVars
<1>26. CASE Crash
  BY <1>26 DEF Crash, vars, coreVars, fileVars, tradeVars
<1>27. CASE PulseCheck
  BY <1>27, PulseIs DEF PulseCheck, vars, coreVars, fileVars, tradeVars
<1>28. CASE UNCHANGED vars
  BY <1>28 DEF vars, coreVars, fileVars, tradeVars
<1> QED
  BY <1>1, <1>2, <1>3, <1>4, <1>5, <1>6, <1>7, <1>8, <1>9, <1>10, <1>11, <1>12, <1>13, <1>14, <1>15, <1>16, <1>17, <1>18, <1>19, <1>20, <1>21, <1>22, <1>23, <1>24, <1>25, <1>26, <1>27, <1>28
     DEF Next, Commands, CoreSteps, ContourSteps, BeforeTick, Execution

LEMMA StopInvariant == Spec => [](TypeOK /\ ReadHeld /\ GenerationsOK /\ IdleNotStopped /\ StoppedForGood)
<1>1. Init => TypeOK /\ ReadHeld /\ GenerationsOK /\ IdleNotStopped /\ StoppedForGood
  BY TypeInit DEF Init, Fresh, GenerationsOK, IdleNotStopped, StoppedForGood, Held
<1>2. TypeOK /\ ReadHeld /\ GenerationsOK /\ IdleNotStopped /\ StoppedForGood /\ [Next]_vars
      => (TypeOK /\ ReadHeld /\ GenerationsOK /\ IdleNotStopped /\ StoppedForGood)'
  BY TypeNext, ReadNext, GenerationsNext, IdleNext, StoppedNext
<1> QED
  BY <1>1, <1>2, PTL DEF Spec

\* contour_state says "stopped" for the desired generation only while the
\* journal holds no trade: what contour_control.py may tell the core, and what
\* recovery.py relies on when it leaves the contour down.
THEOREM StoppedCorrect == Spec => []StoppedIsFlat
<1>1. StoppedForGood => StoppedIsFlat
  BY DEF StoppedForGood, StoppedIsFlat
<1> QED
  BY <1>1, StopInvariant, PTL

-----------------------------------------------------------------------------
(* The cycle covers the live trades.                                       *)

Base == TypeOK /\ ReadHeld /\ GenerationsOK

LEMMA BootFreshNext == Base /\ BootFresh /\ [Next]_vars => BootFresh'
<1> SUFFICES ASSUME Base, BootFresh, [Next]_vars PROVE BootFresh'
  OBVIOUS
<1> USE DEF Base, BootFresh, Phases, Running
<1>1. ASSUME NEW S \in SUBSET Keys \ {{}}, RecordLaunch(S) PROVE BootFresh'
  BY <1>1 DEF RecordLaunch, vars, coreVars, fileVars, tradeVars
<1>2. ASSUME NEW mode \in StopModes, RecordStop(mode) PROVE BootFresh'
  BY <1>2 DEF RecordStop, vars, coreVars, fileVars, tradeVars
<1>3. ASSUME NEW k \in Keys, AddMember(k) PROVE BootFresh'
  BY <1>3 DEF AddMember, vars, coreVars, fileVars, tradeVars
<1>4. ASSUME NEW k \in Keys, NEW mode \in StopModes, RemoveMember(k, mode) PROVE BootFresh'
  BY <1>4 DEF RemoveMember, vars, coreVars, fileVars, tradeVars
<1>5. CASE StartProcess
  BY <1>5 DEF StartProcess, Fresh, vars, coreVars, fileVars, tradeVars
<1>6. CASE CoreStart
  BY <1>6 DEF CoreStart, Autostarts, vars, coreVars, fileVars, tradeVars
<1>7. CASE CoreStop
  BY <1>7, CoreStopIs DEF CoreStop, vars, coreVars, fileVars, tradeVars
<1>8. CASE CoreStopped
  BY <1>8 DEF CoreStopped, vars, coreVars, fileVars, tradeVars
<1>9. CASE CoreCrash
  BY <1>9 DEF CoreCrash, vars, coreVars, fileVars, tradeVars
<1>10. CASE BeatAges
  BY <1>10 DEF BeatAges, vars, coreVars, fileVars, tradeVars
<1>11. CASE Boot
  BY <1>11 DEF Boot, vars, coreVars, fileVars, tradeVars
<1>12. CASE BootUnread
  BY <1>12 DEF BootUnread, vars, coreVars, fileVars, tradeVars
<1>13. CASE ApplyGeneration
  BY <1>13 DEF ApplyGeneration, TickBegins, vars, coreVars, fileVars, tradeVars
<1>14. CASE SaveGeneration
  BY <1>14 DEF SaveGeneration, vars, coreVars, fileVars, tradeVars
<1>15. CASE RepeatStop
  BY <1>15 DEF RepeatStop, TickBegins, vars, coreVars, fileVars, tradeVars
<1>16. CASE TickUnread
  BY <1>16 DEF TickUnread, TickBegins, vars, coreVars, fileVars, tradeVars
<1>17. ASSUME NEW k \in Keys, EntryFills(k) PROVE BootFresh'
  BY <1>17 DEF EntryFills, Executes, Becomes, vars, coreVars, fileVars, tradeVars
<1>18. ASSUME NEW k \in Keys, EntryEnds(k) PROVE BootFresh'
  BY <1>18 DEF EntryEnds, Executes, Becomes, vars, coreVars, fileVars, tradeVars
<1>19. ASSUME NEW k \in Keys, CloseFills(k) PROVE BootFresh'
  BY <1>19 DEF CloseFills, Executes, Becomes, vars, coreVars, fileVars, tradeVars
<1>20. ASSUME NEW k \in Keys, CloseRefused(k) PROVE BootFresh'
  BY <1>20 DEF CloseRefused, Executes, Becomes, vars, coreVars, fileVars, tradeVars
<1>21. ASSUME NEW k \in Keys, PositionExits(k) PROVE BootFresh'
  BY <1>21 DEF PositionExits, Executes, Becomes, vars, coreVars, fileVars, tradeVars
<1>22. CASE AfterTick
  BY <1>22 DEF AfterTick, vars, coreVars, fileVars, tradeVars
<1>23. ASSUME NEW k \in Keys, Admit(k) PROVE BootFresh'
  BY <1>23 DEF Admit, vars, coreVars, fileVars, tradeVars
<1>24. CASE TickEnds
  BY <1>24 DEF TickEnds, vars, coreVars, fileVars, tradeVars
<1>25. CASE Exit
  BY <1>25 DEF Exit, Fresh, vars, coreVars, fileVars, tradeVars
<1>26. CASE Crash
  BY <1>26 DEF Crash, Fresh, vars, coreVars, fileVars, tradeVars
<1>27. CASE PulseCheck
  BY <1>27, PulseIs DEF PulseCheck, vars, coreVars, fileVars, tradeVars
<1>28. CASE UNCHANGED vars
  BY <1>28 DEF vars, coreVars, fileVars, tradeVars
<1> QED
  BY <1>1, <1>2, <1>3, <1>4, <1>5, <1>6, <1>7, <1>8, <1>9, <1>10, <1>11, <1>12, <1>13, <1>14, <1>15, <1>16, <1>17, <1>18, <1>19, <1>20, <1>21, <1>22, <1>23, <1>24, <1>25, <1>26, <1>27, <1>28
     DEF Next, Commands, CoreSteps, ContourSteps, BeforeTick, Execution

LEMMA ReadOKNext == Base /\ ReadOK /\ [Next]_vars => ReadOK'
<1> SUFFICES ASSUME Base, ReadOK, [Next]_vars PROVE ReadOK'
  OBVIOUS
<1>a. /\ mem \in MemType /\ desired \in DesiredType /\ phase \in Phases
      /\ mem.generation \in Nat /\ desired.generation \in Nat
  BY MemTyped, MaxGenerationAssumption DEF Base
<1>b. mem.generation <= desired.generation
  BY DEF Base, GenerationsOK
<1>c. TypeOK /\ ReadHeld
  BY DEF Base
<1> USE <1>a, <1>b, <1>c DEF ReadOK, Phases, Running
<1>1. ASSUME NEW S \in SUBSET Keys \ {{}}, RecordLaunch(S) PROVE ReadOK'
  BY <1>1 DEF RecordLaunch, vars, coreVars, fileVars, tradeVars
<1>2. ASSUME NEW mode \in StopModes, RecordStop(mode) PROVE ReadOK'
  <2>1. desired'.generation = desired.generation + 1 /\ desired'.members = desired.members
    BY <1>2 DEF RecordStop, DesiredType
  <2> QED
    BY <1>2, <2>1 DEF RecordStop, vars, coreVars, fileVars, tradeVars
<1>3. ASSUME NEW k \in Keys, AddMember(k) PROVE ReadOK'
  <2>1. desired'.generation = desired.generation + 1
    BY <1>3 DEF AddMember, DesiredType
  <2>2. \A j \in Keys : desired.members[j] # "absent" => desired'.members[j] # "absent"
    BY <1>3 DEF AddMember, DesiredType, StopModes
  <2> QED
    BY <1>3, <2>1, <2>2 DEF AddMember, vars, coreVars, fileVars, tradeVars
<1>4. ASSUME NEW k \in Keys, NEW mode \in StopModes, RemoveMember(k, mode) PROVE ReadOK'
  <2>1. desired'.generation = desired.generation + 1
    BY <1>4 DEF RemoveMember, DesiredType
  <2>2. \A j \in Keys : desired.members[j] # "absent" => desired'.members[j] # "absent"
    BY <1>4 DEF RemoveMember, DesiredType, StopModes
  <2> QED
    BY <1>4, <2>1, <2>2 DEF RemoveMember, vars, coreVars, fileVars, tradeVars
<1>5. CASE StartProcess
  BY <1>5 DEF StartProcess, vars, coreVars, fileVars, tradeVars
<1>6. CASE CoreStart
  BY <1>6 DEF CoreStart, vars, coreVars, fileVars, tradeVars
<1>7. CASE CoreStop
  BY <1>7, CoreStopIs DEF CoreStop, vars, coreVars, fileVars, tradeVars
<1>8. CASE CoreStopped
  BY <1>8 DEF CoreStopped, vars, coreVars, fileVars, tradeVars
<1>9. CASE CoreCrash
  BY <1>9 DEF CoreCrash, vars, coreVars, fileVars, tradeVars
<1>10. CASE BeatAges
  BY <1>10 DEF BeatAges, vars, coreVars, fileVars, tradeVars
<1>11. CASE Boot
  BY <1>11 DEF Boot, vars, coreVars, fileVars, tradeVars
<1>12. CASE BootUnread
  BY <1>12 DEF BootUnread, vars, coreVars, fileVars, tradeVars
<1>13. CASE ApplyGeneration
  BY <1>13, BoundaryIs DEF ApplyGeneration, vars, coreVars, fileVars, tradeVars
<1>14. CASE SaveGeneration
  BY <1>14 DEF SaveGeneration, vars, coreVars, fileVars, tradeVars
<1>15. CASE RepeatStop
  BY <1>15 DEF RepeatStop, vars, coreVars, fileVars, tradeVars
<1>16. CASE TickUnread
  BY <1>16 DEF TickUnread, vars, coreVars, fileVars, tradeVars
<1>17. ASSUME NEW k \in Keys, EntryFills(k) PROVE ReadOK'
  BY <1>17 DEF EntryFills, Executes, Becomes, vars, coreVars, fileVars, tradeVars
<1>18. ASSUME NEW k \in Keys, EntryEnds(k) PROVE ReadOK'
  BY <1>18 DEF EntryEnds, Executes, Becomes, vars, coreVars, fileVars, tradeVars
<1>19. ASSUME NEW k \in Keys, CloseFills(k) PROVE ReadOK'
  BY <1>19 DEF CloseFills, Executes, Becomes, vars, coreVars, fileVars, tradeVars
<1>20. ASSUME NEW k \in Keys, CloseRefused(k) PROVE ReadOK'
  BY <1>20 DEF CloseRefused, Executes, Becomes, vars, coreVars, fileVars, tradeVars
<1>21. ASSUME NEW k \in Keys, PositionExits(k) PROVE ReadOK'
  BY <1>21 DEF PositionExits, Executes, Becomes, vars, coreVars, fileVars, tradeVars
<1>22. CASE AfterTick
  BY <1>22 DEF AfterTick, vars, coreVars, fileVars, tradeVars
<1>23. ASSUME NEW k \in Keys, Admit(k) PROVE ReadOK'
  BY <1>23 DEF Admit, vars, coreVars, fileVars, tradeVars
<1>24. CASE TickEnds
  BY <1>24 DEF TickEnds, vars, coreVars, fileVars, tradeVars
<1>25. CASE Exit
  BY <1>25 DEF Exit, vars, coreVars, fileVars, tradeVars
<1>26. CASE Crash
  BY <1>26 DEF Crash, vars, coreVars, fileVars, tradeVars
<1>27. CASE PulseCheck
  BY <1>27, PulseIs DEF PulseCheck, vars, coreVars, fileVars, tradeVars
<1>28. CASE UNCHANGED vars
  BY <1>28 DEF vars, coreVars, fileVars, tradeVars
<1> QED
  BY <1>1, <1>2, <1>3, <1>4, <1>5, <1>6, <1>7, <1>8, <1>9, <1>10, <1>11, <1>12, <1>13, <1>14, <1>15, <1>16, <1>17, <1>18, <1>19, <1>20, <1>21, <1>22, <1>23, <1>24, <1>25, <1>26, <1>27, <1>28
     DEF Next, Commands, CoreSteps, ContourSteps, BeforeTick, Execution

\* Applying the members keeps the cycle over the live trades, with the desired
\* state of this moment or an older one.
LEMMA ApplyKeepsCycle ==
  ASSUME NEW m \in MemType, NEW old \in [Keys -> 0..2], NEW d \in DesiredType,
         TypeOK, CycleOK, phase \in AfterBoot, m.members = mem.members,
         \A k \in Keys : d.members[k] # "absent" => desired.members[k] # "absent",
         ApplyMembers(m, old, d), UNCHANGED <<desired, status, trade>>, phase' = "exec"
  PROVE  CycleOK'
<1>1. roster \in SUBSET Keys
  BY TypeParts
<1>2. /\ roster' \in SUBSET Keys
      /\ \A k \in Keys : /\ mem'.members[k] = "none" <=> MemberNext(k, d.members[k], m) = "none"
                         /\ MemberNext(k, d.members[k], m) \in {"trading", "draining", "closing"}
                            => mem'.members[k] = MemberNext(k, d.members[k], m)
                         /\ k \in roster' =>
                              \/ k \in roster
                              \/ MemberNext(k, d.members[k], m) = "warmed" /\ mem'.members[k] = "trading"
                         /\ k \in roster /\ m.members[k] \in {"trading", "draining", "closing"} => k \in roster'
  BY <1>1, ApplyMembersIs
<1>3. \A k \in Keys :
        /\ d.members[k] = "absent" => MemberNext(k, d.members[k], m) = m.members[k]
        /\ m.members[k] \in {"trading", "draining", "closing"}
           => MemberNext(k, d.members[k], m) \in {"trading", "draining", "closing"}
  <2> SUFFICES ASSUME NEW k \in Keys
               PROVE  /\ d.members[k] = "absent" => MemberNext(k, d.members[k], m) = m.members[k]
                      /\ m.members[k] \in {"trading", "draining", "closing"}
                         => MemberNext(k, d.members[k], m) \in {"trading", "draining", "closing"}
    OBVIOUS
  <2> DEFINE goal == d.members[k]
  <2>1. goal \in MemberGoals
    BY DEF DesiredType
  <2> HIDE DEF goal
  <2>2. /\ goal = "absent" => MemberNext(k, goal, m) = m.members[k]
        /\ m.members[k] \in {"trading", "draining", "closing"} /\ goal # "absent"
           => MemberNext(k, goal, m) \in {"trading", "draining", "closing"}
    BY <2>1, MemberNextIs
  <2>3. /\ goal = "absent" => MemberNext(k, goal, m) = m.members[k]
        /\ m.members[k] \in {"trading", "draining", "closing"}
           => MemberNext(k, goal, m) \in {"trading", "draining", "closing"}
    BY <2>2
  <2> QED
    BY <2>3 DEF goal
<1>4. phase # "down" /\ phase' # "down"
  BY DEF AfterBoot, Running
<1>5. \A k \in roster : m.members[k] \in {"trading", "draining", "closing"}
  BY DEF CycleOK
<1>6. Held \subseteq roster /\ roster \subseteq roster'
  BY <1>1, <1>2, <1>4, <1>5 DEF CycleOK
<1>7. \A k \in Keys : mem'.members[k] # "none" => desired.members[k] # "absent"
  BY <1>2, <1>3 DEF CycleOK
<1>8. \A k \in roster' : mem'.members[k] \in {"trading", "draining", "closing"}
  BY <1>2, <1>3, <1>5
<1>9. roster' \subseteq Members(desired)
  BY <1>2, <1>7, <1>8 DEF Members
<1> QED
  BY <1>4, <1>6, <1>7, <1>8, <1>9 DEF CycleOK, Held, Members

\* Applying the desired state of this moment blocks what must not enter.
LEMMA ApplyBlocks ==
  ASSUME NEW m \in MemType, NEW old \in [Keys -> 0..2],
         TypeOK, CycleOK, phase \in AfterBoot, m.members = mem.members,
         ApplyMembers(m, old, desired)
  PROVE  \A k \in roster' : mem'.stops[k] = "none" => desired.members[k] = "active"
<1>1. roster \in SUBSET Keys /\ desired \in DesiredType
  BY TypeParts
<1>2. \A k \in Keys : desired.members[k] \in MemberGoals
  BY <1>1 DEF DesiredType
<1>3. /\ roster' \in SUBSET Keys
      /\ \A k \in Keys : /\ mem'.stops[k] = StopNext(k, desired.members[k], m)
                         /\ k \in roster' => k \in roster \/ MemberNext(k, desired.members[k], m) = "warmed"
  BY <1>1, ApplyMembersIs
<1>4. \A k \in roster : /\ m.members[k] \in {"trading", "draining", "closing"}
                        /\ desired.members[k] # "absent"
  BY <1>1 DEF CycleOK, AfterBoot, Running, Members
<1> SUFFICES ASSUME NEW k \in roster', mem'.stops[k] = "none" PROVE desired.members[k] = "active"
  OBVIOUS
<1>5. k \in Keys
  BY <1>3
<1>6. CASE k \in roster
  BY <1>2, <1>3, <1>4, <1>5, <1>6, StopNextIs
<1>7. CASE MemberNext(k, desired.members[k], m) = "warmed"
  <2>1. desired.members[k] # "absent"
    BY <1>2, <1>5, <1>7, MemberNextIs DEF CycleOK
  <2> QED
    BY <1>2, <1>5, <1>7, <2>1, MemberNextIs DEF MemberGoals
<1> QED
  BY <1>3, <1>5, <1>6, <1>7

\* The first application, at the start of the process.
LEMMA BootApplies ==
  ASSUME Base, BootFresh, CycleOK, Boot
  PROVE  /\ \A k \in Keys : mem'.members[k] # "none" => desired.members[k] # "absent"
         /\ \A k \in roster : mem'.members[k] \in {"trading", "draining", "closing"}
         /\ \A k \in roster : mem'.stops[k] = "none" => desired.members[k] = "active"
<1>1. TypeOK /\ mem \in MemType /\ desired \in DesiredType /\ phase = "boot"
  BY MemTyped DEF Base, Boot
<1> DEFINE w == WithDesired(mem, desired)
<1>2. w \in MemType /\ w.members = mem.members
  BY <1>1, WithDesiredType
<1>3. \A k \in Keys : /\ mem'.members[k] = MemberNext(k, desired.members[k], w)
                      /\ mem'.stops[k] = StopNext(k, desired.members[k], w)
  BY <1>1, BootIs
<1> HIDE DEF w
<1>4. \A k \in Keys : w.members[k] = "none" /\ desired.members[k] \in MemberGoals
  BY <1>1, <1>2 DEF BootFresh, DesiredType
<1>5. \A k \in roster : k \in Keys /\ desired.members[k] # "absent"
  BY <1>1 DEF CycleOK, Members
<1>6. \A k \in roster : MemberNext(k, desired.members[k], w) \in {"trading", "draining", "closing"}
  BY <1>2, <1>4, <1>5, MemberNextIs DEF MemberGoals
<1>7. \A k \in Keys : desired.members[k] = "absent" => MemberNext(k, desired.members[k], w) = "none"
  BY <1>2, <1>4, MemberNextIs
<1>8. \A k \in roster : StopNext(k, desired.members[k], w) = "none" => desired.members[k] = "active"
  BY <1>2, <1>4, <1>5, StopNextIs
<1> QED
  BY <1>3, <1>5, <1>6, <1>7, <1>8

LEMMA CycleNext ==
  ASSUME ~OrphanLaunch, "start read" \notin Faults
  PROVE  Base /\ BootFresh /\ ReadOK /\ CycleOK /\ [Next]_vars => CycleOK'
<1> SUFFICES ASSUME Base, BootFresh, ReadOK, CycleOK, [Next]_vars PROVE CycleOK'
  OBVIOUS
<1>a. /\ mem \in MemType /\ desired \in DesiredType /\ phase \in Phases
      /\ roster \in SUBSET Keys /\ trade \in [Keys -> Holders] /\ orders \in [Keys -> 0..2]
  BY TypeParts DEF Base
<1>b. TypeOK /\ ReadHeld
  BY DEF Base
<1> USE <1>a, <1>b DEF Phases, Running, AfterBoot
<1>1. ASSUME NEW S \in SUBSET Keys \ {{}}, RecordLaunch(S) PROVE CycleOK'
  <2>1. Members(desired)' = S
    BY <1>1 DEF RecordLaunch, Members
  <2>2. Held' = Held /\ Held \subseteq S
    BY <1>1 DEF RecordLaunch, Held, tradeVars
  <2>3. \A k \in Keys : mem'.members[k] = "none"
    BY <1>1 DEF RecordLaunch, BootFresh
  <2> QED
    BY <1>1, <2>1, <2>2, <2>3 DEF RecordLaunch, CycleOK, fileVars
<1>2. ASSUME NEW mode \in StopModes, RecordStop(mode) PROVE CycleOK'
  <2>1. desired'.members = desired.members
    BY <1>2 DEF RecordStop, DesiredType
  <2> QED
    BY <1>2, <2>1 DEF RecordStop, CycleOK, Held, Members, vars, coreVars, fileVars, tradeVars
<1>3. ASSUME NEW k \in Keys, AddMember(k) PROVE CycleOK'
  <2>1. \A j \in Keys : desired.members[j] # "absent" => desired'.members[j] # "absent"
    BY <1>3 DEF AddMember, DesiredType, StopModes
  <2> QED
    BY <1>3, <2>1 DEF AddMember, CycleOK, Held, Members, vars, coreVars, fileVars, tradeVars
<1>4. ASSUME NEW k \in Keys, NEW mode \in StopModes, RemoveMember(k, mode) PROVE CycleOK'
  <2>1. \A j \in Keys : desired.members[j] # "absent" => desired'.members[j] # "absent"
    BY <1>4 DEF RemoveMember, DesiredType, StopModes
  <2> QED
    BY <1>4, <2>1 DEF RemoveMember, CycleOK, Held, Members, vars, coreVars, fileVars, tradeVars
<1>5. CASE StartProcess
  BY <1>5 DEF StartProcess, Fresh, CycleOK, Held, Members, vars, coreVars, fileVars, tradeVars
<1>6. CASE CoreStart
  <2>1. CASE Autostarts
    <3>1. Held \subseteq AutostartMembers /\ AutostartMembers \subseteq Members(desired)
      BY DEF AutostartMembers, Members, CycleOK
    <3> QED
      BY <1>6, <2>1, <3>1 DEF CoreStart, CycleOK, Held, Members, vars, coreVars, fileVars, tradeVars
  <2>2. CASE ~Autostarts
    BY <1>6, <2>2 DEF CoreStart, CycleOK, Held, Members, vars, coreVars, fileVars, tradeVars
  <2> QED
    BY <2>1, <2>2
<1>7. CASE CoreStop
  BY <1>7, CoreStopIs DEF CoreStop, CycleOK, Held, Members, vars, coreVars, fileVars, tradeVars
<1>8. CASE CoreStopped
  BY <1>8 DEF CoreStopped, CycleOK, Held, Members, vars, coreVars, fileVars, tradeVars
<1>9. CASE CoreCrash
  BY <1>9 DEF CoreCrash, CycleOK, Held, Members, vars, coreVars, fileVars, tradeVars
<1>10. CASE BeatAges
  BY <1>10 DEF BeatAges, CycleOK, Held, Members, vars, coreVars, fileVars, tradeVars
<1>11. CASE Boot
  <2>1. phase = "boot" /\ phase' = "idle" /\ status'.members = {k \in Keys : mem'.members[k] # "none"}
    BY <1>11 DEF Boot, Snapshot
  <2>2. roster' = roster /\ trade' = trade /\ desired' = desired
    BY <1>11 DEF Boot, coreVars
  <2>3. Held \subseteq roster /\ roster \subseteq Members(desired)
    BY <2>1 DEF CycleOK
  <2> QED
    BY <1>11, <2>1, <2>2, <2>3, BootApplies DEF CycleOK, Held, Members
<1>12. CASE BootUnread
  BY <1>12 DEF BootUnread
<1>13. CASE ApplyGeneration
  BY <1>13, BoundaryIs DEF ApplyGeneration, TickBegins, CycleOK, Held, Members, vars, coreVars, fileVars, tradeVars
<1>14. CASE SaveGeneration
  <2>1. phase = "save" /\ ApplyMembers(mem, orders, read) /\ phase' = "exec"
    BY <1>14 DEF SaveGeneration
  <2>2. read \in DesiredType /\ \A k \in Keys : read.members[k] # "absent" => desired.members[k] # "absent"
    BY <2>1 DEF ReadHeld, ReadOK
  <2>3. UNCHANGED <<desired, status, trade>>
    BY <1>14 DEF SaveGeneration, coreVars
  <2> QED
    BY <2>1, <2>2, <2>3, ApplyKeepsCycle
<1>15. CASE RepeatStop
  <2>1. /\ phase = "idle" /\ phase' = "exec"
        /\ ApplyMembers(Linked(mem), StopContour(orders, mem.mode), desired)
    BY <1>15 DEF RepeatStop, TickBegins
  <2>2. /\ Linked(mem) \in MemType /\ Linked(mem).members = mem.members
        /\ StopContour(orders, mem.mode) \in [Keys -> 0..2]
    BY LinkedType, StopContourIs
  <2>3. UNCHANGED <<desired, status, trade>>
    BY <1>15 DEF RepeatStop, coreVars, fileVars
  <2> QED
    BY <2>1, <2>2, <2>3, ApplyKeepsCycle
<1>16. CASE TickUnread
  BY <1>16, BoundaryIs DEF TickUnread, TickBegins, CycleOK, Held, Members, vars, coreVars, fileVars, tradeVars
<1>17. ASSUME NEW k \in Keys, EntryFills(k) PROVE CycleOK'
  BY <1>17 DEF EntryFills, Executes, Becomes, CycleOK, Held, Members, vars, coreVars, fileVars, tradeVars
<1>18. ASSUME NEW k \in Keys, EntryEnds(k) PROVE CycleOK'
  BY <1>18 DEF EntryEnds, Executes, Becomes, CycleOK, Held, Members, vars, coreVars, fileVars, tradeVars
<1>19. ASSUME NEW k \in Keys, CloseFills(k) PROVE CycleOK'
  BY <1>19 DEF CloseFills, Executes, Becomes, CycleOK, Held, Members, vars, coreVars, fileVars, tradeVars
<1>20. ASSUME NEW k \in Keys, CloseRefused(k) PROVE CycleOK'
  BY <1>20 DEF CloseRefused, Executes, Becomes, CycleOK, Held, Members, vars, coreVars, fileVars, tradeVars
<1>21. ASSUME NEW k \in Keys, PositionExits(k) PROVE CycleOK'
  BY <1>21 DEF PositionExits, Executes, Becomes, CycleOK, Held, Members, vars, coreVars, fileVars, tradeVars
<1>22. CASE AfterTick
  <2>1. /\ phase = "exec" /\ phase' = "analysis" /\ roster' = roster \ Drained
        /\ status'.members = {k \in Keys : mem'.members[k] # "none"}
        /\ desired' = desired /\ trade' = trade
    BY <1>22 DEF AfterTick, Snapshot, coreVars, tradeVars
  <2>2. mem'.members = Retired(mem).members
    BY <1>22, AfterTickIs
  <2>3. /\ \A k \in Keys \ Drained : mem'.members[k] = mem.members[k]
        /\ \A k \in Keys : mem'.members[k] \in {"none", mem.members[k]}
    BY <2>2, RetiredType
  <2>4. Held \cap Drained = {}
    BY DEF Held, Drained
  <2>5. \A k \in roster' : mem'.members[k] \in {"trading", "draining", "closing"}
    BY <2>1, <2>3 DEF CycleOK
  <2>6. Held \subseteq roster' /\ roster' \subseteq Members(desired) /\ roster' \subseteq Keys
    BY <2>1, <2>4 DEF CycleOK
  <2>7. roster' \subseteq status'.members
    BY <2>1, <2>5, <2>6
  <2>8. \A k \in Keys : mem'.members[k] # "none" => desired.members[k] # "absent"
    BY <2>3 DEF CycleOK
  <2> QED
    BY <2>1, <2>5, <2>6, <2>7, <2>8 DEF CycleOK, Held, Members
<1>23. ASSUME NEW k \in Keys, Admit(k) PROVE CycleOK'
  BY <1>23 DEF Admit, CycleOK, Held, Members, vars, coreVars, fileVars, tradeVars
<1>24. CASE TickEnds
  BY <1>24 DEF TickEnds, CycleOK, Held, Members, vars, coreVars, fileVars, tradeVars
<1>25. CASE Exit
  BY <1>25 DEF Exit, Fresh, CycleOK, Held, Members, vars, coreVars, fileVars, tradeVars
<1>26. CASE Crash
  BY <1>26 DEF Crash, Fresh, CycleOK, Held, Members, vars, coreVars, fileVars, tradeVars
<1>27. CASE PulseCheck
  BY <1>27, PulseIs DEF PulseCheck, CycleOK, Held, Members, vars, coreVars, fileVars, tradeVars
<1>28. CASE UNCHANGED vars
  BY <1>28 DEF CycleOK, Held, Members, vars, coreVars, fileVars, tradeVars
<1> QED
  BY <1>1, <1>2, <1>3, <1>4, <1>5, <1>6, <1>7, <1>8, <1>9, <1>10, <1>11, <1>12, <1>13, <1>14, <1>15, <1>16, <1>17, <1>18, <1>19, <1>20, <1>21, <1>22, <1>23, <1>24, <1>25, <1>26, <1>27, <1>28
     DEF Next, Commands, CoreSteps, ContourSteps, BeforeTick, Execution

\* A command makes the memory old.
LEMMA CommandAhead ==
  ASSUME Base, desired'.generation = desired.generation + 1, mem' = mem
  PROVE  mem'.generation # desired'.generation
<1>1. mem.generation \in Nat /\ desired.generation \in Nat
  BY MemTyped, MaxGenerationAssumption DEF Base
<1> QED
  BY <1>1 DEF Base, GenerationsOK

LEMMA BlocksNext ==
  ASSUME "start read" \notin Faults
  PROVE  Base /\ CycleInv /\ [Next]_vars => BlocksOK'
<1> SUFFICES ASSUME Base, BootFresh, ReadOK, CycleOK, BlocksOK, [Next]_vars PROVE BlocksOK'
  BY DEF CycleInv
<1>a. /\ mem \in MemType /\ desired \in DesiredType /\ phase \in Phases
      /\ roster \in SUBSET Keys /\ orders \in [Keys -> 0..2]
  BY TypeParts DEF Base
<1>b. TypeOK /\ ReadHeld
  BY DEF Base
<1> USE <1>a, <1>b DEF Phases, Running, AfterBoot
<1>1. ASSUME NEW S \in SUBSET Keys \ {{}}, RecordLaunch(S) PROVE BlocksOK'
  BY <1>1 DEF RecordLaunch, BlocksOK
<1>2. ASSUME NEW mode \in StopModes, RecordStop(mode) PROVE BlocksOK'
  <2>1. desired'.generation = desired.generation + 1 /\ mem' = mem
    BY <1>2 DEF RecordStop, DesiredType
  <2> QED
    BY <2>1, CommandAhead DEF BlocksOK
<1>3. ASSUME NEW k \in Keys, AddMember(k) PROVE BlocksOK'
  <2>1. desired'.generation = desired.generation + 1 /\ mem' = mem
    BY <1>3 DEF AddMember, DesiredType
  <2> QED
    BY <2>1, CommandAhead DEF BlocksOK
<1>4. ASSUME NEW k \in Keys, NEW mode \in StopModes, RemoveMember(k, mode) PROVE BlocksOK'
  <2>1. desired'.generation = desired.generation + 1 /\ mem' = mem
    BY <1>4 DEF RemoveMember, DesiredType
  <2> QED
    BY <2>1, CommandAhead DEF BlocksOK
<1>5. CASE StartProcess
  BY <1>5 DEF StartProcess, BlocksOK, vars, coreVars, fileVars, tradeVars
<1>6. CASE CoreStart
  BY <1>6 DEF CoreStart, Autostarts, BlocksOK, vars, coreVars, fileVars, tradeVars
<1>7. CASE CoreStop
  BY <1>7, CoreStopIs DEF CoreStop, BlocksOK, vars, coreVars, fileVars, tradeVars
<1>8. CASE CoreStopped
  BY <1>8 DEF CoreStopped, BlocksOK, vars, coreVars, fileVars, tradeVars
<1>9. CASE CoreCrash
  BY <1>9 DEF CoreCrash, BlocksOK, vars, coreVars, fileVars, tradeVars
<1>10. CASE BeatAges
  BY <1>10 DEF BeatAges, BlocksOK, vars, coreVars, fileVars, tradeVars
<1>11. CASE Boot
  BY <1>11, BootIs, BootApplies DEF Boot, BlocksOK, coreVars
<1>12. CASE BootUnread
  BY <1>12 DEF BootUnread
<1>13. CASE ApplyGeneration
  BY <1>13 DEF ApplyGeneration, BlocksOK, vars, coreVars, fileVars, tradeVars
<1>14. CASE SaveGeneration
  <2>1. phase = "save" /\ ApplyMembers(mem, orders, read) /\ desired' = desired
    BY <1>14 DEF SaveGeneration, coreVars
  <2>2. mem'.generation = mem.generation /\ mem'.mode = mem.mode
    BY <1>14, BoundaryIs
  <2>3. CASE mem.generation = desired.generation
    <3>1. read = desired /\ mem.mode = desired.mode
      BY <2>1, <2>3 DEF ReadOK
    <3>2. \A k \in roster' : mem'.stops[k] = "none" => desired.members[k] = "active"
      BY <2>1, <3>1, ApplyBlocks
    <3> QED
      BY <2>1, <2>2, <3>1, <3>2 DEF BlocksOK
  <2> QED
    BY <2>1, <2>2, <2>3 DEF BlocksOK
<1>15. CASE RepeatStop
  <2>1. /\ phase = "idle" /\ desired' = desired /\ mem.generation = desired.generation
        /\ ApplyMembers(Linked(mem), StopContour(orders, mem.mode), desired)
    BY <1>15 DEF RepeatStop, TickBegins, coreVars
  <2>2. /\ Linked(mem) \in MemType /\ Linked(mem).members = mem.members
        /\ StopContour(orders, mem.mode) \in [Keys -> 0..2]
    BY LinkedType, StopContourIs
  <2>3. mem'.generation = mem.generation /\ mem'.mode = mem.mode
    BY <1>15, BoundaryIs
  <2>4. \A k \in roster' : mem'.stops[k] = "none" => desired.members[k] = "active"
    BY <2>1, <2>2, ApplyBlocks
  <2> QED
    BY <2>1, <2>3, <2>4 DEF BlocksOK
<1>16. CASE TickUnread
  BY <1>16, BoundaryIs DEF TickUnread, TickBegins, BlocksOK, vars, coreVars, fileVars, tradeVars
<1>17. ASSUME NEW k \in Keys, EntryFills(k) PROVE BlocksOK'
  BY <1>17 DEF EntryFills, Executes, Becomes, BlocksOK, vars, coreVars, fileVars, tradeVars
<1>18. ASSUME NEW k \in Keys, EntryEnds(k) PROVE BlocksOK'
  BY <1>18 DEF EntryEnds, Executes, Becomes, BlocksOK, vars, coreVars, fileVars, tradeVars
<1>19. ASSUME NEW k \in Keys, CloseFills(k) PROVE BlocksOK'
  BY <1>19 DEF CloseFills, Executes, Becomes, BlocksOK, vars, coreVars, fileVars, tradeVars
<1>20. ASSUME NEW k \in Keys, CloseRefused(k) PROVE BlocksOK'
  BY <1>20 DEF CloseRefused, Executes, Becomes, BlocksOK, vars, coreVars, fileVars, tradeVars
<1>21. ASSUME NEW k \in Keys, PositionExits(k) PROVE BlocksOK'
  BY <1>21 DEF PositionExits, Executes, Becomes, BlocksOK, vars, coreVars, fileVars, tradeVars
<1>22. CASE AfterTick
  <2>1. phase = "exec" /\ roster' = roster \ Drained /\ desired' = desired
    BY <1>22 DEF AfterTick, coreVars
  <2>2. /\ mem'.stops = Retired(mem).stops
        /\ mem'.generation = mem.generation /\ mem'.mode = mem.mode
    BY <1>22, AfterTickIs
  <2>3. \A k \in Keys \ Drained : mem'.stops[k] = mem.stops[k]
    BY <2>2, RetiredType
  <2> QED
    BY <2>1, <2>2, <2>3 DEF BlocksOK
<1>23. ASSUME NEW k \in Keys, Admit(k) PROVE BlocksOK'
  BY <1>23 DEF Admit, BlocksOK, vars, coreVars, fileVars, tradeVars
<1>24. CASE TickEnds
  BY <1>24 DEF TickEnds, BlocksOK, vars, coreVars, fileVars, tradeVars
<1>25. CASE Exit
  BY <1>25 DEF Exit, BlocksOK
<1>26. CASE Crash
  BY <1>26 DEF Crash, BlocksOK
<1>27. CASE PulseCheck
  BY <1>27, PulseIs DEF PulseCheck, BlocksOK, vars, coreVars, fileVars, tradeVars
<1>28. CASE UNCHANGED vars
  BY <1>28 DEF BlocksOK, vars, coreVars, fileVars, tradeVars
<1> QED
  BY <1>1, <1>2, <1>3, <1>4, <1>5, <1>6, <1>7, <1>8, <1>9, <1>10, <1>11, <1>12, <1>13, <1>14, <1>15, <1>16, <1>17, <1>18, <1>19, <1>20, <1>21, <1>22, <1>23, <1>24, <1>25, <1>26, <1>27, <1>28
     DEF Next, Commands, CoreSteps, ContourSteps, BeforeTick, Execution

LEMMA CycleInvariant ==
  ASSUME ~OrphanLaunch, "start read" \notin Faults
  PROVE  Spec => [](Base /\ CycleInv)
<1>1. Init => CycleInv
  <2> SUFFICES ASSUME Init PROVE CycleInv
    OBVIOUS
  <2>1. Held = {} /\ roster = {} /\ phase = "down"
    BY DEF Init, Held
  <2>2. \A k \in Keys : mem.members[k] = "none" /\ mem.stops[k] = "none"
    BY DEF Init, Fresh
  <2> QED
    BY <2>1, <2>2 DEF CycleInv, BootFresh, ReadOK, CycleOK, BlocksOK, AfterBoot, Running
<1>2. Base /\ CycleInv /\ [Next]_vars => CycleInv'
  BY BootFreshNext, ReadOKNext, CycleNext, BlocksNext DEF CycleInv
<1>3. Spec => []Base
  BY StopInvariant, PTL DEF Base
<1> QED
  BY <1>1, <1>2, <1>3, PTL DEF Spec

\* While the contour's process ticks, each instrument with a live trade is in
\* its cycle: bars reach it, so stops, targets and closings can execute.  It
\* rests on two things the code does not enforce: a launch that keeps the
\* instruments with a trade, and a start that can read core.sqlite3.
THEOREM HeldCorrect ==
  ASSUME ~OrphanLaunch, "start read" \notin Faults
  PROVE  Spec => []HeldInCycle
<1>1. CycleInv => HeldInCycle
  BY DEF CycleInv, CycleOK, HeldInCycle, Running
<1> QED
  BY <1>1, CycleInvariant, PTL

\* A process that knows the desired generation admits an entry only for an
\* active member of a running contour.
THEOREM EntryCorrect ==
  ASSUME ~OrphanLaunch, "start read" \notin Faults
  PROVE  Spec => EntryNeedsGoal
<1> DEFINE A == \A k \in Keys :
       trade[k] = "none" /\ trade'[k] = "pending" /\ mem.generation = desired.generation
       => desired.mode = "on" /\ desired.members[k] = "active"
<1>1. Base /\ CycleInv /\ [Next]_vars => [A]_vars
  <2> SUFFICES ASSUME Base, CycleInv, Next, NEW k \in Keys,
                      trade[k] = "none", trade'[k] = "pending", mem.generation = desired.generation
               PROVE  desired.mode = "on" /\ desired.members[k] = "active"
    OBVIOUS
  <2>1. trade \in [Keys -> Holders]
    BY TypeParts DEF Base
  <2>2. Admit(k)
    <3>1. trade' # trade
      OBVIOUS
    <3>2. ~Commands /\ ~CoreSteps
      BY <3>1 DEF Commands, CoreSteps, RecordLaunch, RecordStop, AddMember, RemoveMember, StartProcess,
         CoreStart, CoreStop, CoreStopped, CoreCrash, BeatAges, tradeVars
    <3>3. ~BeforeTick /\ ~Boot /\ ~BootUnread /\ ~AfterTick /\ ~TickEnds /\ ~Exit /\ ~Crash /\ ~PulseCheck
      BY <3>1 DEF BeforeTick, ApplyGeneration, SaveGeneration, RepeatStop, TickUnread, Boot, BootUnread,
         AfterTick, TickEnds, Exit, Crash, PulseCheck, tradeVars
    <3>4. ~Execution
      BY <2>1 DEF Execution, EntryFills, EntryEnds, CloseFills, CloseRefused, PositionExits, Executes, Becomes
    <3>5. PICK j \in Keys : Admit(j)
      BY <3>2, <3>3, <3>4 DEF Next, ContourSteps
    <3>6. j = k
      BY <2>1, <3>5 DEF Admit
    <3> QED
      BY <3>5, <3>6
  <2>3. phase = "analysis" /\ k \in roster /\ mem.mode = "on" /\ mem.stops[k] = "none"
    BY <2>2 DEF Admit, Allowed
  <2> QED
    BY <2>3 DEF CycleInv, BlocksOK
<1> QED
  BY <1>1, CycleInvariant, PTL DEF Spec, EntryNeedsGoal

-----------------------------------------------------------------------------
(* Orders of a stop.                                                       *)

\* However often a stop is repeated, by boundaries, by restarts or by the two
\* records of one instrument (the contour's mode and its own removal), a trade
\* has at most one open CANCEL or CLOSE of it.
THEOREM OneOrderCorrect == Spec => []OneStopOrder
<1>1. Init => OneStopOrder
  BY DEF Init, OneStopOrder
<1>2. Base /\ OneStopOrder /\ [Next]_vars => OneStopOrder'
  <2> SUFFICES ASSUME Base, OneStopOrder, [Next]_vars PROVE OneStopOrder'
    OBVIOUS
  <2>1. /\ mem \in MemType /\ desired \in DesiredType /\ orders \in [Keys -> 0..2]
        /\ roster \in SUBSET Keys /\ TypeOK
    BY TypeParts DEF Base
  <2>2. CASE UNCHANGED orders
    BY <2>2 DEF OneStopOrder
  <2>3. CASE Boot
    <3> DEFINE w == WithDesired(mem, desired)
               first == StopContour(orders, desired.mode)
    <3>1. orders' = StopMembers(first, w, desired)
      BY <2>3 DEF Boot
    <3>2. first \in [Keys -> 0..2] /\ \A k \in Keys : first[k] <= 1
      BY <2>1, StopContourIs DEF OneStopOrder
    <3> HIDE DEF w, first
    <3> QED
      BY <3>1, <3>2, StopMembersIs DEF OneStopOrder
  <2>4. CASE ApplyGeneration \/ TickUnread
    BY <2>1, <2>4, StopContourIs DEF ApplyGeneration, TickUnread, OneStopOrder
  <2>5. CASE SaveGeneration
    <3>1. read \in DesiredType /\ ApplyMembers(mem, orders, read)
      BY <2>5 DEF SaveGeneration, Base, ReadHeld
    <3> QED
      BY <2>1, <3>1, ApplyMembersIs DEF OneStopOrder
  <2>6. CASE RepeatStop
    <3>1. /\ StopContour(orders, mem.mode) \in [Keys -> 0..2]
          /\ \A k \in Keys : StopContour(orders, mem.mode)[k] <= 1
      BY <2>1, StopContourIs DEF OneStopOrder
    <3>2. Linked(mem) \in MemType /\ ApplyMembers(Linked(mem), StopContour(orders, mem.mode), desired)
      BY <2>1, <2>6, LinkedType DEF RepeatStop
    <3> QED
      BY <2>1, <3>1, <3>2, ApplyMembersIs DEF OneStopOrder
  <2>7. CASE Execution
    BY <2>1, <2>7 DEF Execution, EntryFills, EntryEnds, CloseFills, CloseRefused, PositionExits,
       Becomes, OneStopOrder
  <2>8. CASE Commands \/ CoreSteps
    BY <2>2, <2>8 DEF Commands, CoreSteps, RecordLaunch, RecordStop, AddMember, RemoveMember, StartProcess,
       CoreStart, CoreStop, CoreStopped, CoreCrash, BeatAges, tradeVars
  <2>9. CASE BootUnread \/ AfterTick \/ TickEnds \/ Exit \/ Crash \/ PulseCheck \/ \E k \in Keys : Admit(k)
    BY <2>2, <2>9 DEF BootUnread, AfterTick, TickEnds, Exit, Crash, PulseCheck, Admit, tradeVars
  <2>10. CASE UNCHANGED vars
    BY <2>2, <2>10 DEF vars, tradeVars
  <2> QED
    BY <2>3, <2>4, <2>5, <2>6, <2>7, <2>8, <2>9, <2>10 DEF Next, ContourSteps, BeforeTick
<1>3. Spec => []Base
  BY StopInvariant, PTL DEF Base
<1> QED
  BY <1>1, <1>2, <1>3, PTL DEF Spec

=============================================================================
