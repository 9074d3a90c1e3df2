------------------------ MODULE StreamPlayer_proofs ------------------------
(***************************************************************************)
(* Proofs about StreamPlayer for any number of request threads and         *)
(* players.  The inductive invariant says what a thread inside KillAce     *)
(* knows: every running player was either started after the thread listed  *)
(* the processes or is still on its list.                                  *)
(***************************************************************************)
EXTENDS StreamPlayer, TLAPS

USE StreamAssumption DEF StreamAssumption

\* Past its list of processes, up to the start of its own player.
Listed(t) == pc[t] \in {"kill", "getfiles", "delete", "start"}

\* What the thread knows of every running player.
Knows ==
    /\ \A t \in Threads : Listed(t) =>
          \A p \in alive : p > saw[t] \/ p \in victims[t]
    /\ \A t \in Threads : pc[t] = "start" => victims[t] = {}
    /\ \A t \in Threads : saw[t] <= started

IInv == TypeOK /\ Knows /\ OverlapOnlyFromRace

-----------------------------------------------------------------------------
(* Type correctness *)

\* TypeOK falls into the flags and the rest, which need different provers.
Shape ==
    /\ started \in Numbers
    /\ alive \subseteq 1 .. started
    /\ stream \in [Files -> Numbers]
    /\ pc \in [Threads -> Pcs]
    /\ victims \in [Threads -> SUBSET Players]
    /\ current \in [Threads -> Numbers]
    /\ todo \in [Threads -> SUBSET Files]
    /\ held \in [Threads -> Files \cup {NoFile}]
    /\ saw \in [Threads -> Numbers]
    /\ sawBy \in [Players -> Numbers]
    /\ exited \subseteq Players
    /\ abandoned \subseteq Numbers

Flags == fresh \in BOOLEAN /\ plays \in [Threads -> BOOLEAN]

LEMMA NumbersFacts == None \in Numbers /\ Players \subseteq Numbers /\ 0 \in Numbers
  BY DEF Numbers, None, Players

LEMMA TypeParts == (TypeOK <=> Shape /\ Flags) /\ (TypeOK' <=> Shape' /\ Flags')
  BY DEF TypeOK, Shape, Flags

LEMMA WokenType ==
    ASSUME NEW p \in [Threads -> Pcs]
    PROVE  /\ Woken(p) \in [Threads -> Pcs]
           /\ \A t \in Threads :
                Woken(p)[t] = p[t] \/ (p[t] = "wait" /\ Woken(p)[t] = "check")
  BY DEF Woken, Pcs, StreamPcs, KillPcs

\* Every step of a thread that has work to do keeps the shape.
LEMMA WorkShape ==
    ASSUME Shape, NEW t \in Threads, Work(t)
    PROVE  Shape'
<1> USE NumbersFacts DEF Shape, Pcs, KillPcs, StreamPcs, killVars, history
<1>1. CASE ListProcesses(t)
  <2>1. alive \in SUBSET Players
    BY DEF Players, Numbers
  <2>2. victims' \in [Threads -> SUBSET Players]
    BY <1>1, <2>1 DEF ListProcesses
  <2>3. pc' \in [Threads -> Pcs] /\ saw' \in [Threads -> Numbers]
    BY <1>1 DEF ListProcesses, AfterKill
  <2>4. QED BY <1>1, <2>2, <2>3 DEF ListProcesses
<1>2. CASE KillProcess(t)
  <2>1. PICK p \in victims[t] :
          \/ /\ p \in alive
             /\ alive' = alive \ {p}
             /\ victims' = [victims EXCEPT ![t] = @ \ {p}]
             /\ current' = [current EXCEPT ![t] = p]
             /\ pc' = [pc EXCEPT ![t] = "getfiles"]
             /\ UNCHANGED todo
          \/ /\ p \notin alive
             /\ Thrown(t)
             /\ UNCHANGED alive
    BY <1>2 DEF KillProcess
  <2>2. p \in Numbers
    OBVIOUS
  <2>3. pc' \in [Threads -> Pcs] /\ todo' \in [Threads -> SUBSET Files]
    BY <2>1 DEF Thrown
  <2>4. victims' \in [Threads -> SUBSET Players]
    BY <2>1 DEF Thrown
  <2>5. current' \in [Threads -> Numbers]
    BY <2>1, <2>2 DEF Thrown
  <2>6. alive' \subseteq 1 .. started
    BY <2>1
  <2>7. QED BY <1>2, <2>3, <2>4, <2>5, <2>6 DEF KillProcess
<1>3. CASE GetFiles(t)
  <2> DEFINE found == {f \in Files : Exists(f)}
  <2>1. todo' \in [Threads -> SUBSET Files]
    BY <1>3 DEF GetFiles
  <2>2. pc' \in [Threads -> Pcs]
    BY <1>3 DEF GetFiles, SweepOver, AfterKill
  <2>3. current' \in [Threads -> Numbers]
    BY <1>3 DEF GetFiles, SweepOver
  <2>4. QED BY <1>3, <2>1, <2>2, <2>3 DEF GetFiles
<1>4. CASE DeleteFile(t)
  <2>1. PICK f \in todo[t] :
          \/ /\ Readers(f) = {}
             /\ stream' = [stream EXCEPT ![f] = None]
             /\ todo' = [todo EXCEPT ![t] = @ \ {f}]
             /\ LET swept == todo[t] = {f}
                    after == IF ~swept THEN "delete"
                             ELSE IF victims[t] = {} THEN AfterKill(t) ELSE "kill"
                    moved == [pc EXCEPT ![t] = after]
                IN  /\ current' = IF swept THEN [current EXCEPT ![t] = None]
                                  ELSE current
                    /\ pc' = IF f = Playlist /\ Exists(f) THEN Woken(moved)
                             ELSE moved
             /\ UNCHANGED <<victims, abandoned>>
          \/ /\ abandoned' = abandoned \cup {current[t]}
             /\ Thrown(t)
             /\ UNCHANGED stream
    BY <1>4 DEF DeleteFile
  <2> DEFINE moved == [pc EXCEPT ![t] = IF todo[t] # {f} THEN "delete"
                          ELSE IF victims[t] = {} THEN AfterKill(t) ELSE "kill"]
  <2>2. moved \in [Threads -> Pcs]
    BY DEF AfterKill
  <2> HIDE DEF moved
  <2>3. Woken(moved) \in [Threads -> Pcs]
    BY <2>2, WokenType
  <2>4. pc' \in [Threads -> Pcs]
    BY <2>1, <2>2, <2>3 DEF Thrown, moved
  <2>5. stream' \in [Files -> Numbers] /\ todo' \in [Threads -> SUBSET Files]
    BY <2>1 DEF Thrown
  <2>6. current' \in [Threads -> Numbers]
    BY <2>1 DEF Thrown
  <2>7. victims' \in [Threads -> SUBSET Players] /\ abandoned' \subseteq Numbers
    BY <2>1 DEF Thrown
  <2>8. QED BY <1>4, <2>4, <2>5, <2>6, <2>7 DEF DeleteFile
<1>5. CASE StartProcess(t)
  <2>1. CASE UNCHANGED <<started, alive, sawBy>>
    BY <1>5, <2>1 DEF StartProcess
  <2>2. CASE /\ started < MaxStarts
             /\ started' = started + 1
             /\ alive' = alive \cup {started + 1}
             /\ sawBy' = [sawBy EXCEPT ![started + 1] = saw[t]]
    <3>1. started' \in Numbers /\ alive' \subseteq 1 .. started'
      BY <2>2 DEF Numbers
    <3>2. sawBy' \in [Players -> Numbers]
      BY <2>2
    <3>3. QED BY <1>5, <3>1, <3>2 DEF StartProcess
  <2>3. QED BY <1>5, <2>1, <2>2 DEF StartProcess
<1>6. CASE WaitForChanged(t) \/ TimedOut(t) \/ CheckPlaylist(t)
  BY <1>6 DEF WaitForChanged, TimedOut, CheckPlaylist
<1>7. CASE OpenPlaylist(t)
  BY <1>7 DEF OpenPlaylist, OpenFile, Files
<1>8. CASE ReplySent(t)
  BY <1>8 DEF ReplySent
<1>9. QED BY <1>1, <1>2, <1>3, <1>4, <1>5, <1>6, <1>7, <1>8 DEF Work

LEMMA RequestShape ==
    ASSUME Shape, NEW t \in Clients, Request(t)
    PROVE  Shape'
  BY DEF Shape, Request, PlayChannel, AppleChannels, GetChannel, Browse, GetStream,
         GetStreamTs, OpenFile, Enter, Threads, Pcs, KillPcs, StreamPcs, Files,
         killVars, history

LEMMA PlayerShape ==
    ASSUME Shape, NEW p \in Players, PlayerStep(p)
    PROVE  Shape'
<1> USE NumbersFacts DEF Shape, killVars, history
<1>1. ASSUME NEW f \in Files, PlayerWrites(p, f)
      PROVE  Shape'
  <2>1. pc \in [Threads -> Pcs]
    OBVIOUS
  <2>2. Woken(pc) \in [Threads -> Pcs]
    BY <2>1, WokenType
  <2>3. pc' \in [Threads -> Pcs]
    BY <1>1, <2>1, <2>2 DEF PlayerWrites
  <2>4. stream' \in [Files -> Numbers]
    BY <1>1 DEF PlayerWrites
  <2>5. QED BY <1>1, <2>3, <2>4 DEF PlayerWrites
<1>2. CASE PlayerDropsSegment(p)
  BY <1>2 DEF PlayerDropsSegment, Files
<1>3. CASE PlayerExits(p)
  BY <1>3 DEF PlayerExits
<1>4. QED BY <1>1, <1>2, <1>3 DEF PlayerStep

LEMMA NextShape == Shape /\ [Next]_vars => Shape'
<1> SUFFICES ASSUME Shape, [Next]_vars
             PROVE  Shape'
  OBVIOUS
<1>1. CASE \E t \in Clients : Request(t)
  BY <1>1, RequestShape
<1>2. CASE \E t \in Threads : Work(t)
  BY <1>2, WorkShape
<1>3. CASE TimerElapsed \/ FiveHoursPass
  BY <1>3 DEF TimerElapsed, FiveHoursPass, Enter, Shape, Threads, Pcs, KillPcs,
              killVars, history
<1>4. CASE \E p \in Players : PlayerStep(p)
  BY <1>4, PlayerShape
<1>5. CASE UNCHANGED vars
  BY <1>5 DEF vars, Shape
<1>6. QED BY <1>1, <1>2, <1>3, <1>4, <1>5 DEF Next

LEMMA NextFlags == Flags /\ [Next]_vars => Flags'
<1> SUFFICES ASSUME Flags, [Next]_vars
             PROVE  Flags'
  OBVIOUS
<1> USE DEF Flags
<1>1. CASE \E t \in Clients : Request(t)
  BY <1>1 DEF Request, PlayChannel, AppleChannels, GetChannel, Browse, GetStream,
              GetStreamTs, Enter, Threads
<1>2. CASE \E t \in Threads : Work(t)
  BY <1>2 DEF Work, ListProcesses, KillProcess, GetFiles, DeleteFile, StartProcess,
              WaitForChanged, TimedOut, CheckPlaylist, OpenPlaylist, ReplySent
<1>3. CASE TimerElapsed \/ FiveHoursPass
  BY <1>3 DEF TimerElapsed, FiveHoursPass, Enter
<1>4. CASE \E p \in Players : PlayerStep(p)
  BY <1>4 DEF PlayerStep, PlayerWrites, PlayerDropsSegment, PlayerExits
<1>5. CASE UNCHANGED vars
  BY <1>5 DEF vars
<1>6. QED BY <1>1, <1>2, <1>3, <1>4, <1>5 DEF Next

LEMMA NextTypeOK == TypeOK /\ [Next]_vars => TypeOK'
  BY TypeParts, NextShape, NextFlags

LEMMA InitTypeOK == Init => TypeOK
<1> SUFFICES ASSUME Init PROVE TypeOK
  OBVIOUS
<1> USE NumbersFacts DEF Init, Pcs, Files
<1>1. started \in Numbers /\ alive \subseteq 1 .. started
  OBVIOUS
<1>2. stream \in [Files -> Numbers] /\ sawBy \in [Players -> Numbers]
  OBVIOUS
<1>3. pc \in [Threads -> Pcs] /\ fresh \in BOOLEAN /\ plays \in [Threads -> BOOLEAN]
  OBVIOUS
<1>4. victims \in [Threads -> SUBSET Players] /\ todo \in [Threads -> SUBSET Files]
  OBVIOUS
<1>5. current \in [Threads -> Numbers] /\ saw \in [Threads -> Numbers]
  OBVIOUS
<1>6. held \in [Threads -> Files \cup {NoFile}]
  OBVIOUS
<1>7. exited \subseteq Players /\ abandoned \subseteq Numbers
  OBVIOUS
<1>8. QED BY <1>1, <1>2, <1>3, <1>4, <1>5, <1>6, <1>7 DEF TypeOK

\* Every variable keeps its type, whatever the threads and the players do.
THEOREM TypeCorrect == Spec => []TypeOK
  BY InitTypeOK, NextTypeOK, PTL DEF Spec

-----------------------------------------------------------------------------
(* What a thread inside KillAce knows *)

\* A step that changes no list and lets no thread into the listed part.
LEMMA KnowsStable ==
    ASSUME Knows, alive' \subseteq alive, started' = started, saw' = saw, victims' = victims,
           \A u \in Threads : Listed(u)' => Listed(u),
           \A u \in Threads : pc'[u] = "start" => pc[u] = "start"
    PROVE  Knows'
  BY DEF Knows

\* Waking the requests that wait for a change moves no thread of KillAce.
LEMMA WokenListed ==
    ASSUME NEW p, NEW u \in Threads
    PROVE  /\ Woken(p)[u] = "start" <=> p[u] = "start"
           /\ Woken(p)[u] \in {"kill", "getfiles", "delete", "start"}
                <=> p[u] \in {"kill", "getfiles", "delete", "start"}
  BY DEF Woken

LEMMA KillKnows ==
    ASSUME TypeOK, Knows, NEW t \in Threads,
           ListProcesses(t) \/ KillProcess(t) \/ GetFiles(t) \/ DeleteFile(t)
    PROVE  Knows'
<1>t. /\ pc \in [Threads -> Pcs] /\ victims \in [Threads -> SUBSET Players]
      /\ saw \in [Threads -> Numbers] /\ started \in Numbers /\ alive \subseteq 1 .. started
  BY DEF TypeOK
<1>1. CASE ListProcesses(t)
  <2>1. started <= started
    BY <1>t DEF Numbers
  <2>2. QED BY <1>1, <1>t, <2>1 DEF ListProcesses, Knows, Listed, AfterKill
<1>2. CASE KillProcess(t)
  BY <1>2, <1>t DEF KillProcess, Thrown, Knows, Listed, history
<1>3. CASE GetFiles(t)
  BY <1>3, <1>t DEF GetFiles, SweepOver, AfterKill, Knows, Listed, history
<1>4. CASE DeleteFile(t)
  <2>1. CASE UNCHANGED victims
    <3>1. PICK f \in todo[t] :
            LET swept == todo[t] = {f}
                after == IF ~swept THEN "delete"
                         ELSE IF victims[t] = {} THEN AfterKill(t) ELSE "kill"
                moved == [pc EXCEPT ![t] = after]
            IN  \/ pc' = Woken(moved)
                \/ pc' = moved
                \/ pc' = [pc EXCEPT ![t] = "idle"]
      BY <1>4 DEF DeleteFile, Thrown
    <3> DEFINE after == IF ~(todo[t] = {f}) THEN "delete"
                        ELSE IF victims[t] = {} THEN AfterKill(t) ELSE "kill"
               moved == [pc EXCEPT ![t] = after]
    <3>2. after = "start" => victims[t] = {}
      BY DEF AfterKill
    <3>3. pc[t] = "delete" /\ Listed(t)
      BY <1>4 DEF DeleteFile, Listed
    <3>4. \A u \in Threads :
             /\ moved[u] \in {"kill", "getfiles", "delete", "start"} => Listed(u)
             /\ moved[u] = "start" => victims[u] = {}
      BY <1>t, <3>2, <3>3 DEF Knows, Listed
    <3> HIDE DEF moved, after
    <3>5. pc' = Woken(moved) \/ pc' = moved \/ pc' = [pc EXCEPT ![t] = "idle"]
      BY <3>1 DEF moved, after
    <3>6. \A u \in Threads : /\ Listed(u)' => Listed(u)
                             /\ pc'[u] = "start" => victims[u] = {}
      BY <1>t, <3>4, <3>5, WokenListed DEF Listed, Knows
    <3>7. QED BY <1>4, <2>1, <3>6 DEF Knows, DeleteFile
  <2>2. CASE Thrown(t)
    BY <1>4, <2>2, <1>t DEF DeleteFile, Thrown, Knows, Listed
  <2>3. QED BY <1>4, <2>1, <2>2 DEF DeleteFile
<1>5. QED BY <1>1, <1>2, <1>3, <1>4

LEMMA KnowsNext == TypeOK /\ Knows /\ [Next]_vars => Knows'
<1> SUFFICES ASSUME TypeOK, Knows, [Next]_vars
             PROVE  Knows'
  OBVIOUS
<1>t. /\ pc \in [Threads -> Pcs] /\ victims \in [Threads -> SUBSET Players]
      /\ saw \in [Threads -> Numbers] /\ started \in Numbers /\ alive \subseteq 1 .. started
  BY DEF TypeOK
<1>1. ASSUME NEW t \in Clients, Request(t)
      PROVE  Knows'
  <2>1. /\ alive' = alive /\ started' = started /\ saw' = saw /\ victims' = victims
        /\ \/ pc' = pc
           \/ \E x \in {"list", "check", "arm", "reading", "idle"} : pc' = [pc EXCEPT ![t] = x]
    BY <1>1 DEF Request, PlayChannel, AppleChannels, GetChannel, Browse, GetStream, GetStreamTs,
                OpenFile, Enter, killVars, history
  <2>2. QED BY <2>1, <1>t, KnowsStable DEF Listed
<1>2. ASSUME NEW t \in Threads, Work(t)
      PROVE  Knows'
  <2>1. CASE ListProcesses(t) \/ KillProcess(t) \/ GetFiles(t) \/ DeleteFile(t)
    BY <2>1, KillKnows
  <2>2. CASE StartProcess(t)
    <3>1. /\ \A u \in Threads : Listed(u)' => Listed(u)
          /\ \A u \in Threads : pc'[u] = "start" => pc[u] = "start"
      BY <2>2, <1>t DEF StartProcess, Listed
    <3>2. saw' = saw /\ victims' = victims
      BY <2>2 DEF StartProcess, killVars
    <3>3. CASE started' = started /\ alive' = alive
      BY <3>1, <3>2, <3>3, KnowsStable
    <3>4. CASE started' = started + 1 /\ alive' = alive \cup {started + 1}
      <4>1. \A u \in Threads : saw[u] \in Int /\ saw[u] <= started /\ started \in Int
        BY <1>t DEF Numbers, Knows
      <4>2. \A u \in Threads : started + 1 > saw[u] /\ saw[u] <= started + 1
        BY <4>1
      <4>3. QED BY <3>1, <3>2, <3>4, <4>2 DEF Knows
    <3>5. QED BY <2>2, <3>3, <3>4 DEF StartProcess
  <2>3. CASE WaitForChanged(t) \/ TimedOut(t) \/ CheckPlaylist(t) \/ OpenPlaylist(t) \/ ReplySent(t)
    <3>1. /\ alive' = alive /\ started' = started /\ saw' = saw /\ victims' = victims
          /\ \E x \in {"wait", "idle", "open", "reading"} : pc' = [pc EXCEPT ![t] = x]
      BY <2>3 DEF WaitForChanged, TimedOut, CheckPlaylist, OpenPlaylist, OpenFile,
                  ReplySent, killVars, history
    <3>2. QED BY <3>1, <1>t, KnowsStable DEF Listed
  <2>4. QED BY <1>2, <2>1, <2>2, <2>3 DEF Work
<1>3. CASE TimerElapsed \/ FiveHoursPass
  <2>1. /\ alive' = alive /\ started' = started /\ saw' = saw /\ victims' = victims
        /\ pc' = pc \/ pc' = [pc EXCEPT ![Timer] = "list"]
    BY <1>3 DEF TimerElapsed, FiveHoursPass, Enter, killVars, history
  <2>2. QED BY <2>1, <1>t, KnowsStable DEF Listed, Threads
<1>4. ASSUME NEW p \in Players, PlayerStep(p)
      PROVE  Knows'
  <2>1. /\ alive' \subseteq alive /\ started' = started /\ saw' = saw /\ victims' = victims
        /\ pc' = pc \/ pc' = Woken(pc)
    BY <1>4 DEF PlayerStep, PlayerWrites, PlayerDropsSegment, PlayerExits,
                killVars, history
  <2>2. QED BY <2>1, <1>t, KnowsStable, WokenListed DEF Listed
<1>5. CASE UNCHANGED vars
  BY <1>5, KnowsStable DEF vars, Listed
<1>6. QED BY <1>1, <1>2, <1>3, <1>4, <1>5 DEF Next

LEMMA KnowsInit == Init => Knows
  BY DEF Init, Knows, Listed, Numbers

-----------------------------------------------------------------------------
(* Players that run together *)

\* Only StartProcess makes a process run.
LEMMA AliveNext ==
    ASSUME TypeOK, [Next]_vars
    PROVE  \/ alive' \subseteq alive /\ sawBy' = sawBy
           \/ \E t \in Threads : StartProcess(t)
<1>1. CASE \E t \in Clients : Request(t)
  BY <1>1 DEF Request, PlayChannel, AppleChannels, GetChannel, Browse, GetStream,
              GetStreamTs, history
<1>2. ASSUME NEW t \in Threads, Work(t)
      PROVE  (alive' \subseteq alive /\ sawBy' = sawBy) \/ StartProcess(t)
  BY <1>2 DEF Work, ListProcesses, KillProcess, GetFiles, DeleteFile, WaitForChanged,
              TimedOut, CheckPlaylist, OpenPlaylist, ReplySent, history
<1>3. CASE TimerElapsed \/ FiveHoursPass
  BY <1>3 DEF TimerElapsed, FiveHoursPass, history
<1>4. CASE \E p \in Players : PlayerStep(p)
  BY <1>4 DEF PlayerStep, PlayerWrites, PlayerDropsSegment, PlayerExits, history
<1>5. CASE UNCHANGED vars
  BY <1>5 DEF vars
<1>6. QED BY <1>1, <1>2, <1>3, <1>4, <1>5 DEF Next

LEMMA OverlapNext ==
    TypeOK /\ Knows /\ OverlapOnlyFromRace /\ [Next]_vars => OverlapOnlyFromRace'
<1> SUFFICES ASSUME TypeOK, Knows, OverlapOnlyFromRace, [Next]_vars
             PROVE  OverlapOnlyFromRace'
  OBVIOUS
<1>t. /\ started \in Numbers /\ alive \subseteq 1 .. started
      /\ sawBy \in [Players -> Numbers] /\ saw \in [Threads -> Numbers]
  BY DEF TypeOK
<1>1. CASE alive' \subseteq alive /\ sawBy' = sawBy
  BY <1>1 DEF OverlapOnlyFromRace
<1>2. ASSUME NEW t \in Threads, StartProcess(t)
      PROVE  OverlapOnlyFromRace'
  <2>1. CASE UNCHANGED <<started, alive, sawBy>>
    BY <2>1 DEF OverlapOnlyFromRace
  <2>2. CASE /\ started < MaxStarts
             /\ alive' = alive \cup {started + 1}
             /\ sawBy' = [sawBy EXCEPT ![started + 1] = saw[t]]
    <3>1. pc[t] = "start"
      BY <1>2 DEF StartProcess
    <3>2. \A p \in alive : saw[t] < p
      BY <3>1, <1>t DEF Knows, Listed, Numbers
    <3>3. /\ started + 1 \in Players
          /\ \A p \in alive : p \in Players /\ p < started + 1 /\ p # started + 1
      BY <2>2, <1>t DEF Players, Numbers
    <3>4. /\ sawBy'[started + 1] = saw[t]
          /\ \A p \in alive : sawBy'[p] = sawBy[p]
      BY <2>2, <3>3, <1>t
    <3>5. ASSUME NEW p \in alive', NEW q \in alive', p < q
          PROVE  sawBy'[q] < p
      <4>1. CASE q = started + 1
        <5>1. p \in alive
          BY <2>2, <3>5, <4>1, <1>t DEF Numbers
        <5>2. QED BY <4>1, <5>1, <3>2, <3>4
      <4>2. CASE q \in alive
        <5>1. p \in alive
          BY <2>2, <3>3, <3>5, <4>2, <1>t DEF Numbers, Players
        <5>2. QED BY <4>2, <5>1, <3>4, <3>5 DEF OverlapOnlyFromRace
      <4>3. QED BY <2>2, <4>1, <4>2
    <3>6. QED BY <3>5 DEF OverlapOnlyFromRace
  <2>3. QED BY <1>2, <2>1, <2>2 DEF StartProcess
<1>3. QED BY <1>1, <1>2, AliveNext

\* IInv is inductive: what the next two theorems rest on.
LEMMA Invariance == Spec => []IInv
<1>1. Init => IInv
  BY InitTypeOK, KnowsInit DEF IInv, OverlapOnlyFromRace, Init
<1>2. IInv /\ [Next]_vars => IInv'
  BY NextTypeOK, KnowsNext, OverlapNext DEF IInv
<1>3. QED BY <1>1, <1>2, PTL DEF Spec

\* Two players run together only when the later one was started by a request
\* that had listed the processes before the earlier one existed: StartChannel
\* never leaves a player running that its own KillAce was there to kill.
THEOREM OverlapTheorem == Spec => []OverlapOnlyFromRace
  BY Invariance, PTL DEF IInv

\* A KillAce never clears streamtv under a running player it saw and spared.
THEOREM SweepTheorem == Spec => SweepSparesNobodyItSaw
<1> DEFINE Spares == \A f \in Files, t \in Threads :
          /\ stream[f] \in alive
          /\ stream'[f] = None
          /\ pc[t] = "delete" /\ todo'[t] # todo[t]
          => stream[f] > saw[t] \/ stream[f] \in victims[t]
<1>1. IInv /\ [Next]_vars => [Spares]_vars
  BY DEF IInv, Knows, Listed
<1>2. QED BY <1>1, Invariance, PTL DEF Spec, SweepSparesNobodyItSaw

-----------------------------------------------------------------------------
(* Files of players that no longer run *)

\* A step that writes nothing, ends no player and breaks off or finishes no
\* sweep adds no leftover.
LEMMA LeftoverStable ==
    ASSUME LeftoverHasCause, alive \subseteq alive',
           stream' = stream,
           exited' = exited, abandoned' = abandoned, current' = current, todo' = todo,
           \A u \in Threads : pc[u] \in {"getfiles", "delete"} => pc'[u] = pc[u]
    PROVE  LeftoverHasCause'
  BY DEF LeftoverHasCause, Exists, WillSweep

\* The sweep of thread t after one player.
LEMMA DeleteLeftover ==
    ASSUME TypeOK, LeftoverHasCause, NEW t \in Threads, DeleteFile(t)
    PROVE  LeftoverHasCause'
<1>t. /\ pc \in [Threads -> Pcs] /\ current \in [Threads -> Numbers]
      /\ todo \in [Threads -> SUBSET Files] /\ stream \in [Files -> Numbers]
  BY DEF TypeOK
<1>0. pc[t] = "delete" /\ alive' = alive /\ exited' = exited
  BY DEF DeleteFile
<1>1. CASE stream' = stream
  <2>1. ASSUME stream' = stream, Thrown(t), abandoned' = abandoned \cup {current[t]}
        PROVE  LeftoverHasCause'
    <3>1. \A u \in Threads \ {t} : /\ pc'[u] = pc[u] /\ current'[u] = current[u]
                                   /\ todo'[u] = todo[u]
      BY <2>1, <1>t DEF Thrown
    <3>2. SUFFICES ASSUME NEW f \in Files, Exists(f), stream[f] \notin alive,
                          stream[f] \notin exited \cup abandoned,
                          stream[f] # current[t]
                   PROVE  \E u \in Threads : WillSweep(u, f, stream[f])'
      BY <1>0, <2>1 DEF LeftoverHasCause, Exists
    <3>3. PICK u \in Threads : WillSweep(u, f, stream[f])
      BY <3>2 DEF LeftoverHasCause
    <3>4. u # t
      BY <3>2, <3>3 DEF WillSweep
    <3>5. QED BY <2>1, <3>1, <3>3, <3>4 DEF WillSweep
  <2>2. ASSUME NEW f \in todo[t], ~Exists(f), todo' = [todo EXCEPT ![t] = @ \ {f}],
               current' = IF todo[t] = {f} THEN [current EXCEPT ![t] = None] ELSE current,
               pc' = [pc EXCEPT ![t] = IF todo[t] # {f} THEN "delete"
                        ELSE IF victims[t] = {} THEN AfterKill(t) ELSE "kill"],
               abandoned' = abandoned
        PROVE  LeftoverHasCause'
    <3>1. SUFFICES ASSUME NEW g \in Files, Exists(g), stream[g] \notin alive,
                          stream[g] \notin exited \cup abandoned
                   PROVE  \E u \in Threads : WillSweep(u, g, stream[g])'
      BY <1>0, <1>1, <2>2 DEF LeftoverHasCause, Exists
    <3>2. PICK u \in Threads : WillSweep(u, g, stream[g])
      BY <3>1 DEF LeftoverHasCause
    <3>3. g # f
      BY <2>2, <3>1
    <3>4. CASE u = t
      <4>1. g \in todo[t] \ {f}
        BY <3>2, <3>3, <3>4, <1>0 DEF WillSweep
      <4>2. pc'[t] = "delete" /\ current'[t] = current[t] /\ g \in todo'[t]
        BY <4>1, <2>2, <1>t
      <4>3. QED BY <4>2, <3>2, <3>4, <1>1 DEF WillSweep
    <3>5. CASE u # t
      BY <3>2, <3>5, <2>2, <1>1, <1>t DEF WillSweep
    <3>6. QED BY <3>4, <3>5
  <2>3. QED
    <3>1. CASE Thrown(t) /\ abandoned' = abandoned \cup {current[t]}
      BY <1>1, <2>1, <3>1
    <3>2. CASE ~(Thrown(t) /\ abandoned' = abandoned \cup {current[t]})
      <4>1. PICK f \in todo[t] :
              /\ stream' = [stream EXCEPT ![f] = None]
              /\ todo' = [todo EXCEPT ![t] = @ \ {f}]
              /\ current' = IF todo[t] = {f} THEN [current EXCEPT ![t] = None] ELSE current
              /\ Exists(f) \/ pc' = [pc EXCEPT ![t] = IF todo[t] # {f} THEN "delete"
                        ELSE IF victims[t] = {} THEN AfterKill(t) ELSE "kill"]
              /\ abandoned' = abandoned
        BY <3>2 DEF DeleteFile
      <4>2. f \in Files
        BY <1>t
      <4>3. ~Exists(f)
        BY <1>1, <4>1, <4>2, <1>t DEF Exists
      <4>4. QED BY <2>2, <4>1, <4>3
    <3>3. QED BY <3>1, <3>2
<1>2. CASE stream' # stream
  <2>1. PICK f \in todo[t] :
          LET after == IF ~(todo[t] = {f}) THEN "delete"
                       ELSE IF victims[t] = {} THEN AfterKill(t) ELSE "kill"
              moved == [pc EXCEPT ![t] = after]
          IN  /\ stream' = [stream EXCEPT ![f] = None]
              /\ todo' = [todo EXCEPT ![t] = @ \ {f}]
              /\ current' = IF todo[t] = {f} THEN [current EXCEPT ![t] = None] ELSE current
              /\ pc' = Woken(moved) \/ pc' = moved
              /\ abandoned' = abandoned
    BY <1>2 DEF DeleteFile
  <2>2. SUFFICES ASSUME NEW g \in Files, Exists(g)', stream'[g] \notin alive,
                        stream'[g] \notin exited \cup abandoned
                 PROVE  \E u \in Threads : WillSweep(u, g, stream[g])'
    <3>1. f \in Files
      BY <1>t
    <3>2. \A g \in Files : Exists(g)' => stream'[g] = stream[g]
      BY <2>1, <3>1, <1>t DEF Exists
    <3>3. QED BY <1>0, <2>1, <3>2 DEF LeftoverHasCause, WillSweep
  <2>3. g # f /\ stream'[g] = stream[g] /\ Exists(g)
    BY <2>1, <2>2, <1>t DEF Exists
  <2>4. PICK u \in Threads : WillSweep(u, g, stream[g])
    BY <2>2, <2>3, <1>0, <2>1 DEF LeftoverHasCause
  <2> DEFINE after == IF ~(todo[t] = {f}) THEN "delete"
                      ELSE IF victims[t] = {} THEN AfterKill(t) ELSE "kill"
             moved == [pc EXCEPT ![t] = after]
  <2>5. \A p, x : x \in Threads /\ p[x] \in {"getfiles", "delete"} => Woken(p)[x] = p[x]
    BY DEF Woken
  <2>a. pc' = Woken(moved) \/ pc' = moved
    BY <2>1
  <2> HIDE DEF moved
  <2>6. CASE u = t
    <3>1. g \in todo[t] \ {f}
      BY <2>3, <2>4, <2>6, <1>0 DEF WillSweep
    <3>2. moved[t] = "delete" /\ current'[t] = current[t] /\ g \in todo'[t]
      BY <3>1, <2>1, <1>t DEF moved
    <3>3. pc'[t] = "delete"
      BY <2>a, <2>5, <3>2
    <3>4. QED BY <2>3, <2>4, <2>6, <3>2, <3>3 DEF WillSweep
  <2>7. CASE u # t
    <3>1. moved[u] = pc[u] /\ current'[u] = current[u] /\ todo'[u] = todo[u]
      BY <2>1, <2>7, <1>t DEF moved
    <3>2. pc[u] \in {"getfiles", "delete"}
      BY <2>4 DEF WillSweep
    <3>3. pc'[u] = pc[u]
      BY <2>a, <2>5, <3>1, <3>2
    <3>4. QED BY <2>4, <3>1, <3>3, <2>3 DEF WillSweep
  <2>8. QED BY <2>6, <2>7
<1>3. QED BY <1>1, <1>2

LEMMA WorkLeftover ==
    ASSUME TypeOK, LeftoverHasCause, NEW t \in Threads, Work(t)
    PROVE  LeftoverHasCause'
<1>t. /\ pc \in [Threads -> Pcs] /\ current \in [Threads -> Numbers]
      /\ todo \in [Threads -> SUBSET Files] /\ stream \in [Files -> Numbers]
  BY DEF TypeOK
<1>1. CASE ListProcesses(t) \/ StartProcess(t)
  <2>1. \A u \in Threads : pc[u] \in {"getfiles", "delete"} => pc'[u] = pc[u]
    BY <1>1, <1>t DEF ListProcesses, StartProcess
  <2>2. alive \subseteq alive' /\ UNCHANGED <<stream, exited, abandoned, current, todo>>
    BY <1>1 DEF ListProcesses, StartProcess, killVars
  <2>3. QED BY <2>1, <2>2, LeftoverStable
<1>2. CASE KillProcess(t)
  <2>0. pc[t] = "kill" /\ UNCHANGED <<stream, exited, abandoned>>
    BY <1>2 DEF KillProcess, history
  <2>1. PICK p \in victims[t] :
          \/ /\ alive' = alive \ {p}
             /\ current' = [current EXCEPT ![t] = p]
             /\ pc' = [pc EXCEPT ![t] = "getfiles"]
             /\ UNCHANGED todo
          \/ Thrown(t) /\ UNCHANGED alive
    BY <1>2 DEF KillProcess
  <2>2. SUFFICES ASSUME NEW f \in Files, Exists(f), stream[f] \notin alive',
                        stream[f] \notin exited \cup abandoned
                 PROVE  \E u \in Threads : WillSweep(u, f, stream[f])'
    BY <2>0 DEF LeftoverHasCause, Exists
  <2>3. CASE stream[f] \in alive
    <3>1. current'[t] = stream[f] /\ pc'[t] = "getfiles"
      BY <2>1, <2>2, <2>3, <1>t
    <3>2. QED BY <3>1, <2>0 DEF WillSweep
  <2>4. CASE stream[f] \notin alive
    <3>1. PICK u \in Threads : WillSweep(u, f, stream[f])
      BY <2>2, <2>4 DEF LeftoverHasCause
    <3>2. u # t
      BY <2>0, <3>1 DEF WillSweep
    <3>3. current'[u] = current[u] /\ pc'[u] = pc[u] /\ todo'[u] = todo[u]
      BY <2>1, <3>2, <1>t DEF Thrown
    <3>4. QED BY <2>0, <3>1, <3>3 DEF WillSweep
  <2>5. QED BY <2>3, <2>4
<1>3. CASE GetFiles(t)
  <2>0. pc[t] = "getfiles" /\ UNCHANGED <<alive, stream, exited, abandoned>>
    BY <1>3 DEF GetFiles, history
  <2>1. SUFFICES ASSUME NEW f \in Files, Exists(f), stream[f] \notin alive,
                        stream[f] \notin exited \cup abandoned
                 PROVE  \E u \in Threads : WillSweep(u, f, stream[f])'
    BY <2>0 DEF LeftoverHasCause, Exists
  <2>2. PICK u \in Threads : WillSweep(u, f, stream[f])
    BY <2>1 DEF LeftoverHasCause
  <2>3. /\ pc' = [pc EXCEPT ![t] = "delete"] /\ current' = current
        /\ todo' = [todo EXCEPT ![t] = {g \in Files : Exists(g)}]
    BY <1>3, <2>1 DEF GetFiles
  <2>4. CASE u = t
    BY <2>0, <2>1, <2>2, <2>3, <2>4, <1>t DEF WillSweep
  <2>5. CASE u # t
    BY <2>0, <2>2, <2>3, <2>5, <1>t DEF WillSweep
  <2>6. QED BY <2>4, <2>5
<1>4. CASE DeleteFile(t)
  BY <1>4, DeleteLeftover
<1>5. CASE WaitForChanged(t) \/ TimedOut(t) \/ CheckPlaylist(t) \/ OpenPlaylist(t) \/ ReplySent(t)
  <2>1. /\ UNCHANGED <<alive, stream, exited, abandoned, current, todo>>
        /\ pc[t] \notin {"getfiles", "delete"}
        /\ \E x \in Pcs : pc' = [pc EXCEPT ![t] = x]
    BY <1>5 DEF WaitForChanged, TimedOut, CheckPlaylist, OpenPlaylist, OpenFile,
                ReplySent, killVars, history, Pcs, StreamPcs
  <2>2. QED BY <2>1, <1>t, LeftoverStable
<1>6. QED BY <1>1, <1>2, <1>3, <1>4, <1>5 DEF Work

LEMMA PlayerLeftover ==
    ASSUME TypeOK, LeftoverHasCause, NEW p \in Players, PlayerStep(p)
    PROVE  LeftoverHasCause'
<1>t. stream \in [Files -> Numbers] /\ pc \in [Threads -> Pcs]
  BY DEF TypeOK
<1>1. ASSUME UNCHANGED <<exited, abandoned, current, todo, alive>>,
             pc' = pc \/ pc' = Woken(pc),
             \A f \in Files : stream'[f] \in {stream[f], None} \cup alive
      PROVE  LeftoverHasCause'
  <2>1. \A u \in Threads : pc[u] \in {"getfiles", "delete"} => pc'[u] = pc[u]
    BY <1>1 DEF Woken
  <2>2. QED BY <1>1, <2>1 DEF LeftoverHasCause, Exists, WillSweep
<1>2. ASSUME NEW f \in Files, PlayerWrites(p, f)
      PROVE  LeftoverHasCause'
  BY <1>1, <1>2, <1>t DEF PlayerWrites, killVars, history
<1>3. CASE PlayerDropsSegment(p)
  BY <1>1, <1>3, <1>t DEF PlayerDropsSegment, killVars, history
<1>4. CASE PlayerExits(p)
  <2>1. /\ UNCHANGED <<stream, pc, current, todo, abandoned>>
        /\ alive' = alive \ {p} /\ exited' = exited \cup {p}
    BY <1>4 DEF PlayerExits, killVars
  <2>2. QED BY <2>1 DEF LeftoverHasCause, Exists, WillSweep
<1>5. QED BY <1>2, <1>3, <1>4 DEF PlayerStep

LEMMA LeftoverNext == TypeOK /\ LeftoverHasCause /\ [Next]_vars => LeftoverHasCause'
<1> SUFFICES ASSUME TypeOK, LeftoverHasCause, [Next]_vars
             PROVE  LeftoverHasCause'
  OBVIOUS
<1>t. pc \in [Threads -> Pcs]
  BY DEF TypeOK
<1>1. ASSUME NEW t \in Clients, Request(t)
      PROVE  LeftoverHasCause'
  <2>1. /\ UNCHANGED <<alive, stream, exited, abandoned, current, todo>>
        /\ pc[t] = "idle"
        /\ pc' = pc \/ \E x \in Pcs : pc' = [pc EXCEPT ![t] = x]
    BY <1>1 DEF Request, PlayChannel, AppleChannels, GetChannel, Browse, GetStream, GetStreamTs,
                OpenFile, Enter, killVars, history, Pcs, KillPcs, StreamPcs
  <2>2. QED BY <2>1, <1>t, LeftoverStable
<1>2. ASSUME NEW t \in Threads, Work(t)
      PROVE  LeftoverHasCause'
  BY <1>2, WorkLeftover
<1>3. CASE TimerElapsed \/ FiveHoursPass
  <2>1. /\ UNCHANGED <<alive, stream, exited, abandoned, current, todo>>
        /\ pc' = pc \/ (pc[Timer] = "idle" /\ pc' = [pc EXCEPT ![Timer] = "list"])
    BY <1>3 DEF TimerElapsed, FiveHoursPass, Enter, killVars, history
  <2>2. QED BY <2>1, <1>t, LeftoverStable
<1>4. ASSUME NEW p \in Players, PlayerStep(p)
      PROVE  LeftoverHasCause'
  BY <1>4, PlayerLeftover
<1>5. CASE UNCHANGED vars
  BY <1>5, LeftoverStable DEF vars
<1>6. QED BY <1>1, <1>2, <1>3, <1>4, <1>5 DEF Next

\* A file of a player that no longer runs lies in streamtv only because that
\* player ended by itself, because its sweep was broken off, or because a
\* thread is about to delete it.
THEOREM LeftoverTheorem == Spec => []LeftoverHasCause
<1>1. Init => LeftoverHasCause
  BY DEF Init, LeftoverHasCause, Exists
<1>2. TypeOK /\ LeftoverHasCause /\ [Next]_vars => LeftoverHasCause'
  BY LeftoverNext
<1>3. QED BY <1>1, <1>2, TypeCorrect, PTL DEF Spec
=============================================================================
