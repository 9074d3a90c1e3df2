---------------------------- MODULE StreamPlayer ----------------------------
(***************************************************************************)
(* The live-television path of AppleTvLiar.  One external program,         *)
(* ace_player, transcodes a channel into the directory streamtv: a         *)
(* playlist mystream.m3u8 and segments mystream-NNNNNNNN.ts.  Requests of  *)
(* the web service start it (StartChannel), kill it (KillAce) and read its *)
(* files (GetStream, GetStreamTs); a timer kills it when no channel page   *)
(* was asked for during five hours.                                        *)
(*                                                                         *)
(* WCF runs one instance per call, so every request is a thread of its     *)
(* own and nothing serialises them: a thread takes the list of players,    *)
(* kills them one by one and sweeps the directory after each, while other  *)
(* threads do the same, start players or hold files open.                  *)
(*                                                                         *)
(* Players are numbered in the order they start; a file is known by the    *)
(* player that wrote it last.                                              *)
(***************************************************************************)
EXTENDS Integers, FiniteSets

CONSTANTS
    Clients,    \* the threads that serve requests
    Timer,      \* the thread of MikrainProgramm's timer
    MaxStarts   \* bound: how many players a behaviour may start

ASSUME StreamAssumption ==
    /\ Timer \notin Clients
    /\ MaxStarts \in Nat

VARIABLES
    started,    \* how many players were ever started
    alive,      \* the running ace_player processes
    stream,     \* stream[f]: the player that wrote file f, None if f does not exist
    fresh,      \* DateChannel lies within the last five hours
    pc,         \* what each thread does next
    plays,      \* it runs StartChannel: a player is to be started after KillAce
    victims,    \* the processes of its GetProcessesByName it has still to kill
    current,    \* the process it killed last and now sweeps up after
    todo,       \* the files of its GetFiles it has still to delete
    held,       \* the file each thread holds open for its reply, if any
    saw,        \* history: the value of started when the thread listed the processes
    sawBy,      \* history: sawBy[p]: saw of the thread that started p
    exited,     \* history: players that ended by themselves
    abandoned   \* history: players whose sweep was broken off by an exception

history  == <<exited, abandoned, saw, sawBy>>
killVars == <<victims, current, todo>>
vars == <<started, alive, stream, fresh, pc, plays, victims, current, todo,
          held, saw, sawBy, exited, abandoned>>

Threads  == Clients \cup {Timer}
Players  == 1 .. MaxStarts
Numbers  == 0 .. MaxStarts      \* a player, None, or a count of players
None     == 0
Playlist == "mystream.m3u8"
Segment  == "mystream.ts"
Files    == {Playlist, Segment}
NoFile   == "none"

KillPcs   == {"list", "kill", "getfiles", "delete"}
StreamPcs == {"arm", "wait", "check", "open"}
Pcs       == {"idle", "start", "reading"} \cup KillPcs \cup StreamPcs

Exists(f)   == stream[f] # None
Readers(f)  == {t \in Threads : held[t] = f}
\* WatcherChangeTypes.All: any change of the playlist ends every WaitForChanged.
Woken(p)    == [t \in Threads |-> IF p[t] = "wait" THEN "check" ELSE p[t]]
\* Where a thread goes when KillAce returns normally.
AfterKill(t) == IF plays[t] THEN "start" ELSE "idle"

Init ==
    /\ started = 0
    /\ alive = {}
    /\ stream = [f \in Files |-> None]
    /\ fresh = FALSE                          \* DateChannel is DateTime.MinValue
    /\ pc = [t \in Threads |-> "idle"]
    /\ plays = [t \in Threads |-> FALSE]
    /\ victims = [t \in Threads |-> {}]
    /\ current = [t \in Threads |-> None]
    /\ todo = [t \in Threads |-> {}]
    /\ held = [t \in Threads |-> NoFile]
    /\ saw = [t \in Threads |-> 0]
    /\ sawBy = [p \in Players |-> 0]
    /\ exited = {}
    /\ abandoned = {}

-----------------------------------------------------------------------------
(* Requests and the timer *)

\* A thread sets out to run KillAce, and to start a player after it or not.
Enter(t, play) ==
    /\ pc[t] = "idle"
    /\ pc' = [pc EXCEPT ![t] = "list"]
    /\ plays' = [plays EXCEPT ![t] = play]

\* playChannel of a link that is not http: PlayChannel calls StartChannel.
PlayChannel(t) ==
    /\ Enter(t, TRUE)
    /\ UNCHANGED <<started, alive, stream, fresh, held, killVars, history>>

\* GetChannel: the channel may be played at once or only lead to a page.
GetChannel(t) ==
    \/ Enter(t, TRUE)
    \/ pc[t] = "idle" /\ UNCHANGED <<pc, plays>>

\* appleChannels notes the time first.
AppleChannels(t) ==
    /\ fresh' = TRUE
    /\ GetChannel(t)
    /\ UNCHANGED <<started, alive, stream, held, killVars, history>>

\* Opening a page of a site whose manager calls KillAce in its constructor.
Browse(t) ==
    /\ Enter(t, FALSE)
    /\ UNCHANGED <<started, alive, stream, fresh, held, killVars, history>>

\* t_Elapsed: reads DateChannel, then calls KillAce.
TimerElapsed ==
    /\ ~fresh
    /\ Enter(Timer, FALSE)
    /\ UNCHANGED <<started, alive, stream, fresh, held, killVars, history>>

\* Five hours pass without a channel request.
FiveHoursPass ==
    /\ fresh
    /\ fresh' = FALSE
    /\ UNCHANGED <<started, alive, stream, pc, plays, held, killVars, history>>

-----------------------------------------------------------------------------
(* KillAce *)

ListProcesses(t) ==
    /\ pc[t] = "list"
    /\ victims' = [victims EXCEPT ![t] = alive]
    /\ saw' = [saw EXCEPT ![t] = started]
    /\ pc' = [pc EXCEPT ![t] = IF alive = {} THEN AfterKill(t) ELSE "kill"]
    /\ UNCHANGED <<started, alive, stream, fresh, plays, current, todo, held,
                   sawBy, exited, abandoned>>

\* An exception leaves KillAce: StartChannel and the timer swallow it, a
\* constructor passes it to the endpoint, which answers nothing.
Thrown(t) ==
    /\ pc' = [pc EXCEPT ![t] = "idle"]
    /\ victims' = [victims EXCEPT ![t] = {}]
    /\ current' = [current EXCEPT ![t] = None]
    /\ todo' = [todo EXCEPT ![t] = {}]

\* Mutant: the thread sweeps up without waiting for the process to end.
KillProcessNoWait(t) ==
    /\ pc[t] = "kill"
    /\ \E p \in victims[t] :
          /\ victims' = [victims EXCEPT ![t] = @ \ {p}]
          /\ current' = [current EXCEPT ![t] = p]
    /\ pc' = [pc EXCEPT ![t] = "getfiles"]
    /\ UNCHANGED <<started, alive, stream, fresh, plays, todo, held, history>>

\* Kill and WaitForExit; Kill throws when the process is already gone.
KillProcess(t) ==
    /\ pc[t] = "kill"
    /\ \E p \in victims[t] :
          \/ /\ p \in alive
             /\ alive' = alive \ {p}
             /\ victims' = [victims EXCEPT ![t] = @ \ {p}]
             /\ current' = [current EXCEPT ![t] = p]
             /\ pc' = [pc EXCEPT ![t] = "getfiles"]
             /\ UNCHANGED todo
          \/ /\ p \notin alive
             /\ Thrown(t)
             /\ UNCHANGED alive
    /\ UNCHANGED <<started, stream, fresh, plays, held, history>>

\* The sweep after one process is over: the next process, or the end.
SweepOver(t) ==
    /\ current' = [current EXCEPT ![t] = None]
    /\ pc' = [pc EXCEPT ![t] = IF victims[t] = {} THEN AfterKill(t) ELSE "kill"]

\* Mutant: the sweep lists the playlist only.
GetFilesPlaylistOnly(t) ==
    /\ pc[t] = "getfiles"
    /\ LET found == {f \in {Playlist} : Exists(f)} IN
          /\ todo' = [todo EXCEPT ![t] = found]
          /\ IF found = {} THEN SweepOver(t)
             ELSE /\ pc' = [pc EXCEPT ![t] = "delete"]
                  /\ UNCHANGED current
    /\ UNCHANGED <<started, alive, stream, fresh, plays, victims, held, history>>

\* Mutant: the sweep is repeated until the directory is found empty.
SweepUntilEmpty(t) ==
    /\ pc[t] = "getfiles"
    /\ IF \A f \in Files : ~Exists(f)
       THEN SweepOver(t) /\ UNCHANGED stream
       ELSE /\ stream' = [f \in Files |-> None]
            /\ UNCHANGED <<pc, current>>
    /\ UNCHANGED <<started, alive, fresh, plays, victims, todo, held, history>>

GetFiles(t) ==
    /\ pc[t] = "getfiles"
    /\ LET found == {f \in Files : Exists(f)} IN
          /\ todo' = [todo EXCEPT ![t] = found]
          /\ IF found = {} THEN SweepOver(t)
             ELSE /\ pc' = [pc EXCEPT ![t] = "delete"]
                  /\ UNCHANGED current
    /\ UNCHANGED <<started, alive, stream, fresh, plays, victims, held, history>>

\* File.Delete of a listed file.  A file that is gone already is no error; one
\* that a reply holds open cannot be deleted, nor one a running player has open.
DeleteFile(t) ==
    /\ pc[t] = "delete"
    /\ \E f \in todo[t] :
          \/ /\ Readers(f) = {}
             /\ stream' = [stream EXCEPT ![f] = None]
             /\ todo' = [todo EXCEPT ![t] = @ \ {f}]
             /\ LET swept == todo[t] = {f}
                    after == IF ~swept THEN "delete"
                             ELSE IF victims[t] = {} THEN AfterKill(t) ELSE "kill"
                    moved == [pc EXCEPT ![t] = after]
                IN  /\ current' = IF swept THEN [current EXCEPT ![t] = None]
                                  ELSE current
                    /\ pc' = IF f = Playlist /\ Exists(f) THEN Woken(moved)
                             ELSE moved
             /\ UNCHANGED <<victims, abandoned>>
          \/ /\ Exists(f)
             /\ Readers(f) # {} \/ alive # {}
             /\ abandoned' = abandoned \cup {current[t]}
             /\ Thrown(t)
             /\ UNCHANGED stream
    /\ UNCHANGED <<started, alive, fresh, plays, held, exited, saw, sawBy>>

-----------------------------------------------------------------------------
(* StartChannel after KillAce, and the player itself *)

\* Process.Start; when it throws the exception is swallowed.  Either way the
\* client is told to fetch /getstream.
StartProcess(t) ==
    /\ pc[t] = "start"
    /\ pc' = [pc EXCEPT ![t] = "idle"]
    /\ \/ /\ started < MaxStarts
          /\ started' = started + 1
          /\ alive' = alive \cup {started + 1}
          /\ sawBy' = [sawBy EXCEPT ![started + 1] = saw[t]]
       \/ UNCHANGED <<started, alive, sawBy>>
    /\ UNCHANGED <<stream, fresh, plays, held, killVars, saw, exited, abandoned>>

\* External: the player writes its playlist or a segment (again).  It cannot
\* while a reply has the file open, File.Open shares it with nobody.
PlayerWrites(p, f) ==
    /\ p \in alive
    /\ Readers(f) = {}
    /\ stream' = [stream EXCEPT ![f] = p]
    /\ pc' = IF f = Playlist THEN Woken(pc) ELSE pc
    /\ UNCHANGED <<started, alive, fresh, plays, held, killVars, history>>

\* External: delsegs=true makes the player delete its old segments.
PlayerDropsSegment(p) ==
    /\ p \in alive
    /\ stream[Segment] = p
    /\ Readers(Segment) = {}
    /\ stream' = [stream EXCEPT ![Segment] = None]
    /\ UNCHANGED <<started, alive, fresh, pc, plays, held, killVars, history>>

\* External: the player ends by itself, its files stay.
PlayerExits(p) ==
    /\ p \in alive
    /\ alive' = alive \ {p}
    /\ exited' = exited \cup {p}
    /\ UNCHANGED <<started, stream, fresh, pc, plays, held, killVars,
                   saw, sawBy, abandoned>>

-----------------------------------------------------------------------------
(* GetStream and GetStreamTs *)

GetStream(t) ==
    /\ pc[t] = "idle"
    /\ pc' = [pc EXCEPT ![t] = IF Exists(Playlist) THEN "check" ELSE "arm"]
    /\ UNCHANGED <<started, alive, stream, fresh, plays, held, killVars, history>>

\* The watcher starts after the test: a change in between is not seen.
WaitForChanged(t) ==
    /\ pc[t] = "arm"
    /\ pc' = [pc EXCEPT ![t] = "wait"]
    /\ UNCHANGED <<started, alive, stream, fresh, plays, held, killVars, history>>

\* Mutant: after 40 seconds the request watches the directory again.
TimedOutRetry(t) ==
    /\ pc[t] = "wait"
    /\ pc' = [pc EXCEPT ![t] = "arm"]
    /\ UNCHANGED <<started, alive, stream, fresh, plays, held, killVars, history>>

\* 40 seconds without a change: the request fails.
TimedOut(t) ==
    /\ pc[t] = "wait"
    /\ pc' = [pc EXCEPT ![t] = "idle"]
    /\ UNCHANGED <<started, alive, stream, fresh, plays, held, killVars, history>>

CheckPlaylist(t) ==
    /\ pc[t] = "check"
    /\ pc' = [pc EXCEPT ![t] = IF Exists(Playlist) THEN "open" ELSE "idle"]
    /\ UNCHANGED <<started, alive, stream, fresh, plays, held, killVars, history>>

\* File.Open(FileMode.Open, FileAccess.Read), which shares with nobody.
OpenFile(t, f) ==
    \/ /\ Exists(f)
       /\ Readers(f) = {}
       /\ held' = [held EXCEPT ![t] = f]
       /\ pc' = [pc EXCEPT ![t] = "reading"]
    \/ /\ ~Exists(f) \/ Readers(f) # {} \/ alive # {}
       /\ pc' = [pc EXCEPT ![t] = "idle"]
       /\ UNCHANGED held

OpenPlaylist(t) ==
    /\ pc[t] = "open"
    /\ OpenFile(t, Playlist)
    /\ UNCHANGED <<started, alive, stream, fresh, plays, killVars, history>>

GetStreamTs(t) ==
    /\ pc[t] = "idle"
    /\ OpenFile(t, Segment)
    /\ UNCHANGED <<started, alive, stream, fresh, plays, killVars, history>>

\* The service sent the stream to the client and disposes it.
ReplySent(t) ==
    /\ pc[t] = "reading"
    /\ pc' = [pc EXCEPT ![t] = "idle"]
    /\ held' = [held EXCEPT ![t] = NoFile]
    /\ UNCHANGED <<started, alive, stream, fresh, plays, killVars, history>>

-----------------------------------------------------------------------------
Request(t) ==
    PlayChannel(t) \/ AppleChannels(t) \/ Browse(t) \/ GetStream(t) \/ GetStreamTs(t)

\* The steps a thread takes once it has work to do.
Work(t) ==
    \/ ListProcesses(t) \/ KillProcess(t) \/ GetFiles(t) \/ DeleteFile(t)
    \/ StartProcess(t)
    \/ WaitForChanged(t) \/ TimedOut(t) \/ CheckPlaylist(t) \/ OpenPlaylist(t)
    \/ ReplySent(t)

PlayerStep(p) ==
    \/ \E f \in Files : PlayerWrites(p, f)
    \/ PlayerDropsSegment(p)
    \/ PlayerExits(p)

Next ==
    \/ \E t \in Clients : Request(t)
    \/ \E t \in Threads : Work(t)
    \/ TimerElapsed
    \/ FiveHoursPass
    \/ \E p \in Players : PlayerStep(p)

Spec == Init /\ [][Next]_vars

\* The scheduler runs every thread; waits are bounded by their timeouts.
FairSpec == Spec /\ \A t \in Threads : WF_vars(Work(t))

-----------------------------------------------------------------------------
(* Properties *)

\* Every variable keeps its type; only players that were started run.
TypeOK ==
    /\ started \in Numbers
    /\ alive \subseteq 1 .. started
    /\ stream \in [Files -> Numbers]
    /\ fresh \in BOOLEAN
    /\ pc \in [Threads -> Pcs]
    /\ plays \in [Threads -> BOOLEAN]
    /\ victims \in [Threads -> SUBSET Players]
    /\ current \in [Threads -> Numbers]
    /\ todo \in [Threads -> SUBSET Files]
    /\ held \in [Threads -> Files \cup {NoFile}]
    /\ saw \in [Threads -> Numbers]
    /\ sawBy \in [Players -> Numbers]
    /\ exited \subseteq Players
    /\ abandoned \subseteq Numbers

\* Two players run together only when their StartChannel calls overlapped:
\* of two running players the later one was started by a thread that had
\* listed the processes before the earlier one existed.
OverlapOnlyFromRace ==
    \A p, q \in alive : p < q => sawBy[q] < p

\* The thread t will still delete file f of the dead player p.
WillSweep(t, f, p) ==
    /\ current[t] = p
    /\ pc[t] = "getfiles" \/ (pc[t] = "delete" /\ f \in todo[t])

\* A file of a player that no longer runs is only ever found in streamtv when
\* that player ended by itself, when the sweep after it was broken off by a
\* file that could not be deleted, or when a thread is about to delete it.
LeftoverHasCause ==
    \A f \in Files :
        Exists(f) /\ stream[f] \notin alive =>
            \/ stream[f] \in exited \cup abandoned
            \/ \E t \in Threads : WillSweep(t, f, stream[f])

\* A sweep takes a file from a running player only if that player started
\* after the sweeping thread listed the processes, or is next on its list:
\* a KillAce never clears the directory under a player it chose to spare.
SweepSparesNobodyItSaw ==
    [][\A f \in Files, t \in Threads :
          /\ stream[f] \in alive
          /\ stream'[f] = None
          /\ pc[t] = "delete" /\ todo'[t] # todo[t]
          => stream[f] > saw[t] \/ stream[f] \in victims[t]]_vars

\* Every PlayChannel, browse and timer tick gets out of KillAce, however the
\* other threads kill, start and sweep meanwhile.
KillAceEnds == \A t \in Threads : pc[t] = "list" ~> pc[t] = "idle"

\* Every GetStream is answered, with the playlist or with an error, even when
\* the playlist appears between its test and the start of its watcher.
GetStreamAnswered ==
    \A t \in Threads : pc[t] \in StreamPcs ~> pc[t] \in {"idle", "reading"}
=============================================================================
