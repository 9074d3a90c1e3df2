--------------------------- MODULE UpdateService ---------------------------
(***************************************************************************)
(* The Windows service that hosts AppleTvLiar and replaces its files.      *)
(* Start starts a timer and then, on its own thread, cleans the update     *)
(* directory and loads the DNS service and the web service out of          *)
(* AppleTvLiar.dll.  Each tick of the timer is a Callback: it compares the *)
(* remote UpdateConfig.xml with the local one, records the remote version, *)
(* closes the web service, replaces the files one by one and starts the    *)
(* web service again from the DLL it downloaded.  Callback is async void   *)
(* and nothing keeps two ticks, or a tick and Start, apart.                *)
(*                                                                         *)
(* An update (a Callback that decides to update) has a number; it is also  *)
(* the number of the assembly it downloads, because the file name carries  *)
(* the time.  0 is Start, and the assembly at the path AppleTvLiar.dll.    *)
(* The static listener belongs to an assembly.  Assembly.LoadFile returns  *)
(* the assembly already loaded from a path, whatever the file holds now.   *)
(*                                                                         *)
(* Files cannot be moved or copied, the network is down, another program   *)
(* has the port: what the system refuses fails here too.  Only the two     *)
(* descriptions are never refused, and a DLL that loads is a good one.     *)
(***************************************************************************)
EXTENDS Integers, FiniteSets

CONSTANTS
    Items,          \* the targets of the update description
    Dll,            \* the one that is AppleTvLiar.dll
    Changed(_),     \* Changed(v): the items version v marks as changed
    MaxVersion,     \* bound: versions the remote side publishes
    MaxUpdates,     \* bound: Callbacks that decide to update, in one process
    MaxCrashes      \* bound: crashes that are nobody's exception

Versions == 1 .. MaxVersion
Updates  == 1 .. MaxUpdates

ASSUME UpdateAssumption ==
    /\ Dll \in Items
    /\ MaxVersion \in Nat /\ MaxUpdates \in Nat /\ MaxCrashes \in Nat
    /\ \A v \in Versions : Changed(v) \subseteq Items

VARIABLES
    remote,     \* the version on the remote side
    recorded,   \* the version in Updates/UpdateConfig.xml; 0: absent or empty
    target,     \* target[i]: version of the file, Missing or Blank
    calc,       \* calcInstance: the assembly of the instance, Dns or NoInstance
    code,       \* code[a]: version of the assembly loaded as a, or NotLoaded
    listener,   \* listener[a]: the static ServiceHost of assembly a
    host,       \* host[h]: the state of a ServiceHost
    pc,         \* where Start (0) and each update is
    ver,        \* ver[n]: the version update n read from the remote side
    todo,       \* items it has still to replace
    item,       \* the item it is replacing
    have,       \* the downloaded copies that exist
    got,        \* got[n][i]: the version of the copy
    asm,        \* the assembly it closes or starts
    rescue,     \* it is in the catch block of Callback
    crashes,    \* crashes so far
    broken,     \* history: items left Missing or Blank by a crash, CleanUpdates or a failed move or copy
    causes,     \* history: why the recorded version may not be in place
    raced,      \* history: two of Start and the updates were busy together in this process
    lost        \* history: the system kept the newest host from listening

files   == <<recorded, target>>
memory  == <<calc, code, listener, host>>
work    == <<ver, todo, item, have, got>>
history == <<broken, causes, raced, lost>>
vars == <<remote, files, memory, pc, work, asm, rescue, crashes, history>>

Start      == 0
Actors     == {Start} \cup Updates
Default    == 0         \* the path AppleTvLiar.dll
Missing    == -1
Blank      == -2
Torn       == -1        \* a cut-off UpdateConfig.xml: Deserialize throws
NotLoaded  == -1
Dns        == -1
NoInstance == -2
Whole      == 0 .. MaxVersion
Hosts      == Actors \X BOOLEAN     \* whose StartService made it, in the catch block or not
NoHost     == <<-1, FALSE>>
NothingGot == [i \in Items |-> 0]
Opened     == {h \in Hosts : host[h] = "opened"}

CheckPcs   == {"free", "decide", "truncate"}
ReplacePcs == {"prepare", "create", "move", "copy"}
BusyPcs    == {"write", "dispose", "clear", "next", "load", "host", "open", "close"} \cup ReplacePcs
Busy(n)    == pc[n] \in BusyPcs \cup {"clean", "dns"}
Up         == pc[Start] # "down"
Locked     == \E n \in Updates : pc[n] = "write"    \* UpdateConfig.xml is open for writing

Go(n, p)   == pc' = [pc EXCEPT ![n] = p]

\* The locals of a Callback end with it.
Forget(N) ==
    /\ ver' = [n \in Updates |-> IF n \in N THEN 0 ELSE ver[n]]
    /\ todo' = [n \in Updates |-> IF n \in N THEN {} ELSE todo[n]]
    /\ item' = [n \in Updates |-> IF n \in N THEN Dll ELSE item[n]]
    /\ have' = [n \in Updates |-> IF n \in N THEN {} ELSE have[n]]
    /\ got' = [n \in Updates |-> IF n \in N THEN NothingGot ELSE got[n]]

Init ==
    /\ remote = 0 /\ recorded = 0
    /\ target = [i \in Items |-> 0]
    /\ calc = NoInstance
    /\ code = [a \in Actors |-> NotLoaded]
    /\ listener = [a \in Actors |-> NoHost]
    /\ host = [h \in Hosts |-> "none"]
    /\ pc = [n \in Actors |-> IF n = Start THEN "down" ELSE "free"]
    /\ ver = [n \in Updates |-> 0]
    /\ todo = [n \in Updates |-> {}]
    /\ item = [n \in Updates |-> Dll]
    /\ have = [n \in Updates |-> {}]
    /\ got = [n \in Updates |-> NothingGot]
    /\ asm = [n \in Actors |-> Default]
    /\ rescue = [n \in Actors |-> FALSE]
    /\ crashes = 0
    /\ broken = {} /\ causes = {} /\ raced = FALSE /\ lost = FALSE

-----------------------------------------------------------------------------
(* The world *)

Publish ==
    /\ remote < MaxVersion
    /\ remote' = remote + 1
    /\ UNCHANGED <<files, memory, pc, work, asm, rescue, crashes, history>>

\* The process ends: what was in memory is gone, a half-written
\* UpdateConfig.xml is empty or cut off, files are left as they are.
ProcessEnds ==
    /\ pc' = [n \in Actors |-> IF n = Start THEN "down" ELSE "free"]
    /\ calc' = NoInstance
    /\ code' = [a \in Actors |-> NotLoaded]
    /\ listener' = [a \in Actors |-> NoHost]
    /\ host' = [h \in Hosts |-> "none"]
    /\ asm' = [n \in Actors |-> Default]
    /\ rescue' = [n \in Actors |-> FALSE]
    /\ recorded' \in IF Locked THEN {recorded, Torn} ELSE {recorded}
    /\ broken' = broken \cup {i \in Items : target[i] \notin Whole}
    /\ causes' = IF \E n \in Updates : Busy(n) THEN causes \cup {"crash"} ELSE causes
    /\ raced' = FALSE /\ lost' = FALSE
    /\ Forget(Updates)
    /\ UNCHANGED <<remote, target>>

Crash ==
    /\ Up /\ crashes < MaxCrashes
    /\ crashes' = crashes + 1
    /\ ProcessEnds

\* An open web service fails by itself.
HostFaults ==
    /\ \E h \in Opened : host' = [host EXCEPT ![h] = "faulted"]
    /\ lost' = TRUE
    /\ UNCHANGED <<remote, files, calc, code, listener, pc, work, asm, rescue, crashes,
                   broken, causes, raced>>

-----------------------------------------------------------------------------
(* Start *)

\* The timer runs before anything else is done.
StartTimer ==
    /\ ~Up
    /\ Go(Start, "clean")
    /\ UNCHANGED <<remote, files, memory, work, asm, rescue, crashes, history>>

\* CleanUpdates: copies downloaded by now may be deleted, any number of them
\* (a file in use ends Directory.Delete, and the exception is swallowed).
CleanUpdates ==
    /\ pc[Start] = "clean"
    /\ \E kept \in SUBSET (Updates \X Items) :
        have' = [n \in Updates |-> {i \in have[n] : <<n, i>> \in kept}]
    /\ Go(Start, "dns")
    /\ UNCHANGED <<remote, files, memory, ver, todo, item, got, asm, rescue, crashes, history>>

\* LoadFile finds an assembly in memory or a whole file at the path.
CanLoad(n) ==
    IF asm[n] = Default THEN code[Default] # NotLoaded \/ target[Dll] \in Whole
                        ELSE Dll \in have[n]
Loaded(n) ==
    IF code[asm[n]] # NotLoaded THEN code[asm[n]]
    ELSE IF asm[n] = Default THEN target[Dll] ELSE got[n][Dll]

\* Start loads AppleTvLiar.dll for the DNS service.
StartDns ==
    /\ pc[Start] = "dns"
    /\ IF CanLoad(Start)
       THEN /\ code' = [code EXCEPT ![Default] = Loaded(Start)]
            /\ calc' = Dns
            /\ Go(Start, "load")
       ELSE /\ Go(Start, "failed")
            /\ UNCHANGED <<code, calc>>
    /\ UNCHANGED <<remote, files, listener, host, work, asm, rescue, crashes, history>>

-----------------------------------------------------------------------------
(* CheckUpadate *)

\* A tick, with the first number that is free: the remote description is read.
ReadRemote(n) ==
    /\ Up /\ pc[n] = "free"
    /\ \A m \in Updates : m < n => pc[m] # "free"
    /\ ver' = [ver EXCEPT ![n] = remote]
    /\ todo' = [todo EXCEPT ![n] = IF remote = 0 THEN {} ELSE Changed(remote)]
    /\ Go(n, "decide")
    /\ UNCHANGED <<remote, files, memory, item, have, got, asm, rescue, crashes, history>>

\* The local description is opened for writing, compared and closed.  Every
\* exception means that there is no update.
CompareVersions(n) ==
    /\ pc[n] = "decide"
    /\ IF Locked \/ recorded = Torn \/ recorded = ver[n]
       THEN Go(n, "free") /\ Forget({n})
       ELSE Go(n, "truncate") /\ UNCHANGED work
    /\ UNCHANGED <<remote, files, memory, asm, rescue, crashes, history>>

\* It is opened again and truncated ...
Truncate(n) ==
    /\ pc[n] = "truncate"
    /\ IF Locked
       THEN /\ Go(n, "free") /\ Forget({n})
            /\ UNCHANGED <<recorded, history>>
       ELSE LET alone == ~\E o \in Actors \ {n} : Busy(o) IN
            /\ recorded' = 0
            /\ causes' = IF alone THEN {} ELSE {"overlap"}
            /\ raced' = (raced \/ ~alone)
            /\ Go(n, "write")
            /\ UNCHANGED <<work, broken, lost>>
    /\ UNCHANGED <<remote, target, memory, asm, rescue, crashes>>

\* ... and written, before anything of the version is fetched.
RecordVersion(n) ==
    /\ pc[n] = "write"
    /\ recorded' = ver[n]
    /\ Go(n, "dispose")
    /\ UNCHANGED <<remote, target, memory, work, asm, rescue, crashes, history>>

-----------------------------------------------------------------------------
(* StartService, by Start and by every update *)

\* An exception leaves StartService, StartUpdate or Dispose: Start logs it, an
\* update goes to its catch block, and from there it ends the process.
Thrown(n) ==
    IF n # Start /\ rescue[n] THEN ProcessEnds
    ELSE /\ Go(n, IF n = Start THEN "failed" ELSE "load")
         /\ rescue' = [rescue EXCEPT ![n] = (n # Start)]
         /\ asm' = [asm EXCEPT ![n] = Default]
         /\ causes' = causes \cup {"exception"}
         /\ UNCHANGED <<remote, files, work, broken, raced, lost>>

LoadAssembly(n) ==
    /\ pc[n] = "load"
    /\ IF CanLoad(n)
       THEN /\ code' = [code EXCEPT ![asm[n]] = Loaded(n)]
            /\ calc' = asm[n]
            /\ Go(n, "host")
            /\ UNCHANGED <<remote, files, work, asm, rescue, listener, host, history>>
       ELSE /\ Thrown(n)
            /\ (n = Start \/ ~rescue[n]) => UNCHANGED memory
    /\ UNCHANGED crashes

NewHost(n) ==
    /\ pc[n] = "host"
    /\ listener' = [listener EXCEPT ![asm[n]] = <<n, rescue[n]>>]
    /\ host' = [host EXCEPT ![<<n, rescue[n]>>] = "created"]
    /\ Go(n, "open")
    /\ lost' = FALSE
    /\ UNCHANGED <<remote, files, calc, code, work, asm, rescue, crashes, broken, causes, raced>>

Finish(n) ==
    /\ Go(n, "done")
    /\ Forget({n})
    /\ UNCHANGED <<remote, files, calc, code, asm, rescue, broken, causes, raced>>

\* FixEndpoints and Open on whatever the static field now holds.  Either may
\* fail: the field is null, there is no network to take an address from, the
\* host was opened or closed before, or the address is in use by another host
\* or another program.  Only a host that was refused the address is faulted.
OpenHost(n) ==
    LET h == listener[asm[n]]
        ready == h # NoHost /\ host[h] = "created"
    IN
    /\ pc[n] = "open"
    /\ \/ /\ ready /\ Opened = {}
          /\ host' = [host EXCEPT ![h] = "opened"]
          /\ Finish(n) /\ UNCHANGED lost
       \/ /\ \/ UNCHANGED host
             \/ ready /\ host' = [host EXCEPT ![h] = "faulted"]
          /\ Go(n, "close")
          /\ lost' = (lost \/ (ready /\ Opened = {}))
          /\ UNCHANGED <<remote, files, calc, code, work, asm, rescue, broken, causes, raced>>
    /\ UNCHANGED <<listener, crashes>>

\* The catch of Init calls Close: it ends any host, but it throws for a
\* faulted one, and for an open one that is still serving after the timeout.
CloseHost(n) ==
    LET h == listener[asm[n]]
        closed == [host EXCEPT ![h] = "closed"]
    IN
    /\ pc[n] = "close"
    /\ \/ /\ h = NoHost
          /\ Finish(n) /\ UNCHANGED <<listener, host, lost>>
       \/ /\ h # NoHost /\ host[h] # "faulted"
          /\ host' = closed
          /\ listener' = [listener EXCEPT ![asm[n]] = NoHost]
          /\ Finish(n) /\ UNCHANGED lost
       \/ /\ h # NoHost /\ host[h] \in {"opened", "faulted"}
          /\ Thrown(n)
          /\ (n = Start \/ ~rescue[n]) =>
                host' = closed /\ UNCHANGED <<calc, code, listener>>
    /\ UNCHANGED crashes

-----------------------------------------------------------------------------
(* Callback and StartUpdate *)

\* Mutant of Dispose: the running web service is not closed.
DisposeNothing(n) ==
    /\ pc[n] = "dispose"
    /\ calc' = NoInstance
    /\ Go(n, "next")
    /\ UNCHANGED <<remote, files, code, listener, host, work, asm, rescue, crashes, history>>

\* calcInstance.Dispose(): the DNS service throws; Close takes up to thirty
\* seconds and throws TimeoutException when a request is still served then,
\* and it throws for a faulted host, which it only aborts.
Dispose(n) ==
    /\ pc[n] = "dispose"
    /\ \/ /\ calc = NoInstance
          /\ Go(n, "next")
          /\ UNCHANGED <<remote, files, memory, work, asm, rescue, history>>
       \/ /\ calc = Dns
          /\ Thrown(n) /\ UNCHANGED memory
       \/ /\ calc \in Actors /\ listener[calc] # NoHost
          /\ host' = [host EXCEPT ![listener[calc]] = "closed"]
          /\ UNCHANGED <<calc, code, listener>>
          /\ \/ /\ host[listener[calc]] # "faulted"
                /\ asm' = [asm EXCEPT ![n] = calc]
                /\ Go(n, "clear")
                /\ UNCHANGED <<remote, files, work, rescue, history>>
             \/ /\ host[listener[calc]] \in {"opened", "faulted"}
                /\ Thrown(n)
       \/ /\ calc \in Actors /\ listener[calc] = NoHost
          /\ calc' = NoInstance
          /\ Go(n, "next")
          /\ UNCHANGED <<remote, files, code, listener, host, work, asm, rescue, history>>
    /\ UNCHANGED crashes

\* listener = null and calcInstance = null, whatever they hold by now.
ClearListener(n) ==
    /\ pc[n] = "clear"
    /\ listener' = [listener EXCEPT ![asm[n]] = NoHost]
    /\ calc' = NoInstance
    /\ asm' = [asm EXCEPT ![n] = Default]
    /\ Go(n, "next")
    /\ UNCHANGED <<remote, files, code, host, work, rescue, crashes, history>>

\* An exception while one item is replaced: the next item is tried.
Skip(n) ==
    /\ Go(n, "next")
    /\ causes' = causes \cup {"item"}

\* The copy holds what the address serves now, which may be newer than ver[n].
\* It fails with whatever throws before the target is touched.
Download(n) ==
    /\ pc[n] = "next"
    /\ \E i \in todo[n] :
        /\ todo' = [todo EXCEPT ![n] = @ \ {i}]
        /\ \/ /\ item' = [item EXCEPT ![n] = i]
              /\ have' = [have EXCEPT ![n] = @ \cup {i}]
              /\ got' = [got EXCEPT ![n][i] = remote]
              /\ Go(n, "prepare")
              /\ UNCHANGED causes
           \/ /\ Skip(n) /\ UNCHANGED <<item, have, got>>
    /\ UNCHANGED <<remote, files, memory, ver, asm, rescue, crashes, broken, raced, lost>>

\* Mutant of AllReplaced: items may be left over.
AllReplacedEarly(n) ==
    /\ pc[n] = "next"
    /\ Go(n, "load")
    /\ UNCHANGED <<remote, files, memory, work, asm, rescue, crashes, history>>

\* Mutant of AllReplaced: the web service is started only for a new DLL.
AllReplacedNoRestart(n) ==
    /\ pc[n] = "next" /\ todo[n] = {}
    /\ Go(n, IF asm[n] = Default THEN "done" ELSE "load")
    /\ UNCHANGED <<remote, files, memory, work, asm, rescue, crashes, history>>

AllReplaced(n) ==
    /\ pc[n] = "next" /\ todo[n] = {}
    /\ Go(n, "load")
    /\ UNCHANGED <<remote, files, memory, work, asm, rescue, crashes, history>>

\* A target that does not exist is created empty, to have something to move;
\* File.Create empties a file that another update has put there meanwhile.
PrepareTarget(n) ==
    /\ pc[n] = "prepare"
    /\ Go(n, IF target[item[n]] = Missing THEN "create" ELSE "move")
    /\ UNCHANGED <<remote, files, memory, work, asm, rescue, crashes, history>>

CreateTarget(n) ==
    /\ pc[n] = "create"
    /\ \/ /\ target' = [target EXCEPT ![item[n]] = Blank]
          /\ Go(n, "move")
          /\ UNCHANGED causes
       \/ Skip(n) /\ UNCHANGED target
    /\ UNCHANGED <<remote, recorded, memory, work, asm, rescue, crashes, broken, raced, lost>>

\* File.Move into Updates/Removes.  It fails when another update took the
\* target, CleanUpdates deletes the directory, or the system refuses it.
MoveTarget(n) ==
    LET i == item[n] IN
    /\ pc[n] = "move"
    /\ \/ /\ target[i] # Missing
          /\ target' = [target EXCEPT ![i] = Missing]
          /\ asm' = IF i = Dll THEN [asm EXCEPT ![n] = n] ELSE asm
          /\ Go(n, "copy")
          /\ UNCHANGED <<causes, broken>>
       \/ /\ Skip(n)
          /\ broken' = IF target[i] = Blank THEN broken \cup {i} ELSE broken
          /\ UNCHANGED <<target, asm>>
    /\ UNCHANGED <<remote, recorded, memory, work, rescue, crashes, raced, lost>>

\* Mutant of CopyTarget: the DLL, loaded from its download, is not copied.
CopyTargetNotDll(n) ==
    LET i == item[n] IN
    /\ pc[n] = "copy"
    /\ IF target[i] = Missing /\ i # Dll
       THEN target' = [target EXCEPT ![i] = got[n][i]] ELSE UNCHANGED target
    /\ Go(n, "next")
    /\ UNCHANGED <<remote, recorded, memory, work, asm, rescue, crashes, history>>

\* File.Copy without overwrite, after the target was moved away.  It fails
\* when another update has put a file there; when the copy was deleted or the
\* system refuses it, nothing takes the target's place.
CopyTarget(n) ==
    LET i == item[n] IN
    /\ pc[n] = "copy"
    /\ \/ /\ target[i] = Missing /\ i \in have[n]
          /\ target' = [target EXCEPT ![i] = got[n][i]]
          /\ broken' = broken \ {i}
          /\ Go(n, "next")
          /\ UNCHANGED causes
       \/ /\ Skip(n)
          /\ broken' = IF target[i] = Missing THEN broken \cup {i} ELSE broken
          /\ UNCHANGED target
    /\ UNCHANGED <<remote, recorded, memory, work, asm, rescue, crashes, raced, lost>>

-----------------------------------------------------------------------------
StartStep == StartTimer \/ CleanUpdates \/ StartDns
StartService(n) == LoadAssembly(n) \/ NewHost(n) \/ OpenHost(n) \/ CloseHost(n)
CheckUpadate(n) == ReadRemote(n) \/ CompareVersions(n) \/ Truncate(n) \/ RecordVersion(n)
StartUpdate(n) == Download(n) \/ AllReplaced(n) \/ PrepareTarget(n)
                    \/ CreateTarget(n) \/ MoveTarget(n) \/ CopyTarget(n)
Callback(n) == CheckUpadate(n) \/ Dispose(n) \/ ClearListener(n) \/ StartUpdate(n)

Next ==
    \/ Publish \/ Crash \/ HostFaults \/ StartStep
    \/ \E n \in Actors : StartService(n)
    \/ \E n \in Updates : Callback(n)

Spec == Init /\ [][Next]_vars

\* What the ticks do to the recorded version: an update that has recorded it
\* is at its files, and a number that is used up stays there.
InCheck(n) == pc[n] \in CheckPcs \cup {"write"}
CheckPc    == [n \in Updates |-> IF InCheck(n) THEN pc[n] ELSE "update"]
CheckVer   == [n \in Updates |-> IF InCheck(n) THEN ver[n] ELSE 0]
Check == INSTANCE UpdateCheck WITH Ticks <- Updates, up <- Up, pc <- CheckPc, ver <- CheckVer

-----------------------------------------------------------------------------
(* Properties *)

\* Every variable keeps its type.
TypeOK ==
    /\ remote \in Whole /\ recorded \in Whole \cup {Torn}
    /\ target \in [Items -> Whole \cup {Missing, Blank}]
    /\ calc \in Actors \cup {Dns, NoInstance}
    /\ code \in [Actors -> Whole \cup {NotLoaded}]
    /\ listener \in [Actors -> Hosts \cup {NoHost}]
    /\ host \in [Hosts -> {"none", "created", "opened", "faulted", "closed"}]
    /\ pc \in [Actors -> CheckPcs \cup BusyPcs \cup {"down", "clean", "dns", "done", "failed"}]
    /\ ver \in [Updates -> Whole]
    /\ todo \in [Updates -> SUBSET Items]
    /\ item \in [Updates -> Items]
    /\ have \in [Updates -> SUBSET Items]
    /\ got \in [Updates -> [Items -> Whole]]
    /\ asm \in [Actors -> Actors]
    /\ rescue \in [Actors -> BOOLEAN]
    /\ crashes \in 0 .. MaxCrashes
    /\ broken \subseteq Items
    /\ causes \subseteq {"overlap", "item", "exception", "crash"}
    /\ raced \in BOOLEAN /\ lost \in BOOLEAN

Replacing(i) == {n \in Updates : pc[n] \in {"move", "copy"} /\ item[n] = i}

\* However many updates overlap, the moves and copies that only hinder each
\* other leave a whole file behind: a target that is missing or empty is being
\* replaced at this moment, or a crash took it, or a copy or a move the system
\* or CleanUpdates refused, and no update has put it in place since.
TargetWhole ==
    \A i \in Items : target[i] \notin Whole => i \in broken \/ Replacing(i) # {}

Quiet == Up /\ \A n \in Actors : ~Busy(n)

\* The version is recorded before it is fetched, so nothing ever repeats an
\* update.  When all is quiet the recorded version is in place (or something
\* newer) on the disk, unless an item failed, an exception sent Callback to its
\* catch block, the process died or updates overlapped; and nothing older is
\* listening, unless two of Start and the updates were busy together before.
RecordedIsApplied ==
    Quiet /\ recorded \in Versions /\ causes = {} =>
        /\ \A i \in Changed(recorded) : target[i] >= recorded
        /\ Dll \in Changed(recorded) /\ ~raced =>
            \A a \in Actors : listener[a] \in Opened => code[a] >= recorded

\* When all is quiet after a good start, one web service listens and it is the
\* one calcInstance refers to, so that the next update can close it; or the
\* system kept it from listening: then none does, none is left behind, and
\* calcInstance is there to be replaced.  Only two of Start and the updates
\* busy together can do worse.
QuietMeansListening ==
    Quiet /\ pc[Start] = "done" /\ ~raced =>
        /\ calc \in Actors
        /\ Opened = IF lost THEN {} ELSE {listener[calc]}

\* No exception ends the process but after such a race, when AppleTvLiar.dll
\* was not whole, or when the system kept the web service from listening.
FatalHasCause ==
    [][Up /\ ~Up' /\ crashes' = crashes =>
            raced \/ lost \/ target[Dll] \notin Whole]_vars
=============================================================================
