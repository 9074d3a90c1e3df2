------------------------ MODULE UpdateService_proofs ------------------------
(***************************************************************************)
(* What is true of the service whatever its versions, files and number of  *)
(* overlapping updates.                                                    *)
(*                                                                         *)
(* The targets.  TargetWhole alone is not inductive: an update that fails  *)
(* to move a missing target gives up, so the target must be missing        *)
(* because somebody else is about to copy it.  HalfReplaced says which of  *)
(* the two it is: a missing target has an update at its copy, an empty one *)
(* an update at its move.                                                  *)
(*                                                                         *)
(* The web service.  As long as no two of Start and the updates were busy  *)
(* together, one of them at most is, and Orderly says what every point of  *)
(* its program has left open and loaded; from it follow what listens when  *)
(* all is quiet and when an exception can be fatal.                        *)
(*                                                                         *)
(* The record.  While nothing has gone wrong with the recorded version,    *)
(* Applied says of each item it changed whether it is still to be done, in *)
(* the hands of the update or in place, and of the assembly that listens   *)
(* that it is as new as the record.                                        *)
(***************************************************************************)
EXTENDS UpdateService, TLAPS

Pcs == CheckPcs \cup BusyPcs \cup {"down", "clean", "dns", "done", "failed"}

USE UpdateAssumption DEF UpdateAssumption

\* Start is an actor that is no update, and no version is Missing or Blank.
LEMMA ActorFacts ==
    /\ Start \in Actors /\ Updates \subseteq Actors /\ Start \notin Updates
    /\ 0 \in Whole /\ Versions \subseteq Whole /\ Whole \subseteq Nat
    /\ Missing \notin Whole /\ Blank \notin Whole /\ Missing # Blank
    /\ Dll \in Items
BY DEF Actors, Start, Updates, Whole, Versions, Missing, Blank

\* The default assembly, the hosts and the empty download have their types.
LEMMA ConstantFacts ==
    /\ Whole = 0 .. MaxVersion /\ 0 \in Whole /\ MaxVersion \in Nat
    /\ Updates \subseteq Actors /\ Start \in Actors /\ Default \in Actors /\ Start \notin Updates
    /\ Actors = {Start} \cup Updates
    /\ \A n \in Actors, r \in BOOLEAN : <<n, r>> \in Hosts
    /\ NoHost \notin Hosts
    /\ NothingGot \in [Items -> Whole]
<1>1. Whole = 0 .. MaxVersion /\ 0 \in Whole /\ MaxVersion \in Nat
  BY DEF Whole
<1>2. Actors = {Start} \cup Updates /\ Default \in Actors /\ Start \notin Updates
  BY DEF Actors, Start, Default, Updates
<1>3. \A n \in Actors, r \in BOOLEAN : <<n, r>> \in Hosts
  BY DEF Hosts
<1>4. -1 \notin Actors
  BY DEF Actors, Start, Updates
<1>5. NoHost \notin Hosts
  BY <1>4 DEF Hosts, NoHost
<1>6. NothingGot \in [Items -> Whole]
  BY <1>1 DEF NothingGot
<1> QED BY <1>1, <1>2, <1>3, <1>5, <1>6

-----------------------------------------------------------------------------
(* Types *)

\* TypeOK, variable by variable.
HostStates  == {"none", "created", "opened", "faulted", "closed"}
TypeFiles   == /\ remote \in Whole /\ recorded \in Whole \cup {Torn}
               /\ target \in [Items -> Whole \cup {Missing, Blank}]
TypeMemory  == /\ calc \in Actors \cup {Dns, NoInstance}
               /\ code \in [Actors -> Whole \cup {NotLoaded}]
               /\ listener \in [Actors -> Hosts \cup {NoHost}]
               /\ host \in [Hosts -> HostStates]
TypeControl == /\ pc \in [Actors -> Pcs]
               /\ asm \in [Actors -> Actors]
               /\ rescue \in [Actors -> BOOLEAN]
TypeWork    == /\ ver \in [Updates -> Whole]
               /\ todo \in [Updates -> SUBSET Items]
               /\ item \in [Updates -> Items]
               /\ have \in [Updates -> SUBSET Items]
               /\ got \in [Updates -> [Items -> Whole]]
TypeHistory == /\ crashes \in 0 .. MaxCrashes
               /\ broken \subseteq Items
               /\ causes \subseteq {"overlap", "item", "exception", "crash"}
               /\ raced \in BOOLEAN /\ lost \in BOOLEAN
Typed == TypeFiles /\ TypeMemory /\ TypeControl /\ TypeWork /\ TypeHistory

\* The parts are TypeOK.
LEMMA TypeParts == Typed => TypeOK
BY DEF TypeOK, Typed, TypeFiles, TypeMemory, TypeControl, TypeWork, TypeHistory, HostStates, Pcs

\* The installed program has its types.
LEMMA InitType == Init => Typed
<1> SUFFICES ASSUME Init PROVE Typed
  OBVIOUS
<1> USE ConstantFacts DEF Init
<1>0. TypeFiles
  BY DEF TypeFiles
<1>1. TypeHistory
  <2>1. crashes = 0 /\ broken = {} /\ causes = {} /\ raced = FALSE /\ lost = FALSE
    OBVIOUS
  <2>2. crashes \in 0 .. MaxCrashes
    BY <2>1
  <2>3. raced \in BOOLEAN /\ lost \in BOOLEAN
    BY <2>1
  <2> QED BY <2>1, <2>2, <2>3 DEF TypeHistory
<1>2. pc \in [Actors -> Pcs]
  BY DEF Pcs, CheckPcs
<1>3. calc \in Actors \cup {Dns, NoInstance} /\ code \in [Actors -> Whole \cup {NotLoaded}]
  OBVIOUS
<1>4. listener \in [Actors -> Hosts \cup {NoHost}] /\ host \in [Hosts -> HostStates]
  BY DEF HostStates
<1>5. TypeWork
  BY DEF TypeWork
<1>6. asm \in [Actors -> Actors] /\ rescue \in [Actors -> BOOLEAN]
  OBVIOUS
<1> QED BY <1>0, <1>1, <1>2, <1>3, <1>4, <1>5, <1>6 DEF Typed, TypeMemory, TypeControl

\* An update that ends leaves no download of the wrong type.
LEMMA ForgetType == ASSUME TypeWork, NEW N, Forget(N) PROVE TypeWork'
BY ConstantFacts DEF TypeWork, Forget

\* An actor moves to a place of its program.
LEMMA GoType == ASSUME NEW n \in Actors, NEW p \in Pcs, pc \in [Actors -> Pcs], Go(n, p)
                PROVE  pc' \in [Actors -> Pcs]
BY DEF Go

\* What the end of the process leaves has its type.
LEMMA EndsType == ASSUME Typed, ProcessEnds, crashes' \in 0 .. MaxCrashes PROVE Typed'
<1> USE ConstantFacts DEF ProcessEnds
<1>1. TypeFiles'
  BY DEF Typed, TypeFiles
<1>0. TypeHistory'
  BY DEF Typed, TypeHistory
<1>2. pc' \in [Actors -> Pcs]
  BY DEF Typed, TypeControl, Pcs, CheckPcs
<1>3. calc' \in Actors \cup {Dns, NoInstance} /\ code' \in [Actors -> Whole \cup {NotLoaded}]
  OBVIOUS
<1>4. listener' \in [Actors -> Hosts \cup {NoHost}] /\ host' \in [Hosts -> HostStates]
  BY DEF HostStates
<1>5. TypeWork'
  BY ForgetType DEF Typed
<1>6. asm' \in [Actors -> Actors] /\ rescue' \in [Actors -> BOOLEAN]
  OBVIOUS
<1> QED BY <1>0, <1>1, <1>2, <1>3, <1>4, <1>5, <1>6 DEF Typed, TypeMemory, TypeControl

\* So has what an exception leaves, if the step before it kept the memory typed.
LEMMA ThrownType ==
    ASSUME Typed, NEW n \in Actors, Thrown(n), UNCHANGED crashes,
           (n = Start \/ ~rescue[n]) => TypeMemory'
    PROVE  Typed'
<1>1. CASE n # Start /\ rescue[n]
  BY <1>1, EndsType DEF Thrown, Typed, TypeHistory
<1>2. CASE ~(n # Start /\ rescue[n])
  <2>1. TypeMemory'
    BY <1>2
  <2>2. UNCHANGED <<remote, recorded, target, ver, todo, item, have, got, broken, raced, lost, crashes>>
        /\ causes' = causes \cup {"exception"}
    BY <1>2 DEF Thrown, files, work
  <2>3. TypeFiles' /\ TypeWork' /\ TypeHistory'
    BY <2>2 DEF Typed, TypeFiles, TypeWork, TypeHistory
  <2>4. PICK p \in {"failed", "load"} : Go(n, p)
    BY <1>2 DEF Thrown
  <2>5. TypeControl'
    BY <1>2, <2>4, GoType, ConstantFacts DEF Thrown, Typed, TypeControl, Pcs, BusyPcs
  <2> QED BY <2>1, <2>3, <2>5 DEF Typed
<1> QED BY <1>1, <1>2

\* CleanUpdates and the loading of the DNS service keep every type.
LEMMA StartType == ASSUME Typed, asm[Start] = Default, StartStep PROVE Typed'
<1>1. CASE StartTimer
  <2>1. Go(Start, "clean") /\ UNCHANGED <<files, remote, memory, work, asm, rescue, crashes, history>>
    BY <1>1 DEF StartTimer
  <2> QED BY <2>1, GoType, ConstantFacts DEF Typed, TypeFiles, TypeMemory, TypeControl, TypeWork, TypeHistory,
             files, memory, work, history, Pcs
<1>2. CASE CleanUpdates
  <2>1. Go(Start, "dns") /\ UNCHANGED <<files, remote, memory, ver, todo, item, got, asm, rescue, crashes, history>>
    BY <1>2 DEF CleanUpdates
  <2>2. have' \in [Updates -> SUBSET Items]
    BY <1>2 DEF CleanUpdates, Typed, TypeWork
  <2> QED BY <2>1, <2>2, GoType, ConstantFacts DEF Typed, TypeFiles, TypeMemory, TypeControl, TypeWork, TypeHistory,
             files, memory, history, Pcs
<1>3. CASE StartDns
  <2>1. UNCHANGED <<files, remote, listener, host, work, asm, rescue, crashes, history>>
    BY <1>3 DEF StartDns
  <2>2. PICK p \in {"load", "failed"} : Go(Start, p)
    BY <1>3 DEF StartDns
  <2>3. /\ code' \in [Actors -> Whole \cup {NotLoaded}]
        /\ calc' \in Actors \cup {Dns, NoInstance}
    <3>1. CASE CanLoad(Start)
      <4>1. Loaded(Start) \in Whole
        BY <3>1, ConstantFacts DEF CanLoad, Loaded, Typed, TypeMemory
      <4> QED BY <1>3, <3>1, <4>1, ConstantFacts DEF StartDns, Typed, TypeMemory
    <3>2. CASE ~CanLoad(Start)
      BY <1>3, <3>2 DEF StartDns, Typed, TypeMemory
    <3> QED BY <3>1, <3>2
  <2> QED BY <2>1, <2>2, <2>3, GoType, ConstantFacts DEF Typed, TypeFiles, TypeMemory, TypeControl, TypeWork,
             TypeHistory, files, work, history, Pcs, BusyPcs
<1> QED BY <1>1, <1>2, <1>3 DEF StartStep

\* StartService loads a whole version and hosts it under a host of its own.
LEMMA ServiceType == ASSUME Typed, NEW n \in Actors, asm[Start] = Default, StartService(n) PROVE Typed'
<1>1. CASE LoadAssembly(n)
  <2>1. CASE CanLoad(n)
    <3>1. Go(n, "host") /\ UNCHANGED <<remote, files, work, asm, rescue, listener, host, history, crashes>>
          /\ code' = [code EXCEPT ![asm[n]] = Loaded(n)] /\ calc' = asm[n]
      BY <1>1, <2>1 DEF LoadAssembly
    <3>2. Loaded(n) \in Whole
      <4>1. CASE asm[n] = Default
        BY <2>1, <4>1, ConstantFacts DEF CanLoad, Loaded, Typed, TypeMemory, TypeFiles
      <4>2. CASE asm[n] # Default
        <5>1. n \in Updates /\ asm[n] \in Actors
          BY <4>2, ConstantFacts DEF Typed, TypeControl
        <5>2. got[n][Dll] \in Whole /\ code[asm[n]] \in Whole \cup {NotLoaded}
          BY <5>1 DEF Typed, TypeWork, TypeMemory
        <5> QED BY <4>2, <5>2 DEF Loaded
      <4> QED BY <4>1, <4>2
    <3>3. TypeMemory'
      BY <3>1, <3>2 DEF Typed, TypeMemory, TypeControl
    <3> QED BY <3>1, <3>3, GoType DEF Typed, TypeFiles, TypeControl, TypeWork,
             TypeHistory, files, work, history, Pcs, BusyPcs
  <2>2. CASE ~CanLoad(n)
    <3>1. Thrown(n) /\ ((n = Start \/ ~rescue[n]) => UNCHANGED memory) /\ UNCHANGED crashes
      BY <1>1, <2>2 DEF LoadAssembly
    <3> QED BY <3>1, ThrownType DEF Typed, TypeMemory, memory
  <2> QED BY <2>1, <2>2
<1>2. CASE NewHost(n)
  <2>1. Go(n, "open") /\ UNCHANGED <<remote, files, calc, code, work, asm, rescue, crashes, broken, causes, raced>>
        /\ listener' = [listener EXCEPT ![asm[n]] = <<n, rescue[n]>>]
        /\ host' = [host EXCEPT ![<<n, rescue[n]>>] = "created"] /\ lost' = FALSE
    BY <1>2 DEF NewHost
  <2>2. <<n, rescue[n]>> \in Hosts
    BY ConstantFacts DEF Typed, TypeControl
  <2>3. TypeMemory'
    BY <2>1, <2>2 DEF Typed, TypeMemory, HostStates
  <2> QED BY <2>1, <2>3, GoType DEF Typed, TypeFiles, TypeControl, TypeWork,
             TypeHistory, files, work, Pcs, BusyPcs
<1>3. CASE OpenHost(n)
  <2> DEFINE h == listener[asm[n]]
  <2>0. h \in Hosts \cup {NoHost}
    BY DEF Typed, TypeControl, TypeMemory
  <2>1. /\ UNCHANGED <<remote, files, calc, code, asm, rescue, broken, causes, raced, listener, crashes>>
        /\ lost' \in BOOLEAN
    BY <1>3 DEF OpenHost, Finish, Typed, TypeHistory
  <2>2. (\E p \in {"done", "close"} : Go(n, p)) /\ (Forget({n}) \/ UNCHANGED work)
    BY <1>3 DEF OpenHost, Finish
  <2>3. UNCHANGED host \/ (h \in Hosts /\ \E st \in HostStates : host' = [host EXCEPT ![h] = st])
    BY <1>3, <2>0 DEF OpenHost, HostStates
  <2>4. TypeMemory'
    BY <2>0, <2>1, <2>3 DEF Typed, TypeMemory
  <2>5. TypeWork'
    BY <2>2, ForgetType DEF Typed, TypeWork, work
  <2> QED BY <2>1, <2>2, <2>4, <2>5, GoType DEF Typed, TypeFiles, TypeControl, TypeHistory, files, Pcs, BusyPcs
<1>4. CASE CloseHost(n)
  <2> DEFINE h == listener[asm[n]]
  <2>0. h \in Hosts \cup {NoHost}
    BY DEF Typed, TypeControl, TypeMemory
  <2>1. CASE /\ Finish(n) /\ UNCHANGED lost
             /\ \/ UNCHANGED <<listener, host>>
                \/ /\ h # NoHost
                   /\ host' = [host EXCEPT ![h] = "closed"]
                   /\ listener' = [listener EXCEPT ![asm[n]] = NoHost]
    <3>1. Go(n, "done") /\ Forget({n})
          /\ UNCHANGED <<remote, files, calc, code, asm, rescue, broken, causes, raced, lost, crashes>>
      BY <1>4, <2>1 DEF CloseHost, Finish
    <3>2. \/ UNCHANGED <<listener, host>>
          \/ listener' = [listener EXCEPT ![asm[n]] = NoHost] /\ h \in Hosts /\ host' = [host EXCEPT ![h] = "closed"]
      BY <2>0, <2>1
    <3>3. TypeMemory'
      BY <2>0, <3>1, <3>2 DEF Typed, TypeMemory, HostStates
    <3>4. TypeWork'
      BY <3>1, ForgetType DEF Typed
    <3> QED BY <3>1, <3>3, <3>4, GoType DEF Typed, TypeFiles, TypeControl, TypeHistory, files, Pcs
  <2>2. CASE Thrown(n) /\ ((n = Start \/ ~rescue[n]) =>
                host' = [host EXCEPT ![h] = "closed"] /\ UNCHANGED <<calc, code, listener>>)
    <3>1. (n = Start \/ ~rescue[n]) => TypeMemory'
      BY <2>2 DEF Typed, TypeMemory, HostStates
    <3> QED BY <1>4, <2>2, <3>1, ThrownType DEF CloseHost
  <2> QED BY <1>4, <2>1, <2>2 DEF CloseHost
<1> QED BY <1>1, <1>2, <1>3, <1>4 DEF StartService

\* CheckUpadate reads, compares and records versions.
LEMMA CheckType == ASSUME Typed, NEW n \in Updates, CheckUpadate(n) PROVE Typed'
<1> USE DEF Typed
<1>0. n \in Actors
  BY ConstantFacts
<1>1. CASE ReadRemote(n)
  <2>1. Go(n, "decide") /\ UNCHANGED <<remote, files, memory, item, have, got, asm, rescue, crashes, history>>
        /\ ver' = [ver EXCEPT ![n] = remote]
        /\ todo' = [todo EXCEPT ![n] = IF remote = 0 THEN {} ELSE Changed(remote)]
    BY <1>1 DEF ReadRemote
  <2>2. (IF remote = 0 THEN {} ELSE Changed(remote)) \in SUBSET Items
    BY DEF TypeFiles, Whole, Versions
  <2>3. TypeWork'
    BY <2>1, <2>2 DEF TypeWork, TypeFiles
  <2> QED BY <1>0, <2>1, <2>3, GoType DEF TypeFiles, TypeMemory, TypeControl,
            TypeHistory, files, memory, history, Pcs, CheckPcs
<1>2. CASE CompareVersions(n)
  <2>1. UNCHANGED <<remote, files, memory, asm, rescue, crashes, history>>
    BY <1>2 DEF CompareVersions
  <2>2. (\E p \in {"free", "truncate"} : Go(n, p)) /\ (Forget({n}) \/ UNCHANGED work)
    BY <1>2 DEF CompareVersions
  <2>3. TypeWork'
    BY <2>2, ForgetType DEF TypeWork, work
  <2> QED BY <1>0, <2>1, <2>2, <2>3, GoType DEF TypeFiles, TypeMemory, TypeControl,
            TypeHistory, files, memory, history, Pcs, CheckPcs
<1>3. CASE Truncate(n)
  <2>1. UNCHANGED <<remote, target, memory, asm, rescue, crashes, broken, lost>>
        /\ recorded' \in {recorded, 0}
    BY <1>3 DEF Truncate, history
  <2>2. (\E p \in {"free", "write"} : Go(n, p)) /\ (Forget({n}) \/ UNCHANGED work)
    BY <1>3 DEF Truncate
  <2>3. TypeWork' /\ TypeFiles'
    BY <2>1, <2>2, ForgetType, ConstantFacts DEF TypeWork, TypeFiles, work
  <2>4. causes' \in {causes, {}, {"overlap"}} /\ raced' \in BOOLEAN
    BY <1>3 DEF Truncate, TypeHistory, history
  <2>5. TypeHistory'
    BY <2>1, <2>4 DEF TypeHistory
  <2> QED BY <1>0, <2>1, <2>2, <2>3, <2>5, GoType DEF TypeMemory, TypeControl, memory, Pcs, CheckPcs, BusyPcs
<1>4. CASE RecordVersion(n)
  <2>1. UNCHANGED <<remote, target, memory, work, asm, rescue, crashes, history>>
        /\ recorded' = ver[n] /\ Go(n, "dispose")
    BY <1>4 DEF RecordVersion
  <2> QED BY <1>0, <2>1, GoType DEF TypeFiles, TypeMemory, TypeControl, TypeWork,
            TypeHistory, memory, history, work, Pcs, BusyPcs
<1> QED BY <1>1, <1>2, <1>3, <1>4 DEF CheckUpadate

\* Dispose closes an existing host.
LEMMA DisposeType == ASSUME Typed, NEW n \in Updates, Dispose(n) \/ ClearListener(n) PROVE Typed'
<1>0. n \in Actors
  BY ConstantFacts
<1>1. CASE ClearListener(n)
  <2>1. /\ listener' = [listener EXCEPT ![asm[n]] = NoHost]
        /\ calc' = NoInstance
        /\ asm' = [asm EXCEPT ![n] = Default]
        /\ Go(n, "next")
        /\ UNCHANGED <<remote, files, code, host, work, rescue, crashes, history>>
    BY <1>1 DEF ClearListener
  <2>2. TypeMemory'
    BY <2>1 DEF Typed, TypeMemory
  <2> QED BY <1>0, <2>1, <2>2, GoType, ConstantFacts DEF Typed, TypeFiles, TypeControl, TypeWork,
            TypeHistory, files, history, work, Pcs, BusyPcs
<1>2. CASE Dispose(n) /\ Thrown(n)
  <2>1. UNCHANGED memory \/ (calc \in Actors /\ listener[calc] # NoHost /\ UNCHANGED <<calc, code, listener>>
            /\ host' = [host EXCEPT ![listener[calc]] = "closed"]) \/ (pc'[n] = "next")
    BY <1>0, <1>2 DEF Dispose, Go, Typed, TypeControl, memory
  <2>2. pc'[n] # "next"
    BY <1>0, <1>2 DEF Dispose, Thrown, ProcessEnds, Go, Typed, TypeControl, CheckPcs
  <2>3. TypeMemory'
    BY <2>1, <2>2 DEF Typed, TypeMemory, memory, HostStates
  <2> QED BY <1>0, <1>2, <2>3, ThrownType DEF Dispose
<1>3. CASE Dispose(n) /\ ~Thrown(n)
  <2>1. UNCHANGED <<remote, files, work, rescue, crashes, history>> /\ code' = code /\ listener' = listener
    BY <1>3 DEF Dispose, memory
  <2>2. \/ UNCHANGED host
        \/ calc \in Actors /\ listener[calc] # NoHost /\ host' = [host EXCEPT ![listener[calc]] = "closed"]
    BY <1>3 DEF Dispose, memory
  <2>3. calc' \in {calc, NoInstance} /\ (asm' = asm \/ (calc \in Actors /\ asm' = [asm EXCEPT ![n] = calc]))
    BY <1>3 DEF Dispose, memory
  <2>4. TypeMemory'
    BY <2>1, <2>2, <2>3 DEF Typed, TypeMemory, HostStates
  <2>5. \E p \in {"next", "clear"} : Go(n, p)
    BY <1>3 DEF Dispose
  <2>6. pc' \in [Actors -> Pcs]
    BY <1>0, <2>5, GoType DEF Typed, TypeControl, Pcs, BusyPcs
  <2>7. asm' \in [Actors -> Actors] /\ rescue' \in [Actors -> BOOLEAN]
    BY <1>0, <2>1, <2>3 DEF Typed, TypeControl
  <2>8. TypeFiles' /\ TypeWork' /\ TypeHistory'
    BY <2>1 DEF Typed, TypeFiles, TypeWork, TypeHistory, files, work, history
  <2> QED BY <2>4, <2>6, <2>7, <2>8 DEF Typed, TypeControl
<1> QED BY <1>1, <1>2, <1>3

\* StartUpdate puts a downloaded version, nothing or an empty file in place.
LEMMA ReplaceType == ASSUME Typed, NEW n \in Updates, StartUpdate(n) PROVE Typed'
<1>0. n \in Actors /\ item[n] \in Items /\ todo[n] \subseteq Items
  BY ConstantFacts DEF Typed, TypeWork
<1>1. CASE Download(n)
  <2>1. PICK i \in todo[n] :
        /\ todo' = [todo EXCEPT ![n] = @ \ {i}]
        /\ \/ /\ item' = [item EXCEPT ![n] = i]
              /\ have' = [have EXCEPT ![n] = @ \cup {i}]
              /\ got' = [got EXCEPT ![n][i] = remote]
              /\ Go(n, "prepare")
              /\ UNCHANGED causes
           \/ /\ Skip(n) /\ UNCHANGED <<item, have, got>>
    BY <1>1 DEF Download
  <2>2. UNCHANGED <<remote, files, memory, ver, asm, rescue, crashes, broken, raced, lost>>
    BY <1>1 DEF Download
  <2>3. TypeWork'
    <3>1. got[n] \in [Items -> Whole] /\ remote \in Whole /\ i \in Items
      BY <1>0 DEF Typed, TypeWork, TypeFiles
    <3>2. [got[n] EXCEPT ![i] = remote] \in [Items -> Whole]
      BY <3>1
    <3>3. got' \in [Updates -> [Items -> Whole]]
      BY <2>1, <3>2 DEF Typed, TypeWork
    <3>4. ver' \in [Updates -> Whole] /\ item' \in [Updates -> Items]
      BY <2>1, <2>2, <3>1 DEF Typed, TypeWork
    <3>5. todo[n] \ {i} \in SUBSET Items /\ have[n] \cup {i} \in SUBSET Items
      BY <1>0, <3>1 DEF Typed, TypeWork
    <3>6. todo' \in [Updates -> SUBSET Items] /\ have' \in [Updates -> SUBSET Items]
      BY <2>1, <3>5 DEF Typed, TypeWork
    <3> QED BY <3>3, <3>4, <3>6 DEF TypeWork
  <2>4. (\E p \in {"prepare", "next"} : Go(n, p)) /\ causes' \in {causes, causes \cup {"item"}}
    BY <2>1 DEF Skip
  <2> QED BY <1>0, <2>2, <2>3, <2>4, GoType DEF Typed, TypeFiles, TypeControl, TypeMemory,
            TypeHistory, files, memory, Pcs, BusyPcs, ReplacePcs
<1>2. CASE AllReplaced(n)
  <2>1. Go(n, "load") /\ UNCHANGED <<remote, files, memory, work, asm, rescue, crashes, history>>
    BY <1>2 DEF AllReplaced
  <2> QED BY <1>0, <2>1, GoType DEF Typed, TypeFiles, TypeControl, TypeMemory, TypeWork,
            TypeHistory, files, memory, work, history, Pcs, BusyPcs
<1>3. CASE PrepareTarget(n) \/ CreateTarget(n) \/ MoveTarget(n) \/ CopyTarget(n)
  <2>1. UNCHANGED <<remote, recorded, memory, work, rescue, crashes, raced, lost>>
    BY <1>3 DEF PrepareTarget, CreateTarget, MoveTarget, CopyTarget, files, history
  <2>2. \E p \in {"create", "move", "copy", "next"} : Go(n, p)
    BY <1>3 DEF PrepareTarget, CreateTarget, MoveTarget, CopyTarget, Skip
  <2>3. causes' \in {causes, causes \cup {"item"}}
        /\ broken' \in {broken, broken \cup {item[n]}, broken \ {item[n]}}
    BY <1>3 DEF PrepareTarget, CreateTarget, MoveTarget, CopyTarget, Skip, history
  <2>4. \/ target' = target
        \/ \E f \in Whole \cup {Missing, Blank} : target' = [target EXCEPT ![item[n]] = f]
    BY <1>0, <1>3 DEF PrepareTarget, CreateTarget, MoveTarget, CopyTarget, files, Typed, TypeWork
  <2>5. TypeFiles'
    BY <1>0, <2>1, <2>4 DEF Typed, TypeFiles
  <2>6. asm' = asm \/ asm' = [asm EXCEPT ![n] = n]
    BY <1>3 DEF PrepareTarget, CreateTarget, MoveTarget, CopyTarget
  <2>7. TypeHistory'
    BY <1>0, <2>1, <2>3 DEF Typed, TypeHistory
  <2>8. TypeControl'
    BY <1>0, <2>1, <2>2, <2>6, GoType DEF Typed, TypeControl, Pcs, BusyPcs, ReplacePcs
  <2>9. TypeMemory' /\ TypeWork'
    BY <2>1 DEF Typed, TypeMemory, TypeWork, memory, work
  <2> QED BY <2>5, <2>7, <2>8, <2>9 DEF Typed
<1> QED BY <1>1, <1>2, <1>3 DEF StartUpdate
-----------------------------------------------------------------------------
(* Locals *)

\* At most one of Start and the updates is busy.
Sole == \A m, n \in Actors : Busy(m) /\ Busy(n) => m = n
\* Nothing is loaded and nothing listens.
Clear ==
    /\ calc = NoInstance
    /\ \A a \in Actors : code[a] = NotLoaded /\ listener[a] = NoHost
    /\ Opened = {}
\* One web service listens, the one calcInstance refers to.
Serving == \E h \in Hosts : Opened = {h} /\ calc \in Actors /\ listener[calc] = h
\* From its Dispose to its StartService an update has no web service listening.
DownPcs == {"next", "load", "host", "open", "close", "clear"} \cup ReplacePcs
\* What an update has to replace before it replaced anything.
Todo(n) == IF ver[n] = 0 THEN {} ELSE Changed(ver[n])

\* Start never leaves AppleTvLiar.dll and never comes to a catch block.
StartLocals ==
    /\ pc[Start] \in {"down", "clean", "dns", "load", "host", "open", "close", "done", "failed"}
    /\ asm[Start] = Default /\ ~rescue[Start]
\* What the locals of an update are at each point of its program.
UpdateLocals(n) ==
    /\ pc[n] \in CheckPcs \cup BusyPcs \cup {"done"}
    /\ pc[n] \in CheckPcs \cup {"write", "dispose"} => asm[n] = Default
    /\ pc[n] # "clear" => asm[n] \in {Default, n}
    /\ rescue[n] => pc[n] \in {"load", "host", "open", "close", "done"} /\ asm[n] = Default
    /\ pc[n] \in {"load", "host", "open", "close"} /\ ~rescue[n] => todo[n] = {}
    /\ pc[n] \in {"decide", "truncate", "write", "dispose", "clear"} => todo[n] = Todo(n)
    /\ ver[n] <= remote
    /\ code[n] # NotLoaded => pc[n] \in {"host", "open", "close", "done"} \/ rescue[n]
\* A listener made outside a catch block was made by StartService, of one
\* assembly; once made it is there until somebody clears or replaces it.
OwnHosts ==
    \A a, m \in Actors :
        listener[a] = <<m, FALSE>> =>
            /\ pc[m] \in {"open", "close", "done", "failed"} \/ rescue[m]
            /\ pc[m] = "open" /\ ~rescue[m] => a = asm[m]
\* Callbacks do not outlive the process.
DownQuiet == ~Up => ~raced /\ \A n \in Updates : pc[n] \in {"free", "done"}
Locals == StartLocals /\ (\A n \in Updates : UpdateLocals(n)) /\ OwnHosts /\ DownQuiet

\* A step that changes nothing of an update leaves its locals in order.
LEMMA SameLocals ==
    ASSUME NEW m \in Updates, UpdateLocals(m), Typed, remote' \in Nat, remote <= remote',
           pc'[m] = pc[m], asm'[m] = asm[m], rescue'[m] = rescue[m],
           todo'[m] = todo[m], ver'[m] = ver[m], code'[m] = code[m] \/ code'[m] = NotLoaded
    PROVE  UpdateLocals(m)'
<1>1. ver[m] \in Nat /\ remote \in Nat /\ ver'[m] <= remote'
  BY DEF UpdateLocals, Typed, TypeWork, TypeFiles, Whole
<1>2. Todo(m)' = Todo(m)
  BY DEF Todo
<1> QED BY <1>1, <1>2 DEF UpdateLocals

\* The end of the process leaves all locals in order.
LEMMA EndsLocals == ASSUME Typed, Locals, ProcessEnds PROVE Locals'
<1> USE ConstantFacts
<1>1. StartLocals'
  BY DEF ProcessEnds, StartLocals
<1>2. ASSUME NEW n \in Updates PROVE UpdateLocals(n)'
  <2>1. pc'[n] \in {"free", "done"} /\ asm'[n] = Default /\ rescue'[n] = FALSE /\ code'[n] = NotLoaded
        /\ ver'[n] = 0 /\ remote' = remote
    BY DEF ProcessEnds, Forget
  <2> QED BY <2>1 DEF UpdateLocals, Typed, TypeFiles, Whole, CheckPcs
<1>3. OwnHosts'
  BY DEF OwnHosts, ProcessEnds, Hosts
<1>4. DownQuiet'
  <2>1. raced' = FALSE /\ \A n \in Updates : pc'[n] \in {"free", "done"}
    BY DEF ProcessEnds
  <2> QED BY <2>1 DEF DownQuiet
<1> QED BY <1>1, <1>2, <1>3, <1>4 DEF Locals

\* So does an exception.
LEMMA ThrownLocals ==
    ASSUME Typed, Locals, NEW n \in Actors, Thrown(n), Busy(n), Up,
           (n = Start \/ ~rescue[n]) => code' = code /\ listener' = listener
    PROVE  Locals'
<1> USE ConstantFacts
<1>1. CASE n # Start /\ rescue[n]
  BY <1>1, EndsLocals DEF Thrown
<1>2. CASE ~(n # Start /\ rescue[n])
  <2>1. /\ Go(n, IF n = Start THEN "failed" ELSE "load")
        /\ rescue' = [rescue EXCEPT ![n] = (n # Start)]
        /\ asm' = [asm EXCEPT ![n] = Default]
        /\ UNCHANGED <<remote, files, work, broken, raced, code, listener>>
    BY <1>2 DEF Thrown
  <2>2. pc \in [Actors -> Pcs] /\ asm \in [Actors -> Actors] /\ rescue \in [Actors -> BOOLEAN]
    BY DEF Typed, TypeControl
  <2>3. \A m \in Actors \ {n} : pc'[m] = pc[m] /\ rescue'[m] = rescue[m] /\ asm'[m] = asm[m]
    BY <2>1, <2>2 DEF Go
  <2>4. /\ n = Start => pc'[n] = "failed" /\ ~rescue'[n] /\ asm'[n] = Default
        /\ n # Start => pc'[n] = "load" /\ rescue'[n] /\ asm'[n] = Default
    BY <2>1, <2>2 DEF Go
  <2>5. StartLocals'
    BY <2>3, <2>4 DEF Locals, StartLocals
  <2>6. ASSUME NEW m \in Updates PROVE UpdateLocals(m)'
    <3>1. CASE m # n
      BY <2>1, <2>3, <2>6, <3>1, SameLocals DEF Locals, Typed, TypeFiles, Whole, work
    <3>2. CASE m = n
      <4>1. ver'[n] <= remote'
        BY <2>1, <3>2 DEF Locals, UpdateLocals, work
      <4> QED BY <2>4, <3>2, <4>1 DEF UpdateLocals, BusyPcs, CheckPcs
    <3> QED BY <3>1, <3>2
  <2>7. OwnHosts'
    <3> SUFFICES ASSUME NEW a \in Actors, NEW m \in Actors, listener[a] = <<m, FALSE>>
                 PROVE  /\ pc'[m] \in {"open", "close", "done", "failed"} \/ rescue'[m]
                        /\ pc'[m] = "open" /\ ~rescue'[m] => a = asm'[m]
      BY <2>1 DEF OwnHosts
    <3>1. /\ pc[m] \in {"open", "close", "done", "failed"} \/ rescue[m]
          /\ pc[m] = "open" /\ ~rescue[m] => a = asm[m]
      BY DEF Locals, OwnHosts
    <3>2. CASE m # n
      BY <2>3, <3>1, <3>2
    <3>3. CASE m = n
      BY <2>4, <3>3
    <3> QED BY <3>2, <3>3
  <2>8. DownQuiet'
    BY <2>3, <2>4 DEF DownQuiet, Up
  <2> QED BY <2>5, <2>6, <2>7, <2>8 DEF Locals
<1> QED BY <1>1, <1>2

\* A step of one actor that keeps its own locals in order keeps everybody's.
LEMMA MovedLocals ==
    ASSUME Typed, Locals, NEW n \in Actors, NEW p \in Pcs, Go(n, p), p # "down",
           pc[n] \notin {"open", "close", "done", "failed"} \/ p \in {"close", "done", "failed"}, Up \/ n = Start,
           UNCHANGED <<remote, rescue>>,
           \A a \in Actors : listener'[a] \in {listener[a], NoHost},
           \A m \in Actors \ {n} : asm'[m] = asm[m],
           \A m \in Updates \ {n} : todo'[m] = todo[m] /\ ver'[m] = ver[m] /\ code'[m] = code[m],
           n = Start => StartLocals',
           n # Start => UpdateLocals(n)'
    PROVE  Locals'
<1> USE ConstantFacts
<1>1. pc \in [Actors -> Pcs]
  BY DEF Typed, TypeControl
<1>2. pc'[n] = p /\ \A m \in Actors \ {n} : pc'[m] = pc[m]
  BY <1>1 DEF Go
<1>3. StartLocals'
  BY <1>2 DEF Locals, StartLocals
<1>4. ASSUME NEW m \in Updates PROVE UpdateLocals(m)'
  BY <1>2, <1>4, SameLocals DEF Locals, Typed, TypeFiles, Whole
<1>5. OwnHosts'
  <2> SUFFICES ASSUME NEW a \in Actors, NEW m \in Actors, listener'[a] = <<m, FALSE>>
               PROVE  /\ pc'[m] \in {"open", "close", "done", "failed"} \/ rescue'[m]
                      /\ pc'[m] = "open" /\ ~rescue'[m] => a = asm'[m]
    BY DEF OwnHosts
  <2>0. listener[a] = <<m, FALSE>>
    BY DEF Hosts
  <2>1. /\ pc[m] \in {"open", "close", "done", "failed"} \/ rescue[m]
        /\ pc[m] = "open" /\ ~rescue[m] => a = asm[m]
    BY <2>0 DEF Locals, OwnHosts
  <2>2. CASE m # n
    BY <1>2, <2>1, <2>2
  <2>3. CASE m = n
    BY <1>2, <2>1, <2>3
  <2> QED BY <2>2, <2>3
<1>6. DownQuiet'
  BY <1>2 DEF DownQuiet, Up
<1> QED BY <1>3, <1>4, <1>5, <1>6 DEF Locals

\* An update that is neither to come nor done is an update of this process.
LEMMA AwakeUp == ASSUME Locals, NEW n \in Updates, pc[n] \notin {"free", "done"} PROVE Up
BY DEF Locals, DownQuiet

\* Start keeps the locals in order.
LEMMA StartLocalsStep == ASSUME Typed, Locals, StartStep PROVE Locals'
<1> USE ConstantFacts
<1>0. pc \in [Actors -> Pcs] /\ StartLocals
  BY DEF Typed, TypeControl, Locals
<1>1. pc[Start] \in {"down", "clean", "dns"}
  BY DEF StartStep, StartTimer, CleanUpdates, StartDns, Up
<1>2. PICK p \in {"clean", "dns", "load", "failed"} : Go(Start, p)
  BY DEF StartStep, StartTimer, CleanUpdates, StartDns
<1>3. UNCHANGED <<remote, rescue, asm, todo, ver, listener>>
  BY DEF StartStep, StartTimer, CleanUpdates, StartDns, memory, work
<1>4. \A m \in Updates : code'[m] = code[m]
  BY DEF StartStep, StartTimer, CleanUpdates, StartDns, memory, Typed, TypeMemory, Default, Start
<1>5. StartLocals'
  BY <1>0, <1>2, <1>3 DEF StartLocals, Go
<1> QED BY <1>1, <1>2, <1>3, <1>4, <1>5, MovedLocals DEF Pcs, BusyPcs

\* StartService keeps the locals in order.
LEMMA ServiceLocals == ASSUME Typed, Locals, NEW n \in Actors, StartService(n) PROVE Locals'
<1> USE ConstantFacts
<1>0. /\ pc \in [Actors -> Pcs] /\ asm \in [Actors -> Actors] /\ rescue \in [Actors -> BOOLEAN]
      /\ StartLocals
      /\ n # Start => n \in Updates /\ UpdateLocals(n)
  BY DEF Typed, TypeControl, Locals
<1>a. pc[n] \in {"load", "host", "open", "close"} /\ Busy(n) /\ Up
  BY AwakeUp DEF StartService, LoadAssembly, NewHost, OpenHost, CloseHost, Busy, BusyPcs, Up
<1>b. asm[n] \in {Default, n}
  BY <1>0, <1>a DEF StartLocals, UpdateLocals
<1>1. CASE LoadAssembly(n) /\ ~CanLoad(n)
  BY <1>1, <1>a, ThrownLocals DEF LoadAssembly, memory
<1>2. CASE LoadAssembly(n) /\ CanLoad(n)
  <2>1. Go(n, "host") /\ UNCHANGED <<remote, work, asm, rescue, listener>> /\ pc[n] = "load"
        /\ code' = [code EXCEPT ![asm[n]] = Loaded(n)]
    BY <1>2 DEF LoadAssembly, files
  <2>2. \A m \in Updates \ {n} : code'[m] = code[m]
    BY <1>b, <2>1 DEF Typed, TypeMemory, Default, Updates
  <2>3. pc'[n] = "host"
    BY <1>0, <2>1 DEF Go
  <2>4. n = Start => StartLocals'
    BY <1>0, <2>1, <2>3 DEF StartLocals
  <2>5. n # Start => UpdateLocals(n)'
    BY <1>0, <1>b, <2>1, <2>3 DEF UpdateLocals, work, CheckPcs, BusyPcs
  <2> QED BY <2>1, <2>2, <2>4, <2>5, <1>a, MovedLocals DEF work, Pcs, BusyPcs
<1>3. CASE NewHost(n)
  <2>1. Go(n, "open") /\ UNCHANGED <<remote, code, work, asm, rescue>> /\ pc[n] = "host"
        /\ listener' = [listener EXCEPT ![asm[n]] = <<n, rescue[n]>>]
    BY <1>3 DEF NewHost
  <2>2. pc'[n] = "open" /\ \A m \in Actors \ {n} : pc'[m] = pc[m]
    BY <1>0, <2>1 DEF Go
  <2>3. StartLocals'
    BY <1>0, <2>1, <2>2 DEF StartLocals
  <2>4. ASSUME NEW m \in Updates PROVE UpdateLocals(m)'
    <3>1. CASE m # n
      BY <2>1, <2>2, <3>1, SameLocals DEF Locals, work, Typed, TypeFiles, Whole
    <3>2. CASE m = n
      BY <1>0, <1>b, <2>1, <2>2, <3>2 DEF UpdateLocals, work, CheckPcs, BusyPcs
    <3> QED BY <3>1, <3>2
  <2>5. OwnHosts'
    <3> SUFFICES ASSUME NEW a \in Actors, NEW m \in Actors, listener'[a] = <<m, FALSE>>
                 PROVE  /\ pc'[m] \in {"open", "close", "done", "failed"} \/ rescue'[m]
                        /\ pc'[m] = "open" /\ ~rescue'[m] => a = asm'[m]
      BY DEF OwnHosts
    <3>1. a = asm[n] => m = n /\ ~rescue[n]
      BY <2>1, <1>0 DEF Typed, TypeMemory
    <3>2. a # asm[n] => listener[a] = <<m, FALSE>>
      BY <2>1 DEF Typed, TypeMemory
    <3>3. a # asm[n] => /\ pc[m] \in {"open", "close", "done", "failed"} \/ rescue[m]
                        /\ pc[m] = "open" /\ ~rescue[m] => a = asm[m]
      BY <3>2 DEF Locals, OwnHosts
    <3>4. CASE m # n
      BY <2>1, <2>2, <3>1, <3>3, <3>4
    <3>5. CASE m = n
      BY <2>1, <2>2, <3>1, <3>3, <3>5
    <3> QED BY <3>4, <3>5
  <2>6. DownQuiet'
    BY <2>2, <1>a DEF DownQuiet, Up
  <2> QED BY <2>3, <2>4, <2>5, <2>6 DEF Locals
<1>4. CASE OpenHost(n) /\ Go(n, "close")
  <2>1. UNCHANGED <<remote, code, listener, work, asm, rescue>> /\ pc[n] = "open"
    <3>1. ~Finish(n)
      BY <1>0, <1>4 DEF Finish, Go
    <3> QED BY <1>4, <3>1 DEF OpenHost
  <2>2. pc'[n] = "close"
    BY <1>0, <1>4 DEF Go
  <2>3. n = Start => StartLocals'
    BY <1>0, <2>1, <2>2 DEF StartLocals
  <2>4. n # Start => UpdateLocals(n)'
    BY <1>0, <1>b, <2>1, <2>2 DEF UpdateLocals, work, CheckPcs, BusyPcs
  <2> QED BY <1>4, <2>1, <2>3, <2>4, <1>a, MovedLocals DEF work, Pcs, BusyPcs
<1>5. CASE CloseHost(n) /\ Thrown(n)
  <2>1. pc'[n] # "done"
    BY <1>0, <1>5, <1>a DEF Thrown, ProcessEnds, Go
  <2>2. ~Finish(n)
    BY <1>0, <2>1 DEF Finish, Go
  <2> QED BY <1>5, <1>a, <2>2, ThrownLocals DEF CloseHost
<1>6. CASE (OpenHost(n) \/ (CloseHost(n) /\ ~Thrown(n))) /\ Finish(n)
  <2>1. /\ Go(n, "done") /\ Forget({n}) /\ pc[n] \in {"open", "close"}
        /\ UNCHANGED <<remote, code, asm, rescue>>
    BY <1>6 DEF OpenHost, CloseHost, Finish
  <2>2. \A a \in Actors : listener'[a] \in {listener[a], NoHost}
    BY <1>6, <1>0 DEF OpenHost, CloseHost, Typed, TypeMemory
  <2>3. pc'[n] = "done"
    BY <1>0, <2>1 DEF Go
  <2>4. \A m \in Updates : ver'[m] = (IF m = n THEN 0 ELSE ver[m]) /\ (m # n => todo'[m] = todo[m])
    BY <2>1 DEF Forget
  <2>5. n = Start => StartLocals'
    BY <1>0, <2>1, <2>3 DEF StartLocals
  <2>6. n # Start => UpdateLocals(n)'
    <3> SUFFICES ASSUME n # Start PROVE UpdateLocals(n)'
      OBVIOUS
    <3>1. ver'[n] <= remote'
      BY <1>0, <2>1, <2>4 DEF Typed, TypeFiles, Whole
    <3> QED BY <1>0, <1>b, <2>1, <2>3, <3>1 DEF UpdateLocals, CheckPcs
  <2> QED BY <2>1, <2>2, <2>4, <2>5, <2>6, <1>a, MovedLocals DEF Pcs
<1> QED BY <1>1, <1>2, <1>3, <1>4, <1>5, <1>6 DEF StartService, OpenHost, CloseHost

\* Callback keeps the locals in order.
LEMMA CallbackLocals == ASSUME Typed, Locals, NEW n \in Updates, Callback(n) PROVE Locals'
<1> USE ConstantFacts
<1>0. /\ pc \in [Actors -> Pcs] /\ asm \in [Actors -> Actors] /\ rescue \in [Actors -> BOOLEAN]
      /\ ver \in [Updates -> Whole] /\ todo \in [Updates -> SUBSET Items]
      /\ UpdateLocals(n) /\ n \in Actors /\ n # Start
  BY DEF Typed, TypeControl, TypeWork, Locals
<1>1. CASE ReadRemote(n)
  <2>1. /\ Go(n, "decide") /\ pc[n] = "free" /\ Up /\ UNCHANGED <<remote, code, listener, asm, rescue>>
        /\ ver' = [ver EXCEPT ![n] = remote]
        /\ todo' = [todo EXCEPT ![n] = IF remote = 0 THEN {} ELSE Changed(remote)]
    BY <1>1 DEF ReadRemote, memory
  <2>2. pc'[n] = "decide" /\ ver'[n] = remote /\ todo'[n] = Todo(n)'
    BY <1>0, <2>1 DEF Go, Todo
  <2>3. UpdateLocals(n)'
    BY <1>0, <2>1, <2>2 DEF UpdateLocals, CheckPcs, Typed, TypeFiles, Whole
  <2> QED BY <1>0, <2>1, <2>3, MovedLocals DEF Pcs, CheckPcs
<1>2. CASE CompareVersions(n) \/ Truncate(n)
  <2>1. pc[n] \in {"decide", "truncate"} /\ UNCHANGED <<remote, code, listener, asm, rescue>>
    BY <1>2 DEF CompareVersions, Truncate, memory
  <2>2. Up
    BY <2>1, AwakeUp
  <2>3. CASE Go(n, "free") /\ Forget({n})
    <3>1. pc'[n] = "free" /\ ver'[n] = 0 /\ remote \in Nat
          /\ \A m \in Updates \ {n} : ver'[m] = ver[m] /\ todo'[m] = todo[m]
      BY <1>0, <2>3 DEF Go, Forget, Typed, TypeFiles, Whole
    <3>2. UpdateLocals(n)'
      BY <1>0, <2>1, <3>1 DEF UpdateLocals, CheckPcs
    <3> QED BY <1>0, <2>1, <2>2, <2>3, <3>1, <3>2, MovedLocals DEF Pcs, CheckPcs
  <2>4. CASE \E p \in {"truncate", "write"} : Go(n, p) /\ UNCHANGED work
    <3>1. PICK p \in {"truncate", "write"} : Go(n, p) /\ UNCHANGED work
      BY <2>4
    <3>2. pc'[n] = p /\ Todo(n)' = Todo(n)
      BY <1>0, <3>1 DEF Go, Todo, work
    <3>3. UpdateLocals(n)'
      BY <1>0, <2>1, <3>1, <3>2 DEF UpdateLocals, CheckPcs, BusyPcs, work
    <3> QED BY <1>0, <2>1, <2>2, <3>1, <3>3, MovedLocals DEF Pcs, CheckPcs, BusyPcs, work
  <2> QED BY <1>2, <2>3, <2>4 DEF CompareVersions, Truncate
<1>3. CASE RecordVersion(n)
  <2>1. Go(n, "dispose") /\ pc[n] = "write" /\ UNCHANGED <<remote, code, listener, asm, rescue, ver, todo>>
    BY <1>3 DEF RecordVersion, memory, work
  <2>2. pc'[n] = "dispose" /\ Todo(n)' = Todo(n)
    BY <1>0, <2>1 DEF Go, Todo
  <2>3. UpdateLocals(n)'
    BY <1>0, <2>1, <2>2 DEF UpdateLocals, CheckPcs, BusyPcs
  <2> QED BY <1>0, <2>1, <2>3, MovedLocals, AwakeUp DEF Pcs, BusyPcs
<1>4. CASE Dispose(n) /\ Thrown(n)
  <2>1. pc[n] = "dispose" /\ Busy(n) /\ Up
    BY <1>4, AwakeUp DEF Dispose, Busy, BusyPcs
  <2>2. pc'[n] # "next"
    BY <1>0, <1>4 DEF Thrown, ProcessEnds, Go, CheckPcs
  <2>3. code' = code /\ listener' = listener
    BY <1>0, <1>4, <2>2 DEF Dispose, Go, memory
  <2> QED BY <1>0, <1>4, <2>1, <2>3, ThrownLocals
<1>5. CASE Dispose(n) /\ ~Thrown(n)
  <2>1. pc[n] = "dispose" /\ UNCHANGED <<remote, code, listener, rescue, ver, todo>>
    BY <1>5 DEF Dispose, memory, work
  <2>2. \/ Go(n, "next") /\ UNCHANGED asm
        \/ Go(n, "clear") /\ calc \in Actors /\ asm' = [asm EXCEPT ![n] = calc]
    BY <1>5 DEF Dispose
  <2>3. UpdateLocals(n)'
    <3>1. CASE Go(n, "next") /\ UNCHANGED asm
      <4>1. pc'[n] = "next"
        BY <1>0, <3>1 DEF Go
      <4> QED BY <1>0, <2>1, <3>1, <4>1 DEF UpdateLocals, CheckPcs, BusyPcs
    <3>2. CASE Go(n, "clear")
      <4>1. pc'[n] = "clear" /\ Todo(n)' = Todo(n)
        BY <1>0, <2>1, <3>2 DEF Go, Todo
      <4> QED BY <1>0, <2>1, <4>1 DEF UpdateLocals, CheckPcs, BusyPcs
    <3> QED BY <2>2, <3>1, <3>2
  <2>4. \A m \in Actors \ {n} : asm'[m] = asm[m]
    BY <1>0, <2>2
  <2>5. \E p \in {"next", "clear"} : Go(n, p)
    BY <2>2
  <2> QED BY <1>0, <2>1, <2>3, <2>4, <2>5, MovedLocals, AwakeUp DEF Pcs, BusyPcs
<1>6. CASE ClearListener(n)
  <2>1. /\ pc[n] = "clear" /\ Go(n, "next") /\ asm' = [asm EXCEPT ![n] = Default]
        /\ listener' = [listener EXCEPT ![asm[n]] = NoHost]
        /\ UNCHANGED <<remote, code, rescue, ver, todo>>
    BY <1>6 DEF ClearListener, work
  <2>2. pc'[n] = "next" /\ asm'[n] = Default /\ \A m \in Actors \ {n} : asm'[m] = asm[m]
    BY <1>0, <2>1 DEF Go
  <2>3. UpdateLocals(n)'
    BY <1>0, <2>1, <2>2 DEF UpdateLocals, CheckPcs, BusyPcs
  <2>4. \A a \in Actors : listener'[a] \in {listener[a], NoHost}
    BY <2>1 DEF Typed, TypeMemory
  <2> QED BY <1>0, <2>1, <2>2, <2>3, <2>4, MovedLocals, AwakeUp DEF Pcs, BusyPcs
<1>7. CASE StartUpdate(n)
  <2>1. UNCHANGED <<remote, code, listener, rescue, ver>> /\ pc[n] \in {"next"} \cup ReplacePcs
    BY <1>7 DEF StartUpdate, Download, AllReplaced, PrepareTarget, CreateTarget, MoveTarget, CopyTarget, memory, work,
                ReplacePcs
  <2>2. \A m \in Updates \ {n} : todo'[m] = todo[m]
    BY <1>0, <1>7 DEF StartUpdate, Download, AllReplaced, PrepareTarget, CreateTarget, MoveTarget, CopyTarget, work
  <2>3. PICK p \in {"next", "load"} \cup ReplacePcs : Go(n, p) /\ (p = "load" => AllReplaced(n))
    BY <1>7 DEF StartUpdate, Download, AllReplaced, PrepareTarget, CreateTarget, MoveTarget, CopyTarget, Skip, ReplacePcs
  <2>4. pc'[n] = p
    BY <1>0, <2>3 DEF Go
  <2>5. p = "load" => todo'[n] = {} /\ asm' = asm
    BY <2>3 DEF AllReplaced, work
  <2>6. asm' = asm \/ asm' = [asm EXCEPT ![n] = n]
    BY <1>7 DEF StartUpdate, Download, AllReplaced, PrepareTarget, CreateTarget, MoveTarget, CopyTarget
  <2>7. (\A m \in Actors \ {n} : asm'[m] = asm[m]) /\ asm'[n] \in {asm[n], n}
    BY <1>0, <2>6
  <2>8. UpdateLocals(n)'
    BY <1>0, <2>1, <2>3, <2>4, <2>5, <2>7 DEF UpdateLocals, CheckPcs, BusyPcs, ReplacePcs
  <2>9. Up /\ p \in Pcs /\ p # "down" /\ pc[n] \notin {"open", "close", "done", "failed"}
    BY <2>1, AwakeUp DEF Pcs, BusyPcs, ReplacePcs
  <2> QED BY <1>0, <2>1, <2>2, <2>3, <2>7, <2>8, <2>9, MovedLocals
<1> QED BY <1>1, <1>2, <1>3, <1>4, <1>5, <1>6, <1>7 DEF Callback, CheckUpadate

\* The locals are in order before anything runs.
LEMMA InitLocals == Init => Locals
<1> SUFFICES ASSUME Init PROVE Locals
  OBVIOUS
<1> USE ConstantFacts DEF Init
<1>1. StartLocals
  BY DEF StartLocals
<1>2. ASSUME NEW n \in Updates PROVE UpdateLocals(n)
  BY DEF UpdateLocals, CheckPcs, BusyPcs, ReplacePcs
<1>3. OwnHosts
  BY DEF OwnHosts, Hosts
<1>4. DownQuiet
  <2>1. raced = FALSE /\ \A n \in Updates : pc[n] = "free"
    OBVIOUS
  <2> QED BY <2>1 DEF DownQuiet
<1> QED BY <1>1, <1>2, <1>3, <1>4 DEF Locals

\* Every step keeps the types and the locals.
LEMMA NextLocals == ASSUME Typed, Locals, [Next]_vars PROVE Typed' /\ Locals'
<1> USE ConstantFacts
<1>0. asm[Start] = Default
  BY DEF Locals, StartLocals
<1>1. CASE Publish
  <2>1. remote' = remote + 1 /\ remote < MaxVersion
        /\ UNCHANGED <<recorded, target, calc, code, listener, host, pc, ver, todo, item, have, got, asm, rescue,
                       crashes, broken, causes, raced, lost>>
    BY <1>1 DEF Publish, files, memory, work, history
  <2>2. remote' \in Whole /\ remote' \in Nat /\ remote <= remote'
    BY <2>1 DEF Typed, TypeFiles, Whole
  <2>3. Typed'
    BY <2>1, <2>2 DEF Typed, TypeFiles, TypeMemory, TypeControl, TypeWork, TypeHistory
  <2>4. \A n \in Updates : UpdateLocals(n)'
    BY <2>1, <2>2, SameLocals DEF Locals
  <2>5. StartLocals' /\ OwnHosts' /\ DownQuiet'
    BY <2>1 DEF Locals, StartLocals, OwnHosts, DownQuiet, Up
  <2> QED BY <2>3, <2>4, <2>5 DEF Locals
<1>2. CASE Crash
  BY <1>2, EndsType, EndsLocals DEF Crash, Typed, TypeHistory
<1>3. CASE StartStep
  BY <1>0, <1>3, StartType, StartLocalsStep
<1>7. CASE HostFaults
  <2>1. /\ \E h \in Opened : host' = [host EXCEPT ![h] = "faulted"]
        /\ lost' = TRUE
        /\ UNCHANGED <<remote, recorded, target, calc, code, listener, pc, ver, todo, item, have, got, asm, rescue,
                       crashes, broken, causes, raced>>
    BY <1>7 DEF HostFaults, files, work
  <2>2. Typed'
    BY <2>1 DEF Opened, HostStates, Typed, TypeFiles, TypeMemory, TypeControl, TypeWork, TypeHistory
  <2>3. Locals'
    BY <2>1 DEF Locals, StartLocals, UpdateLocals, OwnHosts, DownQuiet, Todo, Up
  <2> QED BY <2>2, <2>3
<1>4. ASSUME NEW n \in Actors, StartService(n) PROVE Typed' /\ Locals'
  BY <1>0, <1>4, ServiceType, ServiceLocals
<1>5. ASSUME NEW n \in Updates, Callback(n) PROVE Typed' /\ Locals'
  BY <1>5, CallbackLocals, CheckType, DisposeType, ReplaceType DEF Callback
<1>6. CASE UNCHANGED vars
  <2>1. Typed'
    BY <1>6 DEF vars, files, memory, work, history, Typed, TypeFiles, TypeMemory, TypeControl, TypeWork, TypeHistory
  <2>2. UNCHANGED <<remote, code, listener, pc, ver, todo, asm, rescue, raced>>
    BY <1>6 DEF vars, memory, work, history
  <2>3. Locals'
    BY <2>2 DEF Locals, StartLocals, UpdateLocals, OwnHosts, DownQuiet, Todo, Up
  <2> QED BY <2>1, <2>3
<1> QED BY <1>1, <1>2, <1>3, <1>4, <1>5, <1>6, <1>7 DEF Next

\* Every variable keeps its type, for any items, versions and updates.
THEOREM TypeTheorem == Spec => []TypeOK
<1>1. Init => Typed /\ Locals
  BY InitType, InitLocals
<1>2. Typed /\ Locals /\ [Next]_vars => Typed' /\ Locals'
  BY NextLocals
<1> QED BY <1>1, <1>2, TypeParts, PTL DEF Spec
-----------------------------------------------------------------------------
(* The targets *)

At(p, i) == \E n \in Updates : pc[n] = p /\ item[n] = i

HalfReplaced ==
    \A i \in Items \ broken :
        /\ target[i] = Missing => At("copy", i)
        /\ target[i] = Blank => At("move", i)

\* A step that leaves the targets alone and moves one actor, but neither from
\* nor to its move or its copy, leaves no target half replaced.
LEMMA Elsewhere ==
    ASSUME Typed, HalfReplaced, NEW n \in Actors, NEW p \in Pcs \ {"move", "copy"}, Go(n, p),
           pc[n] \notin {"move", "copy"}, \A m \in Updates \ {n} : item'[m] = item[m],
           target' = target, broken' = broken
    PROVE  HalfReplaced'
<1> SUFFICES ASSUME NEW i \in Items \ broken
             PROVE /\ target[i] = Missing => At("copy", i)'
                   /\ target[i] = Blank => At("move", i)'
  BY DEF HalfReplaced
<1>1. ASSUME NEW q \in {"move", "copy"}, At(q, i) PROVE At(q, i)'
  BY <1>1, ActorFacts DEF At, Go, Typed, TypeControl
<1> QED BY <1>1 DEF HalfReplaced

\* The end of the process breaks what is not whole, and nothing else.
LEMMA EndsHalf == ASSUME Typed, ProcessEnds PROVE HalfReplaced'
BY ActorFacts DEF HalfReplaced, ProcessEnds

\* An exception goes to the catch block or ends the process.
LEMMA ThrownHalf ==
    ASSUME Typed, HalfReplaced, NEW n \in Actors, Thrown(n), pc[n] \notin {"move", "copy"}
    PROVE  HalfReplaced'
<1>1. CASE n # Start /\ rescue[n]
  BY <1>1, EndsHalf DEF Thrown
<1>2. CASE ~(n # Start /\ rescue[n])
  <2>1. (\E p \in {"failed", "load"} : Go(n, p)) /\ UNCHANGED <<target, item, broken>>
    BY <1>2 DEF Thrown, work, files
  <2> QED BY <2>1, Elsewhere DEF Pcs, BusyPcs
<1> QED BY <1>1, <1>2

\* Neither Start, nor StartService, nor the check for an update, nor the end of
\* the old web service touches a target.
LEMMA OutsideHalf ==
    ASSUME Typed, HalfReplaced, NEW n \in Actors,
           \/ StartService(n)
           \/ n = Start /\ StartStep
           \/ n \in Updates /\ (CheckUpadate(n) \/ Dispose(n) \/ ClearListener(n))
    PROVE  HalfReplaced'
<1>1. pc[n] \notin {"move", "copy"}
  BY DEF StartService, LoadAssembly, NewHost, OpenHost, CloseHost, StartStep, StartTimer, CleanUpdates, StartDns, Up,
         CheckUpadate, ReadRemote, CompareVersions, Truncate, RecordVersion, Dispose, ClearListener
<1>2. CASE Thrown(n)
  BY <1>1, <1>2, ThrownHalf
<1>3. CASE ~Thrown(n)
  <2>1. CASE StartService(n)
    <3>1. (\E p \in {"host", "open", "close", "done"} : Go(n, p)) /\ target' = target /\ broken' = broken
      BY <1>3, <2>1 DEF StartService, LoadAssembly, NewHost, OpenHost, CloseHost, Finish, files, history
    <3>2. \A m \in Updates \ {n} : item'[m] = item[m]
      BY <1>3, <2>1 DEF StartService, LoadAssembly, NewHost, OpenHost, CloseHost, Finish, Forget, work
    <3> QED BY <1>1, <3>1, <3>2, Elsewhere DEF Pcs, BusyPcs
  <2>2. CASE n = Start /\ StartStep
    <3>1. UNCHANGED <<target, item, broken>> /\ \E p \in {"clean", "dns", "load", "failed"} : Go(n, p)
      BY <2>2 DEF StartStep, StartTimer, CleanUpdates, StartDns, files, work, history
    <3> QED BY <1>1, <3>1, Elsewhere DEF Pcs, BusyPcs
  <2>3. CASE CheckUpadate(n)
    <3>1. /\ \E p \in CheckPcs \cup {"write", "dispose"} : Go(n, p)
          /\ target' = target /\ broken' = broken
      BY <2>3 DEF CheckUpadate, ReadRemote, CompareVersions, Truncate, RecordVersion, files, history, CheckPcs
    <3>2. \A m \in Updates \ {n} : item'[m] = item[m]
      BY <2>3 DEF CheckUpadate, ReadRemote, CompareVersions, Truncate, RecordVersion, Forget, work
    <3> QED BY <1>1, <3>1, <3>2, Elsewhere DEF Pcs, CheckPcs, BusyPcs
  <2>4. CASE Dispose(n) \/ ClearListener(n)
    <3>1. UNCHANGED <<target, item, broken>> /\ \E p \in {"next", "clear"} : Go(n, p)
      BY <1>3, <2>4 DEF Dispose, ClearListener, files, work, history
    <3> QED BY <1>1, <3>1, Elsewhere DEF Pcs, BusyPcs
  <2> QED BY <2>1, <2>2, <2>3, <2>4
<1> QED BY <1>2, <1>3

\* A download picks an item for an update at neither its move nor its copy.
LEMMA DownloadHalf == ASSUME Typed, HalfReplaced, NEW n \in Updates, Download(n) PROVE HalfReplaced'
<1>1. pc[n] = "next" /\ target' = target /\ broken' = broken
  BY DEF Download, files
<1>2. (\E p \in {"prepare", "next"} : Go(n, p)) /\ \A m \in Updates \ {n} : item'[m] = item[m]
  BY DEF Download, Skip, Typed, TypeWork
<1> QED BY <1>1, <1>2, ActorFacts, Elsewhere DEF Pcs, BusyPcs, ReplacePcs

\* The steps that replace a target: whoever leaves a move or a copy leaves the
\* target whole, or empty before somebody's move, or missing before somebody's copy.
LEMMA ReplaceHalf ==
    ASSUME Typed, HalfReplaced, NEW n \in Updates,
           PrepareTarget(n) \/ CreateTarget(n) \/ MoveTarget(n) \/ CopyTarget(n)
    PROVE  HalfReplaced'
<1>a. item[n] \in Items
  BY DEF Typed, TypeWork
<1>b. PICK i \in Items : i = item[n]
  BY <1>a
<1>0. /\ n \in Actors /\ i = item[n]
      /\ pc \in [Actors -> Pcs] /\ target \in [Items -> Whole \cup {Missing, Blank}]
      /\ got[n][i] \in Whole
  BY <1>b, ActorFacts DEF Typed, TypeFiles, TypeControl, TypeWork
<1>1. item' = item
  BY DEF PrepareTarget, CreateTarget, MoveTarget, CopyTarget, work
<1>2. PICK p \in {"create", "move", "copy", "next"} : Go(n, p)
  BY DEF PrepareTarget, CreateTarget, MoveTarget, CopyTarget, Skip
<1>3. pc'[n] = p /\ item'[n] = i
  BY <1>0, <1>1, <1>2 DEF Go
<1>4. \A j \in Items \ {i} : target'[j] = target[j] /\ (j \in broken' <=> j \in broken)
  BY <1>0 DEF PrepareTarget, CreateTarget, MoveTarget, CopyTarget, history, files
<1>5. ASSUME NEW j \in Items, NEW q \in {"move", "copy"}, At(q, j), j # i \/ pc[n] # q PROVE At(q, j)'
  <2>1. PICK m \in Updates : pc[m] = q /\ item[m] = j
    BY <1>5 DEF At
  <2>2. m # n
    BY <1>0, <1>5, <2>1
  <2> QED BY <1>0, <1>1, <1>2, <2>1, <2>2, ActorFacts DEF At, Go
<1>6. ASSUME NEW j \in Items \ broken', j # i
      PROVE  /\ target'[j] = Missing => At("copy", j)'
             /\ target'[j] = Blank => At("move", j)'
  BY <1>4, <1>5, <1>6 DEF HalfReplaced
<1>7. ASSUME i \notin broken'
      PROVE  /\ target'[i] = Missing => At("copy", i)'
             /\ target'[i] = Blank => At("move", i)'
  <2>1. CASE PrepareTarget(n)
    <3>1. pc[n] = "prepare" /\ UNCHANGED <<target, broken>>
      BY <2>1 DEF PrepareTarget, files, history
    <3> QED BY <1>0, <1>5, <1>7, <3>1 DEF HalfReplaced
  <2>2. CASE CreateTarget(n)
    <3>1. CASE target'[i] = Blank /\ pc'[n] = "move"
      BY <1>3, <3>1, ActorFacts DEF At
    <3>2. CASE pc[n] = "create" /\ UNCHANGED <<target, broken>>
      BY <1>0, <1>5, <1>7, <3>2 DEF HalfReplaced
    <3> QED BY <1>0, <2>2, <3>1, <3>2 DEF CreateTarget, Go
  <2>3. CASE MoveTarget(n) /\ target' # target
    <3>1. target'[i] = Missing /\ pc'[n] = "copy"
      BY <1>0, <2>3 DEF MoveTarget, Go
    <3> QED BY <1>3, <3>1, ActorFacts DEF At
  <2>4. CASE MoveTarget(n) /\ target' = target
    <3>0. pc[n] = "move" /\ i \notin broken
      BY <1>0, <1>7, <2>4 DEF MoveTarget
    <3>1. CASE target[i] = Blank
      <4>1. FALSE
        BY <1>0, <1>7, <2>4, <3>1, ActorFacts DEF MoveTarget
      <4> QED BY <4>1
    <3>2. CASE target[i] # Blank
      BY <1>0, <1>5, <2>4, <3>0, <3>2 DEF HalfReplaced
    <3> QED BY <3>1, <3>2
  <2>5. CASE CopyTarget(n) /\ target[i] = Missing
    <3>2. target'[i] = got[n][i]
      BY <1>0, <1>7, <2>5 DEF CopyTarget
    <3> QED BY <1>0, <3>2, ActorFacts
  <2>6. CASE CopyTarget(n) /\ target[i] # Missing
    <3>1. pc[n] = "copy" /\ target' = target /\ broken \subseteq broken'
      BY <1>0, <2>6 DEF CopyTarget
    <3> QED BY <1>0, <1>5, <1>7, <2>6, <3>1 DEF HalfReplaced
  <2> QED BY <2>1, <2>2, <2>3, <2>4, <2>5, <2>6
<1> QED BY <1>0, <1>6, <1>7 DEF HalfReplaced

\* Every step leaves no target half replaced.
LEMMA NextHalf == Typed /\ HalfReplaced /\ [Next]_vars => HalfReplaced'
<1> SUFFICES ASSUME Typed, HalfReplaced, [Next]_vars PROVE HalfReplaced'
  OBVIOUS
<1>1. CASE Publish
  BY <1>1 DEF Publish, files, work, history, HalfReplaced, At
<1>2. CASE Crash
  BY <1>2, EndsHalf DEF Crash
<1>3. CASE StartStep
  BY <1>3, OutsideHalf, ActorFacts
<1>4. ASSUME NEW n \in Actors, StartService(n) PROVE HalfReplaced'
  BY <1>4, OutsideHalf
<1>5. ASSUME NEW n \in Updates, Callback(n) PROVE HalfReplaced'
  <2> n \in Actors
    BY ActorFacts
  <2>1. CASE CheckUpadate(n) \/ Dispose(n) \/ ClearListener(n)
    BY <2>1, OutsideHalf
  <2>2. CASE Download(n)
    BY <2>2, DownloadHalf
  <2>3. CASE AllReplaced(n)
    <3>1. Go(n, "load") /\ pc[n] = "next" /\ UNCHANGED <<target, item, broken>>
      BY <2>3 DEF AllReplaced, files, work, history
    <3> QED BY <3>1, Elsewhere DEF Pcs, BusyPcs
  <2>4. CASE PrepareTarget(n) \/ CreateTarget(n) \/ MoveTarget(n) \/ CopyTarget(n)
    BY <2>4, ReplaceHalf
  <2> QED BY <1>5, <2>1, <2>2, <2>3, <2>4 DEF Callback, StartUpdate
<1>6. CASE UNCHANGED vars
  BY <1>6 DEF vars, files, work, history, HalfReplaced, At
<1>7. CASE HostFaults
  BY <1>7 DEF HostFaults, files, work, HalfReplaced, At
<1> QED BY <1>1, <1>2, <1>3, <1>4, <1>5, <1>6, <1>7 DEF Next

\* For any items, versions and number of overlapping updates, a target that is
\* missing or empty is being replaced, or a crash or a move or a copy that was
\* refused left it so.
THEOREM TargetTheorem == Spec => []TargetWhole
<1>1. Init => Typed /\ Locals /\ HalfReplaced
  BY InitType, InitLocals, ActorFacts DEF Init, HalfReplaced
<1>2. Typed /\ Locals /\ HalfReplaced /\ [Next]_vars => (Typed /\ Locals /\ HalfReplaced)'
  BY NextLocals, NextHalf
<1>3. Typed /\ HalfReplaced => TargetWhole
  BY DEF Typed, TypeFiles, HalfReplaced, At, TargetWhole, Replacing
<1> QED BY <1>1, <1>2, <1>3, PTL DEF Spec

-----------------------------------------------------------------------------
(* The web service and the record *)

\* Nobody was busy together with another, in this process or since the record
\* was last truncated.
Undisturbed == ~raced \/ causes = {}
\* Whoever is about to open a host finds the one it made, not yet opened.
OpenReady ==
    \A n \in Actors : pc[n] = "open" =>
        listener[asm[n]] = <<n, rescue[n]>> /\ host[<<n, rescue[n]>>] = "created"
Solo == Undisturbed => Sole /\ OpenReady

\* Before Start loads the web service there is nothing, then its assembly.
StartOrder ==
    /\ pc[Start] \in {"down", "clean", "dns"} => Clear
    /\ pc[Start] = "load" => code[Default] # NotLoaded
\* An actor on its way to open a host: nothing listens, calcInstance is the
\* assembly it hosts, only a host that was refused is closed again, and an
\* assembly of its own and the item in hand are still in the update directory.
HostOrder(n) ==
    /\ pc[n] \in {"host", "open", "close"} => calc = asm[n]
    /\ pc[n] = "open" => ~lost
    /\ pc[n] = "close" => lost
    /\ pc[n] \in DownPcs => Opened = {}
    /\ n # Start /\ pc[n] \in {"load", "next"} \cup ReplacePcs /\ asm[n] = n => Dll \in have[n]
    /\ n # Start /\ pc[n] \in {"prepare", "create", "move"} => item[n] \in have[n]
\* Nobody on the way: one web service listens, or none does, because the system
\* kept it from it or Start failed.
RestOrder ==
    (\A n \in Actors : pc[n] \notin DownPcs \cup {"down", "clean", "dns"}) =>
        \/ Serving /\ ~lost
        \/ Opened = {} /\ ((lost /\ calc \in Actors) \/ pc[Start] = "failed")
Orderly == ~raced => StartOrder /\ (\A n \in Actors : HostOrder(n)) /\ RestOrder

\* Every item of the recorded version is in place, or something newer.
Settled == \A i \in Changed(recorded) : target[i] >= recorded
\* What listens is as new as the recorded version.
FreshCode == \A a \in Actors : listener[a] \in Opened => code[a] >= recorded
\* Each item an update has taken up is downloaded, and in its hands or in place;
\* once it has moved the DLL, it is going to load its own copy.
AppliedBy(n) ==
    /\ ~rescue[n]
    /\ recorded = IF pc[n] = "write" THEN 0 ELSE ver[n]
    /\ ver[n] \in Versions => \A i \in Changed(ver[n]) \ todo[n] :
        /\ got[n][i] >= ver[n]
        /\ (pc[n] \in ReplacePcs /\ item[n] = i) \/ target[i] >= ver[n]
        /\ i = Dll => asm[n] = n \/ (pc[n] \in {"prepare", "create", "move"} /\ item[n] = i)
\* The assembly that is going to listen, and the one that listens, are as new as
\* the record.
CodeApplied ==
    recorded \in Versions /\ Dll \in Changed(recorded) =>
        /\ (\A n \in Actors : ~Busy(n)) /\ ~raced => FreshCode
        /\ pc[Start] = "load" => code[Default] >= recorded
        /\ \A n \in Actors : pc[n] \in {"host", "open"} => code[asm[n]] >= recorded
\* While the record has no cause not to be in place, it is in place or one
\* update is putting it there.
Applied == causes = {} =>
    /\ Busy(Start) => ~raced
    /\ (\A n \in Updates : ~Busy(n)) /\ recorded \in Versions => Settled
    /\ \A n \in Updates : Busy(n) => AppliedBy(n)
    /\ CodeApplied

Inv == Typed /\ Locals /\ Solo /\ Orderly /\ Applied

\* Nothing has happened yet.
LEMMA InitKeeps == Init => Solo /\ Orderly /\ Applied
<1> SUFFICES ASSUME Init PROVE Solo /\ Orderly /\ Applied
  OBVIOUS
<1> USE ConstantFacts DEF Init
<1>1. \A n \in Actors : ~Busy(n) /\ pc[n] # "open"
  BY DEF Busy, BusyPcs, ReplacePcs
<1>2. Opened = {}
  BY DEF Opened
<1>3. Solo
  BY <1>1 DEF Solo, Sole, OpenReady
<1>4. Orderly
  <2>1. StartOrder
    BY <1>2 DEF StartOrder, Clear
  <2>2. RestOrder
    BY DEF RestOrder
  <2>3. ASSUME NEW n \in Actors PROVE HostOrder(n)
    BY <1>1, <1>2 DEF HostOrder, ReplacePcs
  <2> QED BY <2>1, <2>2, <2>3 DEF Orderly
<1>5. Applied
  <2>1. recorded \notin Versions
    BY DEF Versions
  <2> QED BY <1>1, <2>1 DEF Applied, CodeApplied
<1> QED BY <1>3, <1>4, <1>5

\* A step of an update that is not busy and does not become it changes nothing.
LEMMA IdleKeeps ==
    ASSUME Inv, NEW n \in Updates, NEW p \in CheckPcs, Go(n, p), pc[n] \in CheckPcs, Up,
           UNCHANGED <<files, memory, asm, rescue, history>>,
           \A m \in Updates \ {n} : /\ ver'[m] = ver[m] /\ todo'[m] = todo[m] /\ item'[m] = item[m]
                                    /\ have'[m] = have[m] /\ got'[m] = got[m]
    PROVE  Solo' /\ Orderly' /\ Applied'
<1> USE ConstantFacts DEF Inv
<1>0. pc \in [Actors -> Pcs]
  BY DEF Typed, TypeControl
<1>1. pc'[n] = p /\ \A m \in Actors \ {n} : pc'[m] = pc[m]
  BY <1>0 DEF Go
<1>2. ~Busy(n) /\ ~Busy(n)' /\ \A m \in Actors \ {n} : Busy(m)' <=> Busy(m)
  BY <1>1 DEF Busy, BusyPcs, ReplacePcs, CheckPcs
<1>3. Opened' = Opened
  BY DEF Opened, memory
<1>4. Solo'
  <2>1. Sole => Sole'
    BY <1>2 DEF Sole
  <2>2. OpenReady => OpenReady'
    BY <1>1 DEF OpenReady, CheckPcs, memory
  <2> QED BY <2>1, <2>2 DEF Solo, Undisturbed, history
<1>5. Orderly'
  <2>1. StartOrder => StartOrder'
    BY <1>1, <1>3 DEF StartOrder, Clear, memory, history
  <2>2. RestOrder => RestOrder'
    BY <1>1, <1>3 DEF RestOrder, Serving, memory, history, CheckPcs, DownPcs, ReplacePcs
  <2>3. ASSUME NEW m \in Actors, HostOrder(m) PROVE HostOrder(m)'
    BY <1>1, <1>3, <2>3 DEF HostOrder, memory, history, CheckPcs, DownPcs, ReplacePcs
  <2> QED BY <2>1, <2>2, <2>3 DEF Orderly, history
<1>6. Applied'
  <2>1. ASSUME NEW m \in Updates, Busy(m)', AppliedBy(m) PROVE AppliedBy(m)'
    <3>1. m # n /\ pc'[m] = pc[m] /\ ver'[m] = ver[m] /\ todo'[m] = todo[m] /\ item'[m] = item[m]
          /\ got'[m] = got[m] /\ asm' = asm /\ rescue' = rescue /\ target' = target /\ recorded' = recorded
      BY <1>1, <1>2, <2>1 DEF files
    <3> QED BY <2>1, <3>1 DEF AppliedBy
  <2>2. Settled' <=> Settled
    BY DEF Settled, files
  <2>3. CodeApplied => CodeApplied'
    BY <1>1, <1>2, <1>3 DEF CodeApplied, FreshCode, files, memory, history, CheckPcs
  <2> QED BY <1>2, <2>1, <2>2, <2>3 DEF Applied, files, history
<1> QED BY <1>4, <1>5, <1>6

\* After the end of the process nothing is loaded, and the files are as they were.
LEMMA EndsKeeps == ASSUME Inv, ProcessEnds PROVE Solo' /\ Orderly' /\ Applied'
<1> USE ConstantFacts DEF Inv
<1>1. /\ pc'[Start] = "down" /\ \A n \in Updates : pc'[n] = "free"
      /\ calc' = NoInstance /\ \A a \in Actors : code'[a] = NotLoaded /\ listener'[a] = NoHost
      /\ UNCHANGED target
  BY DEF ProcessEnds
<1>2. \A n \in Actors : ~Busy(n)' /\ pc'[n] \in {"down", "free"}
  BY <1>1 DEF Busy, BusyPcs, ReplacePcs
<1>3. Opened' = {}
  BY DEF Opened, ProcessEnds
<1>4. Solo'
  BY <1>2 DEF Solo, Sole, OpenReady
<1>5. Orderly'
  <2>1. StartOrder'
    BY <1>1, <1>3 DEF StartOrder, Clear
  <2>2. RestOrder'
    BY <1>1 DEF RestOrder
  <2>3. ASSUME NEW n \in Actors PROVE HostOrder(n)'
    BY <1>2, <1>3 DEF HostOrder, ReplacePcs
  <2> QED BY <2>1, <2>2, <2>3 DEF Orderly
<1>6. Applied'
  <2> SUFFICES ASSUME causes' = {} PROVE Applied'
    BY DEF Applied
  <2>1. causes = {} /\ \A n \in Updates : ~Busy(n)
    BY DEF ProcessEnds
  <2>2. recorded' = recorded
    BY <2>1 DEF ProcessEnds, Locked, Busy, BusyPcs
  <2>3. recorded' \in Versions => Settled'
    BY <1>1, <2>1, <2>2 DEF Applied, Settled
  <2>4. CodeApplied'
    BY <1>2, <1>3 DEF CodeApplied, FreshCode
  <2> QED BY <1>2, <2>3, <2>4 DEF Applied
<1> QED BY <1>4, <1>5, <1>6

\* The step of a busy actor leaves it the only one, and its host ready.
LEMMA SoloBusy ==
    ASSUME Inv, NEW n \in Actors, Busy(n), NEW p \in Pcs, Go(n, p), raced' = raced,
           causes' = {} => causes = {},
           Undisturbed /\ p = "open" =>
                listener'[asm'[n]] = <<n, rescue'[n]>> /\ host'[<<n, rescue'[n]>>] = "created"
    PROVE  Solo'
<1> USE DEF Inv
<1>0. pc \in [Actors -> Pcs]
  BY DEF Typed, TypeControl
<1>1. pc'[n] = p /\ \A m \in Actors \ {n} : pc'[m] = pc[m] /\ (Busy(m)' <=> Busy(m))
  BY <1>0 DEF Go, Busy
<1> SUFFICES ASSUME Undisturbed' PROVE Sole' /\ OpenReady'
  BY DEF Solo
<1>2. Undisturbed /\ \A m \in Actors \ {n} : ~Busy(m)
  BY DEF Undisturbed, Solo, Sole
<1>3. \A m \in Actors \ {n} : pc[m] # "open"
  BY <1>2 DEF Busy, BusyPcs
<1> QED BY <1>1, <1>2, <1>3 DEF Sole, OpenReady

\* A busy actor that comes to a point where nothing listens has everything in order.
LEMMA DownOrder ==
    ASSUME Inv, NEW n \in Actors, Busy(n), NEW p \in DownPcs, Go(n, p), raced' = raced,
           ~raced => /\ p \in {"host", "open", "close"} => calc' = asm'[n]
                     /\ p = "open" => ~lost'
                     /\ p = "close" => lost'
                     /\ Opened' = {}
                     /\ n # Start /\ p \in {"load", "next"} \cup ReplacePcs /\ asm'[n] = n => Dll \in have'[n]
                     /\ n # Start /\ p \in {"prepare", "create", "move"} => item'[n] \in have'[n]
                     /\ n = Start /\ p = "load" => code'[Default] # NotLoaded
    PROVE  Orderly'
<1> USE DEF Inv
<1>0. pc \in [Actors -> Pcs]
  BY DEF Typed, TypeControl
<1>1. pc'[n] = p /\ \A m \in Actors \ {n} : pc'[m] = pc[m]
  BY <1>0 DEF Go
<1> SUFFICES ASSUME ~raced' PROVE StartOrder' /\ (\A m \in Actors : HostOrder(m)') /\ RestOrder'
  BY DEF Orderly
<1>2. \A m \in Actors \ {n} : ~Busy(m)
  BY DEF Undisturbed, Solo, Sole
<1>3. n # Start => pc[Start] \notin {"down", "clean", "dns", "load"}
  <2>1. n # Start => pc[n] \notin {"free", "done"} /\ n \in Updates
    BY ConstantFacts DEF Busy, BusyPcs, ReplacePcs
  <2>2. n # Start => Up
    BY <2>1, AwakeUp
  <2> QED BY <1>2, <2>2, ConstantFacts DEF Up, Busy, BusyPcs
<1>4. StartOrder'
  BY <1>1, <1>3, ConstantFacts DEF StartOrder, DownPcs, ReplacePcs
<1>5. RestOrder'
  BY <1>1 DEF RestOrder
<1>6. ASSUME NEW m \in Actors PROVE HostOrder(m)'
  <2>1. CASE m # n
    BY <1>1, <1>2, <2>1 DEF HostOrder, Busy, BusyPcs, DownPcs, ReplacePcs
  <2>2. CASE m = n
    BY <1>1, <2>2 DEF HostOrder
  <2> QED BY <2>1, <2>2
<1> QED BY <1>4, <1>5, <1>6

\* A busy update that keeps its own part of the record keeps the whole.
LEMMA BusyApplied ==
    ASSUME Inv, NEW n \in Updates, NEW p \in BusyPcs, Busy(n), Go(n, p),
           causes' = {} =>
              /\ causes = {} /\ AppliedBy(n)'
              /\ recorded' \in Versions /\ Dll \in Changed(recorded') /\ p \in {"host", "open"} =>
                    code'[asm'[n]] >= recorded'
    PROVE  Applied'
<1> USE ConstantFacts DEF Inv
<1>0. pc \in [Actors -> Pcs] /\ n \in Actors /\ n # Start
  BY DEF Typed, TypeControl
<1>1. pc'[n] = p /\ \A m \in Actors \ {n} : pc'[m] = pc[m] /\ (Busy(m)' <=> Busy(m))
  BY <1>0 DEF Go, Busy
<1> SUFFICES ASSUME causes' = {} PROVE Applied'
  BY DEF Applied
<1>2. Busy(n)' /\ \A m \in Actors \ {n} : ~Busy(m)
  BY <1>1 DEF Undisturbed, Solo, Sole, Busy
<1>3. CodeApplied'
  <2>1. \A m \in Actors \ {n} : pc'[m] \notin {"load", "host", "open"}
    BY <1>1, <1>2 DEF Busy, BusyPcs
  <2> QED BY <1>0, <1>1, <1>2, <2>1 DEF CodeApplied
<1>4. \A m \in Updates : Busy(m)' => AppliedBy(m)'
  BY <1>1, <1>2
<1>5. ~Busy(Start)'
  BY <1>0, <1>1, <1>2
<1> QED BY <1>2, <1>3, <1>4, <1>5 DEF Applied

\* Start, when it is busy, has only the code to answer for.
LEMMA StartApplied ==
    ASSUME Inv, NEW p \in Pcs, Busy(Start), Go(Start, p), UNCHANGED <<recorded, target, raced>>,
           asm'[Start] = Default,
           causes' = {} =>
              /\ causes = {}
              /\ recorded \in Versions /\ Dll \in Changed(recorded) =>
                    /\ p \in {"load", "host", "open"} => code'[Default] >= recorded
                    /\ p \notin BusyPcs \cup {"clean", "dns"} /\ ~raced => FreshCode'
    PROVE  Applied'
<1> USE ConstantFacts DEF Inv
<1>0. pc \in [Actors -> Pcs]
  BY DEF Typed, TypeControl
<1>1. pc'[Start] = p /\ \A m \in Actors \ {Start} : pc'[m] = pc[m] /\ (Busy(m)' <=> Busy(m))
  BY <1>0 DEF Go, Busy
<1> SUFFICES ASSUME causes' = {} PROVE Applied'
  BY DEF Applied
<1>2. \A m \in Actors \ {Start} : ~Busy(m)
  BY DEF Undisturbed, Solo, Sole
<1>3. CodeApplied'
  <2>1. \A m \in Actors \ {Start} : pc'[m] \notin {"load", "host", "open"}
    BY <1>1, <1>2 DEF Busy, BusyPcs
  <2>2. ~Busy(Start)' => p \notin BusyPcs \cup {"clean", "dns"}
    BY <1>1 DEF Busy
  <2> QED BY <1>1, <2>1, <2>2 DEF CodeApplied
<1>4. \A m \in Updates : ~Busy(m)'
  BY <1>1, <1>2
<1>5. recorded' \in Versions => Settled'
  BY <1>2 DEF Applied, Settled
<1> QED BY <1>3, <1>4, <1>5 DEF Applied

\* An exception in a step that leaves no web service listening behind it.
LEMMA ThrownKeeps ==
    ASSUME Inv, NEW n \in Actors, Busy(n), Thrown(n),
           ~raced /\ ~rescue[n] => Opened' = {}
    PROVE  Solo' /\ Orderly' /\ Applied'
<1> USE DEF Inv
<1>1. CASE n # Start /\ rescue[n]
  BY <1>1, EndsKeeps DEF Thrown
<1>2. CASE ~(n # Start /\ rescue[n])
  <2>1. /\ Go(n, IF n = Start THEN "failed" ELSE "load") /\ raced' = raced
        /\ asm' = [asm EXCEPT ![n] = Default] /\ causes' = causes \cup {"exception"}
    BY <1>2 DEF Thrown
  <2>2. causes' # {}
    BY <2>1
  <2>3. asm'[n] = Default /\ ~rescue[n]
    BY <1>2, <2>1 DEF Typed, TypeControl, Locals, StartLocals
  <2>4. CASE raced
    BY <2>1, <2>2, <2>4 DEF Solo, Orderly, Applied, Undisturbed
  <2>5. CASE ~raced /\ n = Start
    <3>0. pc \in [Actors -> Pcs] /\ Start \in Actors
      BY ConstantFacts DEF Typed, TypeControl
    <3>1. /\ Opened' = {} /\ pc'[Start] = "failed"
          /\ \A m \in Actors \ {Start} : pc'[m] = pc[m] /\ ~Busy(m)
      BY <2>1, <2>3, <2>5, <3>0 DEF Go, Solo, Sole, Undisturbed
    <3>2. ASSUME NEW m \in Actors PROVE HostOrder(m)'
      BY <3>1, <3>2 DEF HostOrder, Busy, BusyPcs, DownPcs, ReplacePcs
    <3>3. StartOrder' /\ RestOrder'
      BY <3>1 DEF StartOrder, RestOrder
    <3>4. Solo'
      BY <2>1, <2>2, <2>5, SoloBusy DEF Pcs
    <3> QED BY <2>2, <3>2, <3>3, <3>4 DEF Applied, Orderly
  <2>6. CASE ~raced /\ n # Start
    <3>1. Opened' = {} /\ Go(n, "load") /\ n # Default
      BY <2>1, <2>3, <2>6 DEF Start, Default
    <3>2. Orderly'
      BY <2>1, <2>3, <2>6, <3>1, DownOrder DEF DownPcs, ReplacePcs
    <3>3. Solo'
      BY <2>1, <2>2, <3>1, SoloBusy DEF Pcs, BusyPcs
    <3> QED BY <2>2, <3>2, <3>3 DEF Applied
  <2> QED BY <2>4, <2>5, <2>6
<1> QED BY <1>1, <1>2

\* Start: its timer, CleanUpdates and the DNS service.
LEMMA StartKeeps == ASSUME Inv, StartStep PROVE Solo' /\ Orderly' /\ Applied'
<1> USE ConstantFacts DEF Inv
<1>0. pc \in [Actors -> Pcs] /\ asm[Start] = Default
  BY DEF Typed, TypeControl, Locals, StartLocals
<1>1. CASE StartTimer
  <2>1. /\ Go(Start, "clean") /\ ~Up
        /\ UNCHANGED <<recorded, target, calc, code, listener, host, item, have, asm, rescue, causes, raced>>
    BY <1>1 DEF StartTimer, files, memory, work, history
  <2>2. /\ pc[Start] = "down" /\ pc'[Start] = "clean"
        /\ \A m \in Updates : pc'[m] = pc[m] /\ pc[m] \in {"free", "done"}
        /\ ~raced
    BY <1>0, <2>1 DEF Up, Go, Locals, DownQuiet
  <2>3. \A m \in Updates : ~Busy(m)' /\ ~Busy(m)
    BY <2>2 DEF Busy, BusyPcs, ReplacePcs
  <2>4. Solo'
    BY <2>2, <2>3 DEF Solo, Sole, OpenReady
  <2>5. Opened' = Opened
    BY <2>1 DEF Opened
  <2>6. Orderly'
    <3>1. StartOrder'
      BY <2>1, <2>2, <2>5 DEF Orderly, StartOrder, Clear
    <3>2. RestOrder'
      BY <2>2 DEF RestOrder
    <3>3. ASSUME NEW m \in Actors PROVE HostOrder(m)'
      BY <2>2, <3>3 DEF HostOrder, DownPcs, ReplacePcs
    <3> QED BY <3>1, <3>2, <3>3 DEF Orderly
  <2>7. Applied'
    <3>1. Busy(Start)'
      BY <2>2 DEF Busy
    <3>2. CodeApplied'
      BY <2>2, <3>1 DEF CodeApplied
    <3>3. causes = {} /\ recorded \in Versions => Settled
      BY <2>3 DEF Applied
    <3>4. Settled' <=> Settled
      BY <2>1 DEF Settled
    <3> QED BY <2>1, <2>2, <2>3, <3>2, <3>3, <3>4 DEF Applied
  <2> QED BY <2>4, <2>6, <2>7
<1>2. CASE CleanUpdates
  <2>1. /\ pc[Start] = "clean" /\ Go(Start, "dns")
        /\ UNCHANGED <<recorded, target, calc, code, listener, host, item, asm, rescue, causes, raced>>
    BY <1>2 DEF CleanUpdates, files, memory, history
  <2>2. Busy(Start) /\ pc'[Start] = "dns" /\ \A m \in Actors \ {Start} : pc'[m] = pc[m]
    BY <1>0, <2>1 DEF Busy, Go
  <2>3. Solo'
    BY <2>1, <2>2, SoloBusy DEF Pcs
  <2>4. Orderly'
    <3> SUFFICES ASSUME ~raced' PROVE StartOrder' /\ (\A m \in Actors : HostOrder(m)') /\ RestOrder'
      BY DEF Orderly
    <3>1. StartOrder'
      BY <2>1, <2>2 DEF Orderly, StartOrder, Clear, Opened
    <3>2. RestOrder'
      BY <2>2 DEF RestOrder
    <3>3. \A m \in Actors \ {Start} : ~Busy(m)
      BY <2>1, <2>2 DEF Solo, Sole, Undisturbed
    <3>4. ASSUME NEW m \in Actors PROVE HostOrder(m)'
      BY <2>2, <3>3, <3>4 DEF HostOrder, Busy, BusyPcs, DownPcs, ReplacePcs
    <3> QED BY <3>1, <3>2, <3>4
  <2>5. Applied'
    BY <1>0, <2>1, <2>2, StartApplied DEF Pcs
  <2> QED BY <2>3, <2>4, <2>5
<1>3. CASE StartDns
  <2>1. pc[Start] = "dns" /\ UNCHANGED <<recorded, target, listener, host, asm, causes, raced>>
    BY <1>3 DEF StartDns, files, history
  <2>2. Busy(Start)
    BY <2>1 DEF Busy
  <2>3. ~raced => Clear
    BY <2>1 DEF Orderly, StartOrder
  <2>4. Opened' = Opened
    BY <2>1 DEF Opened
  <2>5. causes = {} => ~raced /\ (recorded \in Versions => Settled)
    BY <2>2 DEF Applied, Solo, Sole, Undisturbed
  <2>6. CASE CanLoad(Start)
    <3>1. Go(Start, "load") /\ code' = [code EXCEPT ![Default] = Loaded(Start)] /\ calc' = Dns
      BY <1>3, <2>6 DEF StartDns
    <3>2. code \in [Actors -> Whole \cup {NotLoaded}] /\ code'[Default] = Loaded(Start)
      BY <3>1 DEF Typed, TypeMemory
    <3>3. ~raced => target[Dll] \in Whole /\ code'[Default] = target[Dll]
      BY <1>0, <2>3, <2>6, <3>2 DEF CanLoad, Loaded, Clear
    <3>4. ~raced => Opened' = {} /\ code'[Default] # NotLoaded
      BY <2>3, <2>4, <3>3 DEF Clear, Whole, NotLoaded
    <3>5. Solo'
      BY <2>1, <2>2, <3>1, SoloBusy DEF Pcs, BusyPcs
    <3>6. Orderly'
      BY <2>1, <2>2, <3>1, <3>4, DownOrder DEF DownPcs
    <3>7. causes = {} /\ recorded \in Versions /\ Dll \in Changed(recorded) => code'[Default] >= recorded
      BY <2>5, <3>3 DEF Settled
    <3>8. Applied'
      BY <1>0, <2>1, <2>2, <3>1, <3>7, StartApplied DEF Pcs, BusyPcs
    <3> QED BY <3>5, <3>6, <3>8
  <2>7. CASE ~CanLoad(Start)
    <3>1. Go(Start, "failed") /\ UNCHANGED <<code, calc>>
      BY <1>3, <2>7 DEF StartDns
    <3>2. pc'[Start] = "failed" /\ \A m \in Actors \ {Start} : pc'[m] = pc[m]
      BY <1>0, <3>1 DEF Go
    <3>3. Solo'
      BY <2>1, <2>2, <3>1, SoloBusy DEF Pcs, BusyPcs
    <3>4. Orderly'
      <4> SUFFICES ASSUME ~raced' PROVE StartOrder' /\ (\A m \in Actors : HostOrder(m)') /\ RestOrder'
        BY DEF Orderly
      <4>1. StartOrder'
        BY <3>2 DEF StartOrder
      <4>2. RestOrder'
        BY <2>1, <2>3, <2>4, <3>1, <3>2 DEF RestOrder, Clear
      <4>3. \A m \in Actors \ {Start} : ~Busy(m)
        BY <2>1, <2>2 DEF Solo, Sole, Undisturbed
      <4>4. ASSUME NEW m \in Actors PROVE HostOrder(m)'
        BY <3>2, <4>3, <4>4 DEF HostOrder, Busy, BusyPcs, DownPcs, ReplacePcs
      <4> QED BY <4>1, <4>2, <4>4
    <3>5. causes = {} => Opened' = {}
      BY <2>3, <2>4, <2>5 DEF Clear
    <3>6. Applied'
      BY <1>0, <2>1, <2>2, <3>1, <3>5, StartApplied DEF Pcs, BusyPcs, ReplacePcs, FreshCode
    <3> QED BY <3>3, <3>4, <3>6
  <2> QED BY <2>6, <2>7
<1> QED BY <1>1, <1>2, <1>3 DEF StartStep

\* The assembly that StartService loads is the newest there is.
LEMMA LoadKeeps == ASSUME Inv, NEW n \in Actors, LoadAssembly(n) PROVE Solo' /\ Orderly' /\ Applied'
<1> USE ConstantFacts DEF Inv
<1>0. /\ pc[n] = "load" /\ Busy(n) /\ asm[n] \in {Default, n} /\ asm[Start] = Default
      /\ n # Start => n \in Updates /\ UpdateLocals(n)
  BY DEF LoadAssembly, Busy, BusyPcs, Locals, UpdateLocals, StartLocals
<1>1. ~raced => Opened = {}
  BY <1>0 DEF Orderly, HostOrder, DownPcs
<1>2. ~raced /\ n = Start => code[Default] # NotLoaded
  BY <1>0 DEF Orderly, StartOrder
<1>3. CASE ~CanLoad(n)
  <2>1. Thrown(n) /\ (n = Start \/ ~rescue[n] => UNCHANGED memory)
    BY <1>3 DEF LoadAssembly
  <2>3. ~raced /\ ~rescue[n] => Opened' = {}
    BY <1>1, <2>1 DEF memory, Opened
  <2> QED BY <1>0, <2>1, <2>3, ThrownKeeps
<1>4. CASE CanLoad(n)
  <2>1. /\ code' = [code EXCEPT ![asm[n]] = Loaded(n)] /\ calc' = asm[n] /\ Go(n, "host")
        /\ UNCHANGED <<recorded, target, ver, todo, item, have, got, asm, rescue, listener, host, causes, raced>>
    BY <1>4 DEF LoadAssembly, files, work, history
  <2>2. Opened' = Opened
    BY <2>1 DEF Opened
  <2>3. Solo'
    BY <1>0, <2>1, SoloBusy DEF Pcs, BusyPcs
  <2>4. Orderly'
    BY <1>0, <1>1, <2>1, <2>2, DownOrder DEF DownPcs, Orderly, HostOrder
  <2>5. code'[asm[n]] = Loaded(n)
    BY <1>0, <2>1 DEF Typed, TypeMemory
  <2>6. CASE n = Start
    <3>1. causes = {} => code'[Default] = code[Default]
      BY <1>0, <1>2, <2>5, <2>6 DEF Applied, Loaded
    <3>2. causes = {} /\ recorded \in Versions /\ Dll \in Changed(recorded) => code'[Default] >= recorded
      BY <1>0, <2>6, <3>1 DEF Applied, CodeApplied
    <3> QED BY <1>0, <2>1, <2>3, <2>4, <2>6, <3>2, StartApplied DEF Pcs, BusyPcs
  <2>7. CASE n # Start
    <3>1. pc'[n] = "host" /\ n \in Updates
      BY <1>0, <2>1, <2>7 DEF Go, Typed, TypeControl
    <3>2. causes = {} => AppliedBy(n) /\ todo[n] = {} /\ recorded = ver[n]
      BY <1>0, <2>7 DEF Applied, UpdateLocals, AppliedBy
    <3>3. causes = {} => AppliedBy(n)'
      BY <1>0, <2>1, <3>1, <3>2 DEF AppliedBy, ReplacePcs
    <3>4. ASSUME causes = {}, recorded \in Versions, Dll \in Changed(recorded) PROVE code'[asm[n]] >= recorded
      <4>1. asm[n] = n /\ got[n][Dll] >= recorded
        BY <1>0, <3>2, <3>4 DEF AppliedBy
      <4>2. code[n] = NotLoaded /\ n # Default
        BY <1>0, <2>7, <3>2, <3>4 DEF AppliedBy, UpdateLocals, Start, Default
      <4> QED BY <2>5, <4>1, <4>2 DEF Loaded
    <3> QED BY <1>0, <2>1, <2>3, <2>4, <3>1, <3>3, <3>4, BusyApplied DEF BusyPcs
  <2> QED BY <2>6, <2>7
<1> QED BY <1>3, <1>4

\* The host is made while nothing listens.
LEMMA HostKeeps == ASSUME Inv, NEW n \in Actors, NewHost(n) PROVE Solo' /\ Orderly' /\ Applied'
<1> USE ConstantFacts DEF Inv
<1>0. /\ pc[n] = "host" /\ Busy(n) /\ asm[n] \in Actors /\ asm[Start] = Default /\ <<n, rescue[n]>> \in Hosts
      /\ n # Start => n \in Updates
  BY DEF NewHost, Busy, BusyPcs, Locals, StartLocals, Typed, TypeControl
<1>1. /\ listener' = [listener EXCEPT ![asm[n]] = <<n, rescue[n]>>]
      /\ host' = [host EXCEPT ![<<n, rescue[n]>>] = "created"]
      /\ Go(n, "open")
      /\ UNCHANGED <<recorded, target, calc, code, ver, todo, item, have, got, asm, rescue, causes, raced>>
      /\ lost' = FALSE
  BY DEF NewHost, files, work
<1>2. listener'[asm[n]] = <<n, rescue[n]>> /\ host'[<<n, rescue[n]>>] = "created"
  BY <1>0, <1>1 DEF Typed, TypeMemory
<1>3. ~raced => Opened = {} /\ calc = asm[n]
  BY <1>0 DEF Orderly, HostOrder, DownPcs
<1>4. Opened = {} => Opened' = {}
  BY <1>0, <1>1 DEF Opened, Typed, TypeMemory
<1>5. Solo'
  BY <1>0, <1>1, <1>2, SoloBusy DEF Pcs, BusyPcs
<1>6. Orderly'
  BY <1>0, <1>1, <1>3, <1>4, DownOrder DEF DownPcs, ReplacePcs
<1>7. CASE n = Start
  <2>1. causes = {} /\ recorded \in Versions /\ Dll \in Changed(recorded) => code'[Default] >= recorded
    BY <1>0, <1>1, <1>7 DEF Applied, CodeApplied
  <2> QED BY <1>0, <1>1, <1>5, <1>6, <1>7, <2>1, StartApplied DEF Pcs, BusyPcs
<1>8. CASE n # Start
  <2>1. pc'[n] = "open" /\ n \in Updates
    BY <1>0, <1>1, <1>8 DEF Go, Typed, TypeControl
  <2>2. causes = {} => AppliedBy(n)
    BY <1>0, <1>8 DEF Applied
  <2>3. causes = {} => AppliedBy(n)'
    BY <1>0, <1>1, <2>1, <2>2 DEF AppliedBy, ReplacePcs
  <2>4. causes = {} /\ recorded \in Versions /\ Dll \in Changed(recorded) => code'[asm'[n]] >= recorded
    BY <1>0, <1>1 DEF Applied, CodeApplied
  <2> QED BY <1>0, <1>1, <1>5, <1>6, <2>1, <2>3, <2>4, BusyApplied DEF BusyPcs
<1> QED BY <1>7, <1>8

\* The host that is opened is the one just made, and then it is the only one.
LEMMA OpenKeeps == ASSUME Inv, NEW n \in Actors, OpenHost(n) PROVE Solo' /\ Orderly' /\ Applied'
<1> USE ConstantFacts DEF Inv
<1> DEFINE h == listener[asm[n]]
<1>0. /\ pc[n] = "open" /\ Busy(n) /\ asm[n] \in Actors /\ asm[Start] = Default /\ <<n, rescue[n]>> \in Hosts
      /\ pc \in [Actors -> Pcs]
      /\ n # Start => n \in Updates /\ UpdateLocals(n)
  BY DEF OpenHost, Busy, BusyPcs, Locals, StartLocals, Typed, TypeControl
<1>1. Undisturbed => h = <<n, rescue[n]>> /\ h \in Hosts /\ host[h] = "created"
  BY <1>0 DEF Solo, OpenReady
<1>2. ~raced => Opened = {} /\ calc = asm[n]
  BY <1>0 DEF Orderly, HostOrder, DownPcs
<1>3. CASE Go(n, "close") /\ ~Finish(n)
  <2>1. /\ host' = host \/ host' = [host EXCEPT ![h] = "faulted"]
        /\ lost' = (lost \/ (h # NoHost /\ host[h] = "created" /\ Opened = {}))
        /\ UNCHANGED <<recorded, target, calc, code, listener, ver, todo, item, have, got, asm, rescue, causes, raced>>
    BY <1>3 DEF OpenHost, files, work
  <2>2. ~raced => Opened' = {}
    BY <1>2, <2>1 DEF Opened, Typed, TypeMemory
  <2>3. ~raced => lost'
    BY <1>1, <1>2, <2>1, ConstantFacts DEF Undisturbed
  <2>4. Solo'
    BY <1>0, <1>3, <2>1, SoloBusy DEF Pcs, BusyPcs
  <2>5. Orderly'
    BY <1>0, <1>2, <1>3, <2>1, <2>2, <2>3, DownOrder DEF DownPcs, ReplacePcs
  <2>6. CASE n = Start
    BY <1>0, <1>3, <2>1, <2>4, <2>5, <2>6, StartApplied DEF Pcs, BusyPcs
  <2>7. CASE n # Start
    <3>1. pc'[n] = "close"
      BY <1>0, <1>3 DEF Go
    <3>2. causes = {} => AppliedBy(n)
      BY <1>0, <2>7 DEF Applied
    <3>3. causes = {} => AppliedBy(n)'
      BY <1>0, <2>1, <3>1, <3>2 DEF AppliedBy, ReplacePcs
    <3> QED BY <1>0, <1>3, <2>1, <2>4, <2>5, <2>7, <3>3, BusyApplied DEF BusyPcs
  <2> QED BY <2>6, <2>7
<1>4. CASE /\ h # NoHost /\ host[h] = "created" /\ Opened = {}
           /\ host' = [host EXCEPT ![h] = "opened"] /\ listener' = listener
           /\ Finish(n) /\ lost' = lost
  <2>1. Go(n, "done") /\ Forget({n}) /\ UNCHANGED <<recorded, target, calc, code, asm, rescue, broken, causes, raced>>
    BY <1>4 DEF Finish, files, history
  <2>2. pc'[n] = "done" /\ (\A m \in Actors \ {n} : pc'[m] = pc[m]) /\ ~Busy(n)'
    BY <1>0, <2>1 DEF Go, Busy, BusyPcs, ReplacePcs
  <2>3. Undisturbed => \A m \in Actors \ {n} : ~Busy(m) /\ ~Busy(m)'
    BY <1>0, <2>2 DEF Solo, Sole, Busy
  <2>5. Undisturbed => host' = [host EXCEPT ![h] = "opened"] /\ listener' = listener /\ Opened = {}
    BY <1>4
  <2>6. Undisturbed => Opened' = {h}
    BY <1>1, <2>5 DEF Opened, Typed, TypeMemory
  <2>7. Solo'
    BY <1>0, <2>1, SoloBusy DEF Pcs
  <2>8. Orderly'
    <3> SUFFICES ASSUME ~raced' PROVE StartOrder' /\ (\A m \in Actors : HostOrder(m)') /\ RestOrder'
      BY DEF Orderly
    <3>0. Undisturbed
      BY <2>1 DEF Undisturbed
    <3>1. StartOrder'
      <4>1. n # Start => Up
        BY <1>0, AwakeUp
      <4>2. n # Start => pc[Start] \notin {"down", "clean", "dns", "load"}
        BY <2>3, <3>0, <4>1 DEF Busy, BusyPcs, Up
      <4> QED BY <2>2, <4>2 DEF StartOrder
    <3>2. Serving' /\ ~lost'
      <4>1. ~lost
        BY <1>0, <2>1 DEF Orderly, HostOrder
      <4> QED BY <1>0, <1>1, <1>2, <1>4, <2>1, <2>5, <2>6, <3>0, <4>1 DEF Serving
    <3>3. RestOrder'
      BY <3>2 DEF RestOrder
    <3>4. ASSUME NEW m \in Actors PROVE HostOrder(m)'
      BY <2>2, <2>3, <3>0, <3>4 DEF HostOrder, Busy, BusyPcs, DownPcs, ReplacePcs
    <3> QED BY <3>1, <3>3, <3>4
  <2>9. Applied'
    <3> SUFFICES ASSUME causes = {} PROVE Applied'
      BY <2>1 DEF Applied
    <3>0. Undisturbed /\ \A m \in Actors : ~Busy(m)'
      BY <2>2, <2>3 DEF Undisturbed
    <3>1. recorded \in Versions => Settled'
      <4>1. CASE n = Start
        <5>1. recorded \in Versions => Settled
          BY <2>3, <3>0, <4>1 DEF Applied
        <5> QED BY <2>1, <5>1 DEF Settled
      <4>2. CASE n # Start
        <5>1. AppliedBy(n) /\ recorded = ver[n] /\ todo[n] = {}
          BY <1>0, <4>2 DEF Applied, AppliedBy, UpdateLocals
        <5>2. pc[n] \notin ReplacePcs
          BY <1>0 DEF ReplacePcs
        <5> QED BY <2>1, <5>1, <5>2 DEF AppliedBy, Settled
      <4> QED BY <4>1, <4>2
    <3>2. ASSUME recorded \in Versions, Dll \in Changed(recorded) PROVE FreshCode'
      <4>1. code[asm[n]] >= recorded
        BY <1>0, <3>2 DEF Applied, CodeApplied
      <4>2. ~rescue[n]
        BY <1>0 DEF Applied, AppliedBy, Locals, StartLocals
      <4>3. ASSUME NEW a \in Actors, listener'[a] \in Opened' PROVE a = asm[n]
        <5>1. listener[a] = <<n, FALSE>>
          BY <1>0, <1>1, <2>5, <2>6, <3>0, <4>2, <4>3 DEF Typed, TypeControl
        <5> QED BY <1>0, <4>2, <5>1 DEF Locals, OwnHosts
      <4> QED BY <2>1, <4>1, <4>3 DEF FreshCode
    <3>3. \A m \in Actors : pc'[m] \notin {"load", "host", "open"}
      BY <3>0 DEF Busy, BusyPcs
    <3> QED BY <2>1, <3>0, <3>1, <3>2, <3>3 DEF Applied, CodeApplied
  <2> QED BY <2>7, <2>8, <2>9
<1>5. Go(n, "close") => ~Finish(n)
  BY <1>0 DEF Finish, Go
<1> QED BY <1>3, <1>4, <1>5 DEF OpenHost

\* A host that was refused is closed, and nothing listens.
LEMMA CloseKeeps == ASSUME Inv, NEW n \in Actors, CloseHost(n) PROVE Solo' /\ Orderly' /\ Applied'
<1> USE ConstantFacts DEF Inv
<1> DEFINE h == listener[asm[n]]
<1>0. /\ pc[n] = "close" /\ Busy(n) /\ asm[n] \in Actors /\ asm[Start] = Default
      /\ pc \in [Actors -> Pcs]
      /\ n # Start => n \in Updates /\ UpdateLocals(n)
  BY DEF CloseHost, Busy, BusyPcs, Locals, StartLocals, Typed, TypeControl
<1>2. ~raced => Opened = {} /\ calc = asm[n] /\ lost
  BY <1>0 DEF Orderly, HostOrder, DownPcs
<1>3. CASE Thrown(n) /\ ((n = Start \/ ~rescue[n]) => host' = [host EXCEPT ![h] = "closed"])
  <2>1. ~rescue[Start]
    BY DEF Locals, StartLocals
  <2>2. ~raced /\ ~rescue[n] => Opened' = {}
    BY <1>2, <1>3 DEF Opened, Typed, TypeMemory
  <2> QED BY <1>0, <1>3, <2>2, ThrownKeeps
<1>4. CASE Finish(n) /\ lost' = lost /\ (host' = host \/ host' = [host EXCEPT ![h] = "closed"])
  <2>1. Go(n, "done") /\ Forget({n}) /\ UNCHANGED <<recorded, target, calc, code, asm, rescue, broken, causes, raced>>
    BY <1>4 DEF Finish, files
  <2>2. pc'[n] = "done" /\ (\A m \in Actors \ {n} : pc'[m] = pc[m]) /\ ~Busy(n)'
    BY <1>0, <2>1 DEF Go, Busy, BusyPcs, ReplacePcs
  <2>3. Undisturbed => \A m \in Actors \ {n} : ~Busy(m) /\ ~Busy(m)'
    BY <1>0, <2>2 DEF Solo, Sole, Busy
  <2>4. ~raced => Opened' = {}
    BY <1>2, <1>4 DEF Opened, Typed, TypeMemory
  <2>5. Solo'
    BY <1>0, <2>1, SoloBusy DEF Pcs
  <2>6. Orderly'
    <3> SUFFICES ASSUME ~raced' PROVE StartOrder' /\ (\A m \in Actors : HostOrder(m)') /\ RestOrder'
      BY DEF Orderly
    <3>0. Undisturbed
      BY <2>1 DEF Undisturbed
    <3>1. StartOrder'
      <4>1. n # Start => Up
        BY <1>0, AwakeUp
      <4>2. n # Start => pc[Start] \notin {"down", "clean", "dns", "load"}
        BY <2>3, <3>0, <4>1 DEF Busy, BusyPcs, Up
      <4> QED BY <2>2, <4>2 DEF StartOrder
    <3>2. RestOrder'
      BY <1>0, <1>2, <1>4, <2>1, <2>4 DEF RestOrder
    <3>3. ASSUME NEW m \in Actors PROVE HostOrder(m)'
      BY <2>2, <2>3, <3>0, <3>3 DEF HostOrder, Busy, BusyPcs, DownPcs, ReplacePcs
    <3> QED BY <3>1, <3>2, <3>3
  <2>7. Applied'
    <3> SUFFICES ASSUME causes = {} PROVE Applied'
      BY <2>1 DEF Applied
    <3>0. Undisturbed /\ \A m \in Actors : ~Busy(m)'
      BY <2>2, <2>3 DEF Undisturbed
    <3>1. recorded \in Versions => Settled'
      <4>1. CASE n = Start
        <5>1. recorded \in Versions => Settled
          BY <2>3, <3>0, <4>1 DEF Applied
        <5> QED BY <2>1, <5>1 DEF Settled
      <4>2. CASE n # Start
        <5>1. AppliedBy(n) /\ recorded = ver[n] /\ todo[n] = {}
          BY <1>0, <4>2 DEF Applied, AppliedBy, UpdateLocals
        <5>2. pc[n] \notin ReplacePcs
          BY <1>0 DEF ReplacePcs
        <5> QED BY <2>1, <5>1, <5>2 DEF AppliedBy, Settled
      <4> QED BY <4>1, <4>2
    <3>2. ~raced => FreshCode'
      BY <2>4 DEF FreshCode
    <3>3. \A m \in Actors : pc'[m] \notin {"load", "host", "open"}
      BY <3>0 DEF Busy, BusyPcs
    <3> QED BY <2>1, <3>0, <3>1, <3>2, <3>3 DEF Applied, CodeApplied
  <2> QED BY <2>5, <2>6, <2>7
<1> QED BY <1>3, <1>4 DEF CloseHost

\* Of what a callback does before it is busy, only a truncation matters.
LEMMA CheckKeeps == ASSUME Inv, NEW n \in Updates, CheckUpadate(n) PROVE Solo' /\ Orderly' /\ Applied'
<1> USE ConstantFacts DEF Inv
<1>0. n \in Actors /\ n # Start /\ pc \in [Actors -> Pcs] /\ UpdateLocals(n)
  BY DEF Typed, TypeControl, Locals
<1>1. CASE ReadRemote(n)
  <2>1. /\ Up /\ pc[n] = "free" /\ Go(n, "decide")
        /\ UNCHANGED <<files, memory, item, have, got, asm, rescue, history>>
        /\ \A m \in Updates \ {n} : ver'[m] = ver[m] /\ todo'[m] = todo[m]
    BY <1>1 DEF ReadRemote, Typed, TypeWork
  <2> QED BY <2>1, IdleKeeps DEF CheckPcs
<1>2. CASE CompareVersions(n) \/ (Truncate(n) /\ Locked)
  <2>1. /\ pc[n] \in {"decide", "truncate"} /\ UNCHANGED <<files, memory, asm, rescue, history>>
        /\ (Go(n, "free") /\ Forget({n})) \/ (Go(n, "truncate") /\ UNCHANGED work)
    BY <1>2 DEF CompareVersions, Truncate, files
  <2>2. \A m \in Updates \ {n} : /\ ver'[m] = ver[m] /\ todo'[m] = todo[m] /\ item'[m] = item[m]
                                 /\ have'[m] = have[m] /\ got'[m] = got[m]
    BY <2>1 DEF Forget, work
  <2>3. Up
    BY <2>1, AwakeUp
  <2> QED BY <2>1, <2>2, <2>3, IdleKeeps DEF CheckPcs
<1>3. CASE Truncate(n) /\ ~Locked
  <2> DEFINE alone == ~\E o \in Actors \ {n} : Busy(o)
  <2>1. /\ pc[n] = "truncate" /\ recorded' = 0 /\ Go(n, "write")
        /\ causes' = (IF alone THEN {} ELSE {"overlap"})
        /\ raced' = (raced \/ ~alone)
        /\ UNCHANGED <<target, calc, code, listener, host, ver, todo, item, have, got, asm, rescue, lost>>
    BY <1>3 DEF Truncate, memory, work
  <2>2. /\ pc'[n] = "write" /\ Busy(n)' /\ ~Busy(n)
        /\ \A m \in Actors \ {n} : pc'[m] = pc[m] /\ (Busy(m)' <=> Busy(m))
    BY <1>0, <2>1 DEF Go, Busy, BusyPcs, ReplacePcs
  <2>3. causes' = {} => alone
    BY <2>1
  <2>4. ~raced' => alone /\ ~raced
    BY <2>1
  <2>5. Opened' = Opened
    BY <2>1 DEF Opened
  <2>6. Solo'
    <3> SUFFICES ASSUME alone PROVE Sole' /\ OpenReady'
      BY <2>3, <2>4 DEF Solo, Undisturbed
    <3>1. Sole'
      BY <2>2 DEF Sole
    <3>2. OpenReady'
      BY <2>2 DEF OpenReady, Busy, BusyPcs
    <3> QED BY <3>1, <3>2
  <2>7. Orderly'
    <3> SUFFICES ASSUME ~raced' PROVE StartOrder' /\ (\A m \in Actors : HostOrder(m)') /\ RestOrder'
      BY DEF Orderly
    <3>1. StartOrder'
      BY <1>0, <2>1, <2>2, <2>4, <2>5 DEF Orderly, StartOrder, Clear
    <3>2. RestOrder'
      BY <1>0, <2>1, <2>2, <2>4, <2>5 DEF Orderly, RestOrder, Serving, DownPcs, ReplacePcs
    <3>3. ASSUME NEW m \in Actors PROVE HostOrder(m)'
      BY <2>2, <2>4, <3>3 DEF HostOrder, Busy, BusyPcs, DownPcs, ReplacePcs
    <3> QED BY <3>1, <3>2, <3>3
  <2>8. Applied'
    <3> SUFFICES ASSUME alone PROVE /\ ~Busy(Start)'
                                    /\ \A m \in Updates : Busy(m)' => AppliedBy(m)'
      BY <1>0, <2>1, <2>2, <2>3 DEF Applied, CodeApplied, Versions
    <3>1. \A m \in Updates : Busy(m)' => m = n
      BY <2>2
    <3>2. AppliedBy(n)'
      BY <1>0, <2>1, <2>2 DEF AppliedBy, UpdateLocals, Todo, Versions
    <3> QED BY <1>0, <2>2, <3>1, <3>2
  <2> QED BY <2>6, <2>7, <2>8
<1>4. CASE RecordVersion(n)
  <2>1. /\ pc[n] = "write" /\ recorded' = ver[n] /\ Go(n, "dispose")
        /\ UNCHANGED <<target, calc, code, listener, host, ver, todo, item, have, got, asm, rescue, causes, raced, lost>>
    BY <1>4 DEF RecordVersion, memory, work, history
  <2>2. /\ pc'[n] = "dispose" /\ Busy(n) /\ \A m \in Actors \ {n} : pc'[m] = pc[m]
    BY <1>0, <2>1 DEF Go, Busy, BusyPcs
  <2>3. Opened' = Opened
    BY <2>1 DEF Opened
  <2>4. Solo'
    BY <1>0, <2>1, <2>2, SoloBusy DEF Pcs, BusyPcs
  <2>5. Orderly'
    <3> SUFFICES ASSUME ~raced' PROVE StartOrder' /\ (\A m \in Actors : HostOrder(m)') /\ RestOrder'
      BY DEF Orderly
    <3>1. StartOrder'
      BY <1>0, <2>1, <2>2, <2>3 DEF Orderly, StartOrder, Clear
    <3>2. RestOrder'
      BY <1>0, <2>1, <2>2, <2>3 DEF Orderly, RestOrder, Serving, DownPcs, ReplacePcs
    <3>3. \A m \in Actors \ {n} : ~Busy(m)
      BY <1>0, <2>1, <2>2 DEF Solo, Sole, Undisturbed
    <3>4. ASSUME NEW m \in Actors PROVE HostOrder(m)'
      BY <2>2, <3>3, <3>4 DEF HostOrder, Busy, BusyPcs, DownPcs, ReplacePcs
    <3> QED BY <3>1, <3>2, <3>4
  <2>6. causes = {} => AppliedBy(n)'
    <3>1. todo[n] = Todo(n)
      BY <1>0, <2>1 DEF UpdateLocals
    <3>2. causes = {} => AppliedBy(n)
      BY <2>2 DEF Applied
    <3> QED BY <2>1, <2>2, <3>1, <3>2 DEF AppliedBy, Todo, Versions
  <2>7. Applied'
    BY <2>1, <2>2, <2>6, BusyApplied DEF BusyPcs
  <2> QED BY <2>4, <2>5, <2>7
<1> QED BY <1>1, <1>2, <1>3, <1>4 DEF CheckUpadate

\* Dispose finds the web service that listens, and it listens no more.
LEMMA DisposeKeeps == ASSUME Inv, NEW n \in Updates, Dispose(n) \/ ClearListener(n) PROVE Solo' /\ Orderly' /\ Applied'
<1> USE ConstantFacts DEF Inv
<1>0. /\ n \in Actors /\ n # Start /\ n # Default /\ pc \in [Actors -> Pcs] /\ UpdateLocals(n)
      /\ pc[n] \in {"dispose", "clear"} /\ Busy(n) /\ Up
  <2>1. n \in Actors /\ n # Start /\ n # Default /\ pc \in [Actors -> Pcs] /\ UpdateLocals(n)
    BY DEF Typed, TypeControl, Locals, Start, Default
  <2>2. pc[n] \in {"dispose", "clear"}
    BY DEF Dispose, ClearListener
  <2> QED BY <2>1, <2>2, AwakeUp DEF Busy, BusyPcs
<1>1. CASE ClearListener(n)
  <2>1. /\ pc[n] = "clear" /\ Go(n, "next") /\ asm' = [asm EXCEPT ![n] = Default]
        /\ UNCHANGED <<recorded, target, host, ver, todo, item, have, got, rescue, causes, raced>>
    BY <1>1 DEF ClearListener, files, work, history
  <2>2. pc'[n] = "next" /\ asm'[n] = Default
    BY <1>0, <2>1 DEF Go, Typed, TypeControl
  <2>3. ~raced => Opened' = {}
    BY <1>0, <2>1 DEF Orderly, HostOrder, DownPcs, Opened
  <2>4. Solo'
    BY <1>0, <2>1, SoloBusy DEF Pcs, BusyPcs
  <2>5. Orderly'
    BY <1>0, <2>1, <2>2, <2>3, DownOrder DEF DownPcs
  <2>6. causes = {} => AppliedBy(n)'
    <3>1. todo[n] = Todo(n)
      BY <1>0, <2>1 DEF UpdateLocals
    <3>2. causes = {} => AppliedBy(n)
      BY <1>0 DEF Applied
    <3> QED BY <2>1, <2>2, <3>1, <3>2 DEF AppliedBy, Todo, Versions
  <2> QED BY <1>0, <2>1, <2>4, <2>5, <2>6, BusyApplied DEF BusyPcs
<1>2. ~raced /\ Dispose(n) => Serving \/ Opened = {}
  <2>1. ~raced => \A m \in Actors \ {n} : ~Busy(m)
    BY <1>0 DEF Solo, Sole, Undisturbed
  <2>2. ~raced /\ Dispose(n) => \A m \in Actors : pc[m] \notin DownPcs \cup {"down", "clean", "dns"}
    <3>1. ~raced => pc[Start] \notin DownPcs \cup {"down", "clean", "dns"}
      BY <1>0, <2>1 DEF Up, Busy, BusyPcs, DownPcs, ReplacePcs
    <3>2. Dispose(n) => pc[n] \notin DownPcs \cup {"down", "clean", "dns"}
      BY DEF Dispose, DownPcs, ReplacePcs
    <3>3. ASSUME NEW m \in Updates \ {n}, ~raced PROVE pc[m] \notin DownPcs \cup {"down", "clean", "dns"}
      BY <2>1, <3>3 DEF Busy, BusyPcs, DownPcs, ReplacePcs, Locals, UpdateLocals, CheckPcs
    <3> QED BY <3>1, <3>2, <3>3
  <2> QED BY <2>2 DEF Orderly, RestOrder
<1>3. Opened = {} /\ (host' = host \/ host' = [host EXCEPT ![listener[calc]] = "closed"]) => Opened' = {}
  BY DEF Opened, Typed, TypeMemory
<1>4. ASSUME Serving, host' = [host EXCEPT ![listener[calc]] = "closed"] PROVE Opened' = {}
  <2>1. PICK h \in Hosts : Opened = {h} /\ listener[calc] = h
    BY <1>4 DEF Serving
  <2> QED BY <1>4, <2>1 DEF Opened, Typed, TypeMemory
<1>5. Serving => calc \in Actors /\ listener[calc] # NoHost
  BY DEF Serving
<1>a. Dns \notin Actors /\ NoInstance \notin Actors /\ Dns # NoInstance
  BY DEF Dns, NoInstance, Actors, Updates, Start
<1>6. CASE Dispose(n) /\ Thrown(n)
  <2>2. ~raced /\ ~rescue[n] => Opened' = {}
    <3> SUFFICES ASSUME ~raced, ~rescue[n] PROVE Opened' = {}
      OBVIOUS
    <3>1. pc'[n] = "load"
      BY <1>0, <1>6 DEF Thrown, Go
    <3>2. \/ calc = Dns /\ UNCHANGED memory
          \/ calc \in Actors /\ listener[calc] # NoHost /\ host' = [host EXCEPT ![listener[calc]] = "closed"]
      BY <1>0, <1>6, <3>1 DEF Dispose, Go
    <3>3. host' = host \/ host' = [host EXCEPT ![listener[calc]] = "closed"]
      BY <3>2 DEF memory
    <3> QED BY <1>2, <1>3, <1>4, <1>5, <1>6, <1>a, <3>2, <3>3
  <2> QED BY <1>0, <1>6, <2>2, ThrownKeeps
<1>7. CASE Dispose(n) /\ ~Thrown(n)
  <2>1. /\ pc[n] = "dispose"
        /\ UNCHANGED <<recorded, target, ver, todo, item, have, got, rescue, causes, raced>>
    BY <1>7 DEF Dispose, files, work, history
  <2>2. PICK p \in {"next", "clear"} : Go(n, p) /\ (p = "next" => asm' = asm)
    BY <1>7 DEF Dispose
  <2>3. ~raced => Opened' = {}
    <3> SUFFICES ASSUME ~raced PROVE Opened' = {}
      OBVIOUS
    <3>1. \/ calc = NoInstance /\ host' = host
          \/ calc \in Actors /\ listener[calc] # NoHost /\ host' = [host EXCEPT ![listener[calc]] = "closed"]
          \/ calc \in Actors /\ listener[calc] = NoHost /\ host' = host
      BY <1>7 DEF Dispose, memory
    <3> QED BY <1>2, <1>3, <1>4, <1>5, <1>7, <1>a, <3>1
  <2>4. asm[n] = Default
    BY <1>0, <2>1 DEF UpdateLocals
  <2>5. Solo'
    BY <1>0, <2>1, <2>2, SoloBusy DEF Pcs, BusyPcs
  <2>6. Orderly'
    BY <1>0, <2>1, <2>2, <2>3, <2>4, DownOrder DEF DownPcs, ReplacePcs
  <2>7. pc'[n] = p
    BY <1>0, <2>2 DEF Go
  <2>8. causes = {} => AppliedBy(n)'
    <3>1. todo[n] = Todo(n)
      BY <1>0, <2>1 DEF UpdateLocals
    <3>2. causes = {} => AppliedBy(n)
      BY <1>0 DEF Applied
    <3> QED BY <2>1, <2>2, <2>7, <3>1, <3>2 DEF AppliedBy, Todo, Versions
  <2> QED BY <1>0, <2>1, <2>2, <2>5, <2>6, <2>8, BusyApplied DEF BusyPcs
<1> QED BY <1>1, <1>6, <1>7

\* An item goes from the list to the hands of the update to its place.
LEMMA ReplaceKeeps == ASSUME Inv, NEW n \in Updates, StartUpdate(n) PROVE Solo' /\ Orderly' /\ Applied'
<1> USE ConstantFacts DEF Inv
<1>0. /\ n \in Actors /\ n # Start /\ pc \in [Actors -> Pcs] /\ asm \in [Actors -> Actors]
      /\ todo \in [Updates -> SUBSET Items] /\ item \in [Updates -> Items]
      /\ have \in [Updates -> SUBSET Items] /\ got \in [Updates -> [Items -> Whole]]
      /\ target \in [Items -> Whole \cup {Missing, Blank}]
      /\ UpdateLocals(n)
  BY DEF Typed, TypeControl, TypeWork, TypeFiles, Locals
<1>1. /\ pc[n] \in {"next"} \cup ReplacePcs /\ Busy(n)
      /\ UNCHANGED <<recorded, calc, code, listener, host, ver, rescue, raced, lost>>
  BY DEF StartUpdate, Download, AllReplaced, PrepareTarget, CreateTarget, MoveTarget, CopyTarget, memory, work,
         files, history, ReplacePcs, Busy, BusyPcs
<1>2. PICK p \in {"next", "load"} \cup ReplacePcs : Go(n, p)
  BY DEF StartUpdate, Download, AllReplaced, PrepareTarget, CreateTarget, MoveTarget, CopyTarget, Skip, ReplacePcs
<1>3. pc'[n] = p
  BY <1>0, <1>2 DEF Go
<1>4. ~raced => Opened' = {} /\ HostOrder(n)
  BY <1>0, <1>1 DEF Orderly, HostOrder, DownPcs, Opened
<1>5. causes' = {} => causes = {}
  BY DEF StartUpdate, Download, AllReplaced, PrepareTarget, CreateTarget, MoveTarget, CopyTarget, Skip, history
<1>6. causes = {} => AppliedBy(n)
  BY <1>1 DEF Applied
<1>7. \A i \in Items : i # item[n] => target'[i] = target[i]
  BY <1>0 DEF StartUpdate, Download, AllReplaced, PrepareTarget, CreateTarget, MoveTarget, CopyTarget, files
<1>8. (recorded = ver[n] /\ pc[n] # "write") \/ causes # {}
  BY <1>1, <1>6 DEF AppliedBy, ReplacePcs
<1>9. ver[n] \in Versions => Changed(ver[n]) \subseteq Items
  OBVIOUS
<1>10. ~raced => /\ p \in {"load", "next"} \cup ReplacePcs /\ asm'[n] = n => Dll \in have'[n]
                 /\ p \in {"prepare", "create", "move"} => item'[n] \in have'[n]
  <2> SUFFICES ASSUME ~raced
               PROVE /\ asm'[n] = n => Dll \in have'[n]
                     /\ p \in {"prepare", "create", "move"} => item'[n] \in have'[n]
    OBVIOUS
  <2>0. /\ asm[n] = n => Dll \in have[n]
        /\ pc[n] \in {"prepare", "create", "move"} => item[n] \in have[n]
    BY <1>0, <1>1, <1>4 DEF HostOrder
  <2>1. CASE Download(n)
    <3>1. have[n] \subseteq have'[n] /\ asm' = asm
      BY <1>0, <2>1 DEF Download
    <3>2. p = "prepare" => item'[n] \in have'[n]
      BY <1>0, <1>3, <2>1 DEF Download, Skip, Go
    <3>3. p \in {"prepare", "next"}
      BY <1>0, <1>3, <2>1 DEF Download, Skip, Go
    <3> QED BY <2>0, <3>1, <3>2, <3>3
  <2>2. CASE AllReplaced(n) \/ CopyTarget(n)
    <3>1. UNCHANGED <<asm, have>> /\ pc'[n] \in {"load", "next"}
      BY <1>0, <2>2 DEF AllReplaced, CopyTarget, Skip, Go, work
    <3> QED BY <1>3, <2>0, <3>1
  <2>3. CASE PrepareTarget(n) \/ CreateTarget(n)
    <3>1. UNCHANGED <<asm, have, item>> /\ pc[n] \in {"prepare", "create"}
      BY <2>3 DEF PrepareTarget, CreateTarget, work
    <3> QED BY <2>0, <3>1
  <2>4. CASE MoveTarget(n)
    <3>1. UNCHANGED <<have, item>> /\ pc[n] = "move" /\ pc'[n] \in {"copy", "next"}
          /\ asm' \in {asm, IF item[n] = Dll THEN [asm EXCEPT ![n] = n] ELSE asm}
      BY <1>0, <2>4 DEF MoveTarget, Skip, Go, work
    <3> QED BY <1>0, <1>3, <2>0, <3>1
  <2> QED BY <2>1, <2>2, <2>3, <2>4 DEF StartUpdate
<1>11. Orderly'
  BY <1>0, <1>1, <1>2, <1>4, <1>10, DownOrder DEF DownPcs, ReplacePcs
<1>12. Solo'
  BY <1>0, <1>1, <1>2, <1>5, SoloBusy DEF Pcs, BusyPcs, ReplacePcs
<1>13. ASSUME causes' = {} PROVE AppliedBy(n)'
  <2>0. /\ causes = {} /\ AppliedBy(n) /\ ~rescue'[n] /\ recorded' = ver'[n] /\ pc'[n] # "write" /\ pc[n] # "write"
        /\ ver' = ver
    BY <1>1, <1>2, <1>3, <1>5, <1>6, <1>8, <1>13 DEF AppliedBy, ReplacePcs
  <2> SUFFICES ASSUME ver[n] \in Versions, NEW i \in Changed(ver[n]) \ todo'[n]
               PROVE  /\ got'[n][i] >= ver[n]
                      /\ (pc'[n] \in ReplacePcs /\ item'[n] = i) \/ target'[i] >= ver[n]
                      /\ i = Dll => asm'[n] = n \/ (pc'[n] \in {"prepare", "create", "move"} /\ item'[n] = i)
    BY <2>0 DEF AppliedBy
  <2>1. i \in Items
    BY <1>9
  <2>2. ASSUME i \notin todo[n]
        PROVE /\ got[n][i] >= ver[n]
              /\ (pc[n] \in ReplacePcs /\ item[n] = i) \/ target[i] >= ver[n]
              /\ i = Dll => asm[n] = n \/ (pc[n] \in {"prepare", "create", "move"} /\ item[n] = i)
    BY <2>0, <2>2 DEF AppliedBy
  <2>3. CASE Download(n)
    <3>1. PICK j \in todo[n] :
            /\ todo' = [todo EXCEPT ![n] = @ \ {j}]
            /\ item' = [item EXCEPT ![n] = j]
            /\ got' = [got EXCEPT ![n][j] = remote]
            /\ Go(n, "prepare")
      BY <1>13, <2>0, <2>3 DEF Download, Skip
    <3>2. pc[n] = "next" /\ UNCHANGED <<target, asm>>
      BY <2>3 DEF Download, files
    <3>3. pc'[n] = "prepare" /\ item'[n] = j /\ todo'[n] = todo[n] \ {j}
      BY <1>0, <3>1 DEF Go
    <3>4. CASE i = j
      <4>1. got'[n][i] = remote
        BY <1>0, <2>1, <3>1, <3>4
      <4>2. remote >= ver[n]
        BY <1>0 DEF UpdateLocals, Typed, TypeFiles, TypeWork, Whole
      <4> QED BY <3>3, <3>4, <4>1, <4>2 DEF ReplacePcs
    <3>5. CASE i # j
      <4>1. got'[n][i] = got[n][i]
        BY <1>0, <2>1, <3>1, <3>5
      <4>2. i \notin todo[n]
        BY <3>3, <3>5
      <4> QED BY <2>2, <3>2, <4>1, <4>2 DEF ReplacePcs
    <3> QED BY <3>4, <3>5
  <2>4. CASE ~Download(n)
    <3>1. UNCHANGED <<todo, item, got>>
      BY <2>4 DEF StartUpdate, AllReplaced, PrepareTarget, CreateTarget, MoveTarget, CopyTarget, work
    <3>2. CASE i # item[n]
      <4>1. target'[i] = target[i]
        BY <1>7, <2>1, <3>2
      <4>2. asm'[n] = n \/ asm' = asm
        BY <1>0, <2>4 DEF StartUpdate, AllReplaced, PrepareTarget, CreateTarget, MoveTarget, CopyTarget
      <4> QED BY <2>2, <3>1, <3>2, <4>1, <4>2
    <3>3. CASE i = item[n]
      <4>1. CASE AllReplaced(n)
        <5>1. pc[n] = "next" /\ UNCHANGED <<target, asm>>
          BY <4>1 DEF AllReplaced, files
        <5> QED BY <2>2, <3>1, <5>1 DEF ReplacePcs
      <4>2. CASE PrepareTarget(n) \/ CreateTarget(n)
        <5>1. pc[n] \in {"prepare", "create"} /\ asm' = asm /\ pc'[n] \in {"create", "move"}
          BY <1>0, <1>13, <2>0, <4>2 DEF PrepareTarget, CreateTarget, Skip, Go
        <5> QED BY <2>2, <3>1, <3>3, <5>1 DEF ReplacePcs
      <4>3. CASE MoveTarget(n)
        <5>1. pc[n] = "move" /\ pc'[n] = "copy" /\ (i = Dll => asm'[n] = n)
          BY <1>0, <1>13, <2>0, <3>3, <4>3 DEF MoveTarget, Skip, Go
        <5> QED BY <2>2, <3>1, <3>3, <5>1 DEF ReplacePcs
      <4>4. CASE CopyTarget(n)
        <5>1. pc[n] = "copy" /\ target'[i] = got[n][i] /\ asm' = asm
          BY <1>0, <1>13, <2>0, <2>1, <3>3, <4>4 DEF CopyTarget, Skip
        <5> QED BY <2>2, <3>1, <5>1 DEF ReplacePcs
      <4> QED BY <2>4, <4>1, <4>2, <4>3, <4>4 DEF StartUpdate
    <3> QED BY <3>2, <3>3
  <2> QED BY <2>3, <2>4
<1>14. Applied'
  <2>1. p \in BusyPcs /\ p \notin {"host", "open"}
    BY <1>2 DEF BusyPcs, ReplacePcs
  <2> QED BY <1>1, <1>2, <1>5, <1>13, <2>1, BusyApplied
<1> QED BY <1>11, <1>12, <1>14

\* The invariant holds at first ...
LEMMA InitInv == Init => Inv
BY InitType, InitLocals, InitKeeps DEF Inv

\* ... and after every step.
LEMMA NextInv == Inv /\ [Next]_vars => Inv'
<1> SUFFICES ASSUME Inv, [Next]_vars PROVE Inv'
  OBVIOUS
<1>0. Typed' /\ Locals'
  BY NextLocals DEF Inv
<1>1. CASE Publish
  <2>1. UNCHANGED <<recorded, target, calc, code, listener, host, pc, ver, todo, item, have, got, asm, rescue,
                    causes, raced, lost>>
    BY <1>1 DEF Publish, files, memory, work, history
  <2>2. Solo' /\ Orderly' /\ Applied'
    BY <2>1 DEF Inv, Solo, Sole, OpenReady, Undisturbed, Orderly, StartOrder, HostOrder, RestOrder, Serving, Clear,
                Opened, Applied, AppliedBy, CodeApplied, FreshCode, Settled, Busy
  <2> QED BY <1>0, <2>2 DEF Inv
<1>2. CASE Crash
  BY <1>0, <1>2, EndsKeeps DEF Crash, Inv
<1>3. CASE StartStep
  BY <1>0, <1>3, StartKeeps DEF Inv
<1>4. ASSUME NEW n \in Actors, StartService(n) PROVE Inv'
  BY <1>0, <1>4, LoadKeeps, HostKeeps, OpenKeeps, CloseKeeps DEF StartService, Inv
<1>5. ASSUME NEW n \in Updates, Callback(n) PROVE Inv'
  BY <1>0, <1>5, CheckKeeps, DisposeKeeps, ReplaceKeeps DEF Callback, Inv
<1>6. CASE UNCHANGED vars
  <2>1. UNCHANGED <<recorded, target, calc, code, listener, host, pc, ver, todo, item, have, got, asm, rescue,
                    causes, raced, lost>>
    BY <1>6 DEF vars, files, memory, work, history
  <2>2. Solo' /\ Orderly' /\ Applied'
    BY <2>1 DEF Inv, Solo, Sole, OpenReady, Undisturbed, Orderly, StartOrder, HostOrder, RestOrder, Serving, Clear,
                Opened, Applied, AppliedBy, CodeApplied, FreshCode, Settled, Busy
  <2> QED BY <1>0, <2>2 DEF Inv
<1>7. CASE HostFaults
  <2>1. /\ \E h \in Opened : host' = [host EXCEPT ![h] = "faulted"]
        /\ lost' = TRUE
        /\ UNCHANGED <<recorded, target, calc, code, listener, pc, ver, todo, item, have, got, asm, rescue,
                       causes, raced>>
    BY <1>7 DEF HostFaults, files, work
  <2>2. PICK h \in Opened : host' = [host EXCEPT ![h] = "faulted"]
    BY <2>1
  <2>3. host \in [Hosts -> HostStates] /\ h \in Hosts
    BY DEF Inv, Typed, TypeMemory, Opened
  <2>4. Opened' = Opened \ {h}
    BY <2>2, <2>3 DEF Opened
  <2>5. \A g \in Hosts : host[g] = "created" => host'[g] = "created"
    BY <2>2, <2>3 DEF Opened
  <2>6. Solo'
    <3>1. OpenReady => OpenReady'
      BY <2>1, <2>5, ConstantFacts DEF OpenReady, Inv, Typed, TypeControl
    <3> QED BY <2>1, <3>1 DEF Inv, Solo, Sole, Undisturbed, Busy
  <2>7. Orderly'
    <3> SUFFICES ASSUME ~raced PROVE StartOrder' /\ (\A n \in Actors : HostOrder(n)') /\ RestOrder'
      BY <2>1 DEF Orderly
    <3>1. Orderly /\ Opened # {}
      BY DEF Inv
    <3>2. StartOrder'
      BY <2>1, <3>1 DEF Orderly, StartOrder, Clear
    <3>3. ASSUME NEW n \in Actors PROVE HostOrder(n)'
      BY <2>1, <3>1 DEF Orderly, HostOrder, DownPcs
    <3>4. RestOrder'
      BY <2>1, <2>4, <3>1 DEF Orderly, RestOrder, Serving
    <3> QED BY <3>2, <3>3, <3>4
  <2>8. Applied'
    BY <2>1, <2>4 DEF Inv, Applied, AppliedBy, CodeApplied, FreshCode, Settled, Busy
  <2> QED BY <1>0, <2>6, <2>7, <2>8 DEF Inv
<1> QED BY <1>1, <1>2, <1>3, <1>4, <1>5, <1>6, <1>7 DEF Next

\* For any items, versions and overlapping updates: when all is quiet after a
\* good start and no two of Start and the updates were busy together, one web
\* service listens, and Dispose would find it; when the system kept the newest
\* from listening, no older one is left behind.
THEOREM QuietTheorem == Spec => []QuietMeansListening
<1>1. Inv => QuietMeansListening
  <2> SUFFICES ASSUME Inv, Quiet, pc[Start] = "done", ~raced
               PROVE calc \in Actors /\ Opened = IF lost THEN {} ELSE {listener[calc]}
    BY DEF QuietMeansListening
  <2>1. ASSUME NEW n \in Actors PROVE pc[n] \notin DownPcs \cup {"down", "clean", "dns"}
    <3>1. pc[n] \notin DownPcs \cup {"clean", "dns"}
      BY DEF Quiet, Busy, BusyPcs, DownPcs, ReplacePcs
    <3>2. pc[n] # "down"
      BY ConstantFacts DEF Inv, Locals, UpdateLocals, CheckPcs, BusyPcs, ReplacePcs
    <3> QED BY <3>1, <3>2
  <2> QED BY <2>1 DEF Inv, Orderly, RestOrder, Serving
<1> QED BY <1>1, InitInv, NextInv, PTL DEF Spec

\* For any items, versions and overlapping updates: when all is quiet, the
\* recorded version is in place on the disk, unless there is one of the named
\* causes, and nothing older is listening, unless there was a race before.
THEOREM AppliedTheorem == Spec => []RecordedIsApplied
<1>1. Inv => RecordedIsApplied
  <2> SUFFICES ASSUME Inv, Quiet, recorded \in Versions, causes = {}
               PROVE /\ \A i \in Changed(recorded) : target[i] >= recorded
                     /\ Dll \in Changed(recorded) /\ ~raced =>
                            \A a \in Actors : listener[a] \in Opened => code[a] >= recorded
    BY DEF RecordedIsApplied
  <2> QED BY ConstantFacts DEF Inv, Quiet, Applied, Settled, CodeApplied, FreshCode
<1> QED BY <1>1, InitInv, NextInv, PTL DEF Spec

\* For any items, versions and overlapping updates: an exception ends the
\* process only after such a race, when AppleTvLiar.dll was not whole, or when
\* the system kept the web service from listening.
THEOREM FatalTheorem == Spec => FatalHasCause
<1>1. ASSUME Inv, Inv', [Next]_vars
      PROVE  [Up /\ ~Up' /\ crashes' = crashes => raced \/ lost \/ target[Dll] \notin Whole]_vars
  <2> SUFFICES ASSUME Next, Up, ~Up', crashes' = crashes, ~raced, ~lost PROVE target[Dll] \notin Whole
    BY <1>1
  <2> USE ConstantFacts
  <2>0. pc \in [Actors -> Pcs] /\ crashes \in Nat
    BY <1>1 DEF Inv, Typed, TypeControl, TypeHistory
  <2>1. ASSUME NEW n \in Actors, NEW p \in Pcs, p # "down", Go(n, p) PROVE FALSE
    BY <2>0, <2>1 DEF Go, Up
  <2>2. PICK n \in Actors : Thrown(n) /\ (LoadAssembly(n) \/ CloseHost(n) \/ (n # Start /\ Dispose(n)))
    <3>1. ~Publish
      BY DEF Publish, Up
    <3>2. ~Crash /\ ~HostFaults
      BY <2>0 DEF Crash, HostFaults, Up
    <3>3. ~StartStep
      BY <2>1 DEF StartStep, StartTimer, CleanUpdates, StartDns, Pcs, BusyPcs
    <3>4. ASSUME NEW n \in Actors, StartService(n) PROVE Thrown(n) /\ (LoadAssembly(n) \/ CloseHost(n))
      BY <2>1, <3>4 DEF StartService, LoadAssembly, NewHost, OpenHost, CloseHost, Finish, Pcs, BusyPcs
    <3>5. ASSUME NEW n \in Updates, Callback(n) PROVE Thrown(n) /\ Dispose(n)
      <4>1. CASE CheckUpadate(n)
        BY <2>1, <4>1 DEF CheckUpadate, ReadRemote, CompareVersions, Truncate, RecordVersion, Pcs, CheckPcs, BusyPcs
      <4>2. CASE StartUpdate(n)
        BY <2>1, <4>2 DEF StartUpdate, Download, AllReplaced, PrepareTarget, CreateTarget, MoveTarget, CopyTarget,
                          Skip, Pcs, BusyPcs, ReplacePcs
      <4>3. CASE Dispose(n) \/ ClearListener(n)
        BY <2>1, <4>3 DEF Dispose, ClearListener, Pcs, BusyPcs
      <4> QED BY <3>5, <4>1, <4>2, <4>3 DEF Callback
    <3> QED BY <3>1, <3>2, <3>3, <3>4, <3>5 DEF Next
  <2>3. n # Start /\ n \in Updates /\ rescue[n] /\ UpdateLocals(n)
    BY <1>1, <2>1, <2>2 DEF Thrown, Pcs, BusyPcs, Inv, Locals
  <2>4. pc[n] \in {"load", "host", "open", "close", "done"} /\ asm[n] = Default
    BY <2>3 DEF UpdateLocals
  <2>5. pc[n] # "close"
    BY <1>1 DEF Inv, Orderly, HostOrder
  <2>6. LoadAssembly(n)
    BY <2>2, <2>4, <2>5 DEF Dispose, CloseHost
  <2>7. ~CanLoad(n)
    BY <2>1, <2>6 DEF LoadAssembly, Pcs, BusyPcs
  <2> QED BY <2>4, <2>7 DEF CanLoad
<1> QED BY <1>1, InitInv, NextInv, PTL DEF Spec, FatalHasCause

-----------------------------------------------------------------------------
(* The ticks and the recorded version *)

CheckNext == [Check!Next]_(Check!vars)

\* An actor that is not at its check and does not come to it changes nothing of
\* what UpdateCheck sees.
LEMMA OutsideCheck ==
    ASSUME Typed, NEW n \in Actors, NEW p \in Pcs \ (CheckPcs \cup {"write", "down"}), Go(n, p), Up,
           n \in Updates => ~InCheck(n),
           UNCHANGED <<remote, recorded>>, \A m \in Updates \ {n} : ver'[m] = ver[m]
    PROVE  CheckNext
<1> USE ConstantFacts
<1>1. pc'[n] = p /\ \A m \in Actors \ {n} : pc'[m] = pc[m]
  BY DEF Go, Typed, TypeControl
<1>2. Up'
  BY <1>1 DEF Up
<1>3. \A m \in Updates : (InCheck(m)' <=> InCheck(m)) /\ (InCheck(m) => pc'[m] = pc[m] /\ ver'[m] = ver[m])
  BY <1>1 DEF InCheck
<1>4. CheckPc' = CheckPc
  BY <1>3 DEF CheckPc
<1>5. CheckVer' = CheckVer
  BY <1>3 DEF CheckVer
<1> QED BY <1>2, <1>4, <1>5 DEF CheckNext, Check!vars

\* The end of the process is the end of the process.
LEMMA EndsCheck == ASSUME Typed, Up, ProcessEnds PROVE CheckNext
<1> USE ConstantFacts DEF ProcessEnds
<1>1. ~Up' /\ \A n \in Updates : InCheck(n)' /\ pc'[n] = "free" /\ ver'[n] = 0
  BY DEF Up, InCheck, CheckPcs, Forget
<1>2. CheckPc' = [n \in Updates |-> "free"]
  BY <1>1 DEF CheckPc
<1>3. CheckVer' = [n \in Updates |-> 0]
  BY <1>1 DEF CheckVer
<1>4. recorded' = recorded \/ (Check!Recording /\ recorded' = Torn)
  BY DEF Locked, Check!Recording, CheckPc, InCheck
<1>5. Up' = FALSE
  BY <1>1 DEF Up
<1> QED BY <1>2, <1>3, <1>4, <1>5 DEF CheckNext, Check!Next, Check!ProcessEnds, Check!Torn, Torn

\* An exception moves an actor that is not at its check, or ends the process.
LEMMA ThrownCheck ==
    ASSUME Typed, NEW n \in Actors, Thrown(n), Up, n \in Updates => ~InCheck(n) PROVE CheckNext
<1>1. CASE n # Start /\ rescue[n]
  BY <1>1, EndsCheck DEF Thrown
<1>2. CASE ~(n # Start /\ rescue[n])
  <2>1. (\E p \in {"failed", "load"} : Go(n, p)) /\ UNCHANGED <<remote, recorded, ver>>
    BY <1>2 DEF Thrown, work, files
  <2> QED BY <2>1, OutsideCheck DEF Pcs, BusyPcs, CheckPcs
<1> QED BY <1>1, <1>2

\* CheckUpadate is CheckUpadate.
LEMMA TickCheck == ASSUME Typed, NEW n \in Updates, CheckUpadate(n), Up PROVE CheckNext
<1> USE ConstantFacts
<1>0. /\ n \in Actors /\ n # Start /\ pc \in [Actors -> Pcs] /\ ver \in [Updates -> Whole]
      /\ CheckPc \in [Updates -> Pcs \cup {"update"}] /\ CheckVer \in [Updates -> Whole]
  BY DEF Typed, TypeControl, TypeWork, CheckPc, CheckVer
<1>1. /\ InCheck(n) /\ CheckPc[n] = pc[n] /\ CheckVer[n] = ver[n]
      /\ Check!Recording <=> Locked
  BY DEF CheckUpadate, ReadRemote, CompareVersions, Truncate, RecordVersion, InCheck, CheckPcs, CheckPc, CheckVer,
         Check!Recording, Locked
<1>2. ASSUME NEW p, Go(n, p) PROVE Up' /\ pc'[n] = p /\ \A m \in Updates \ {n} : pc'[m] = pc[m]
  BY <1>0, <1>2 DEF Go, Up
<1>3. ASSUME NEW p \in CheckPcs \cup {"write"}, Go(n, p) PROVE Check!Go(n, p)
  <2>1. \A m \in Updates : CheckPc'[m] = IF m = n THEN p ELSE CheckPc[m]
    BY <1>0, <1>2, <1>3 DEF CheckPc, InCheck
  <2> QED BY <1>0, <2>1 DEF Check!Go, CheckPc
<1>4. ASSUME NEW p \in CheckPcs \cup {"write"}, Go(n, p), UNCHANGED work PROVE CheckVer' = CheckVer
  BY <1>0, <1>1, <1>2, <1>4 DEF CheckVer, InCheck, work
<1>5. ASSUME Go(n, "free"), Forget({n}) PROVE Check!Drop(n)
  <2>1. \A m \in Updates : CheckVer'[m] = IF m = n THEN 0 ELSE CheckVer[m]
    BY <1>0, <1>2, <1>5 DEF CheckVer, InCheck, Forget
  <2>2. CheckVer' = [CheckVer EXCEPT ![n] = 0]
    BY <1>0, <2>1 DEF CheckVer
  <2> QED BY <1>3, <1>5, <2>2 DEF Check!Drop, CheckPcs
<1>6. CASE ReadRemote(n)
  <2>1. Go(n, "decide") /\ pc[n] = "free" /\ ver' = [ver EXCEPT ![n] = remote] /\ UNCHANGED <<remote, recorded>>
    BY <1>6 DEF ReadRemote, files
  <2>2. \A m \in Updates : CheckVer'[m] = IF m = n THEN remote ELSE CheckVer[m]
    BY <1>0, <1>2, <2>1 DEF CheckVer, InCheck, CheckPcs
  <2>3. CheckVer' = [CheckVer EXCEPT ![n] = remote]
    BY <1>0, <2>2 DEF CheckVer
  <2>4. Check!Go(n, "decide") /\ Up'
    BY <1>2, <1>3, <2>1 DEF CheckPcs
  <2> QED BY <1>1, <2>1, <2>3, <2>4 DEF CheckNext, Check!Next, Check!Tick, Check!ReadRemote, Up
<1>7. CASE CompareVersions(n)
  <2>1. /\ pc[n] = "decide" /\ UNCHANGED <<remote, recorded>>
        /\ \/ Locked \/ recorded = Torn \/ recorded = ver[n]
           \/ ~Locked /\ recorded # Torn /\ recorded # ver[n] /\ Go(n, "truncate") /\ UNCHANGED work
        /\ Locked \/ recorded = Torn \/ recorded = ver[n] => Go(n, "free") /\ Forget({n})
    BY <1>7 DEF CompareVersions, files
  <2>2. Up'
    BY <1>2, <2>1
  <2>3. Check!CompareVersions(n)
    <3>1. CASE Locked \/ recorded = Torn \/ recorded = ver[n]
      BY <1>1, <1>5, <2>1, <2>2, <3>1 DEF Check!CompareVersions, Check!Torn, Torn, Up
    <3>2. CASE ~(Locked \/ recorded = Torn \/ recorded = ver[n])
      <4>1. Check!Go(n, "truncate") /\ CheckVer' = CheckVer
        BY <1>3, <1>4, <2>1, <3>2 DEF CheckPcs
      <4> QED BY <1>1, <2>1, <2>2, <3>2, <4>1 DEF Check!CompareVersions, Check!Torn, Torn, Up
    <3> QED BY <3>1, <3>2
  <2> QED BY <2>3 DEF CheckNext, Check!Next, Check!Tick
<1>8. CASE Truncate(n)
  <2>1. /\ pc[n] = "truncate" /\ UNCHANGED remote
        /\ \/ Locked /\ Go(n, "free") /\ Forget({n}) /\ recorded' = recorded
           \/ ~Locked /\ recorded' = 0 /\ Go(n, "write") /\ UNCHANGED work
    BY <1>8 DEF Truncate
  <2>2. Up'
    BY <1>2, <2>1
  <2>3. Check!Truncate(n)
    <3>1. CASE Locked
      BY <1>1, <1>5, <2>1, <2>2, <3>1 DEF Check!Truncate, Up
    <3>2. CASE ~Locked
      <4>1. Check!Go(n, "write") /\ CheckVer' = CheckVer
        BY <1>3, <1>4, <2>1, <3>2
      <4> QED BY <1>1, <2>1, <2>2, <3>2, <4>1 DEF Check!Truncate, Up
    <3> QED BY <3>1, <3>2
  <2> QED BY <2>3 DEF CheckNext, Check!Next, Check!Tick
<1>9. CASE RecordVersion(n)
  <2>1. pc[n] = "write" /\ recorded' = ver[n] /\ Go(n, "dispose") /\ UNCHANGED <<remote, ver>>
    BY <1>9 DEF RecordVersion, work
  <2>2. Up' /\ ~InCheck(n)'
    BY <1>2, <2>1 DEF InCheck, CheckPcs
  <2>3. \A m \in Updates : /\ CheckPc'[m] = IF m = n THEN "update" ELSE CheckPc[m]
                           /\ CheckVer'[m] = IF m = n THEN 0 ELSE CheckVer[m]
    BY <1>0, <1>2, <2>1, <2>2 DEF CheckPc, CheckVer, InCheck
  <2>4. Check!Go(n, "update")
    BY <1>0, <2>3 DEF Check!Go, CheckPc
  <2>5. CheckVer' = [CheckVer EXCEPT ![n] = 0]
    BY <1>0, <2>3 DEF CheckVer
  <2>6. Check!RecordVersion(n)
    BY <1>1, <2>1, <2>2, <2>4, <2>5 DEF Check!RecordVersion, Up
  <2> QED BY <2>6 DEF CheckNext, Check!Next, Check!Tick
<1> QED BY <1>6, <1>7, <1>8, <1>9 DEF CheckUpadate

\* Every step of the service is a step of UpdateCheck or changes nothing of it.
LEMMA NextCheck == ASSUME Typed, Locals, [Next]_vars PROVE CheckNext
<1> USE ConstantFacts
<1>0. pc \in [Actors -> Pcs]
  BY DEF Typed, TypeControl
<1>a. ASSUME UNCHANGED <<remote, recorded, pc, ver>> PROVE CheckNext
  <2>1. Up' = Up /\ CheckPc' = CheckPc /\ CheckVer' = CheckVer
    BY <1>a DEF Up, CheckPc, CheckVer, InCheck
  <2> QED BY <1>a, <2>1 DEF CheckNext, Check!vars
<1>1. CASE Publish
  <2>1. UNCHANGED <<recorded, pc, ver>> /\ remote < MaxVersion /\ remote' = remote + 1
    BY <1>1 DEF Publish, files, work
  <2>2. Up' = Up /\ CheckPc' = CheckPc /\ CheckVer' = CheckVer
    BY <2>1 DEF Up, CheckPc, CheckVer, InCheck
  <2> QED BY <2>1, <2>2 DEF CheckNext, Check!Next, Check!Publish
<1>2. CASE Crash
  BY <1>2, EndsCheck DEF Crash
<1>3. CASE HostFaults \/ UNCHANGED vars
  BY <1>3, <1>a DEF HostFaults, vars, files, work
<1>4. CASE StartStep
  <2>1. CASE StartTimer
    <3>1. ~Up /\ Go(Start, "clean") /\ UNCHANGED <<remote, recorded, ver>>
      BY <2>1 DEF StartTimer, files, work
    <3>2. pc'[Start] = "clean" /\ \A m \in Updates : pc'[m] = pc[m]
      BY <1>0, <3>1 DEF Go
    <3>3. Up = FALSE /\ Up' = TRUE /\ CheckPc' = CheckPc /\ CheckVer' = CheckVer
      BY <3>1, <3>2 DEF Up, CheckPc, CheckVer, InCheck
    <3> QED BY <3>1, <3>3 DEF CheckNext, Check!Next, Check!StartTimer
  <2>2. CASE CleanUpdates \/ StartDns
    <3>1. Up /\ UNCHANGED <<remote, recorded, ver>> /\ \E p \in {"dns", "load", "failed"} : Go(Start, p)
      BY <2>2 DEF CleanUpdates, StartDns, files, work, Up
    <3> QED BY <3>1, OutsideCheck DEF Pcs, BusyPcs, CheckPcs
  <2> QED BY <1>4, <2>1, <2>2 DEF StartStep
<1>5. ASSUME NEW n \in Actors, StartService(n) PROVE CheckNext
  <2>1. pc[n] \in {"load", "host", "open", "close"}
    BY <1>5 DEF StartService, LoadAssembly, NewHost, OpenHost, CloseHost
  <2>2. Up /\ ~InCheck(n)
    BY <2>1, AwakeUp DEF Up, InCheck, CheckPcs
  <2>3. CASE Thrown(n)
    BY <2>2, <2>3, ThrownCheck
  <2>4. CASE ~Thrown(n)
    <3>1. /\ UNCHANGED <<remote, recorded>> /\ (UNCHANGED ver \/ Forget({n}))
          /\ \E p \in {"host", "open", "close", "done"} : Go(n, p)
      BY <1>5, <2>4 DEF StartService, LoadAssembly, NewHost, OpenHost, CloseHost, Finish, files, work
    <3>2. \A m \in Updates \ {n} : ver'[m] = ver[m]
      BY <3>1 DEF Forget
    <3> QED BY <2>2, <3>1, <3>2, OutsideCheck DEF Pcs, BusyPcs, CheckPcs
  <2> QED BY <2>3, <2>4
<1>6. ASSUME NEW n \in Updates, Callback(n) PROVE CheckNext
  <2>1. CASE CheckUpadate(n)
    <3>1. Up
      BY <2>1, AwakeUp DEF CheckUpadate, ReadRemote, CompareVersions, Truncate, RecordVersion
    <3> QED BY <2>1, <3>1, TickCheck
  <2>2. CASE Dispose(n) \/ ClearListener(n) \/ StartUpdate(n)
    <3>1. pc[n] \in {"dispose", "clear", "next"} \cup ReplacePcs
      BY <2>2 DEF Dispose, ClearListener, StartUpdate, Download, AllReplaced, PrepareTarget, CreateTarget,
                  MoveTarget, CopyTarget, ReplacePcs
    <3>2. Up /\ ~InCheck(n)
      BY <3>1, AwakeUp DEF InCheck, CheckPcs, ReplacePcs
    <3>3. CASE Thrown(n)
      BY <3>2, <3>3, ThrownCheck
    <3>4. CASE ~Thrown(n)
      <4>1. UNCHANGED <<remote, recorded, ver>> /\ \E p \in {"clear", "next", "load"} \cup ReplacePcs : Go(n, p)
        BY <2>2, <3>4 DEF Dispose, ClearListener, StartUpdate, Download, AllReplaced, PrepareTarget, CreateTarget,
                          MoveTarget, CopyTarget, Skip, ReplacePcs, files, work
      <4> QED BY <3>2, <4>1, OutsideCheck DEF Pcs, BusyPcs, CheckPcs, ReplacePcs
    <3> QED BY <3>3, <3>4
  <2> QED BY <1>6, <2>1, <2>2 DEF Callback
<1> QED BY <1>1, <1>2, <1>3, <1>4, <1>5, <1>6 DEF Next

\* For any items, versions and number of overlapping updates, whatever the
\* service does with its files and its assemblies, the ticks treat the recorded
\* version as UpdateCheck says, where it is shown to catch up.
THEOREM CheckTheorem == Spec => Check!SafeSpec
<1>1. Init => Check!Init
  <2> SUFFICES ASSUME Init PROVE Check!Init
    OBVIOUS
  <2>1. Up = FALSE /\ CheckPc = [n \in Updates |-> "free"] /\ CheckVer = [n \in Updates |-> 0]
    BY ConstantFacts DEF Init, Up, CheckPc, CheckVer, InCheck, CheckPcs
  <2> QED BY <2>1 DEF Init, Check!Init
<1>2. Typed /\ Locals /\ [Next]_vars => [Check!Next]_(Check!vars)
  BY NextCheck DEF CheckNext
<1>3. Init => Typed /\ Locals
  BY InitType, InitLocals
<1>4. Typed /\ Locals /\ [Next]_vars => Typed' /\ Locals'
  BY NextLocals
<1> QED BY <1>1, <1>2, <1>3, <1>4, PTL DEF Spec, Check!SafeSpec
=============================================================================
