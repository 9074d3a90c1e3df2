----------------------------- MODULE UpdateCheck -----------------------------
(***************************************************************************)
(* What the ticks of the service do to the recorded version: CheckUpadate  *)
(* of UpdateManager.cs, by any number of Callbacks at a time and without   *)
(* end.  What an update does after the version is recorded takes its time  *)
(* and may end the process.  UpdateService is the same service with all    *)
(* that an update does, for a bounded number of them.                      *)
(***************************************************************************)
EXTENDS Integers

CONSTANTS
    MaxVersion,     \* bound: versions the remote side publishes
    Ticks           \* the Callbacks there may be at a time

VersionAssumption == MaxVersion \in Nat

VARIABLES
    up,         \* the process of the service runs
    remote,     \* the version on the remote side
    recorded,   \* the version in Updates/UpdateConfig.xml; 0: absent or empty
    pc,         \* where each tick is
    ver         \* ver[n]: the version tick n read from the remote side, until it is recorded

vars == <<up, remote, recorded, pc, ver>>

Torn      == -1     \* a cut-off UpdateConfig.xml: Deserialize throws
Recording == \E n \in Ticks : pc[n] = "write"   \* UpdateConfig.xml is open for writing

Go(n, p) == pc' = [pc EXCEPT ![n] = p]
Drop(n)  == Go(n, "free") /\ ver' = [ver EXCEPT ![n] = 0]

Init ==
    /\ up = FALSE
    /\ remote = 0 /\ recorded = 0
    /\ pc = [n \in Ticks |-> "free"]
    /\ ver = [n \in Ticks |-> 0]

Publish ==
    /\ remote < MaxVersion
    /\ remote' = remote + 1
    /\ UNCHANGED <<up, recorded, pc, ver>>

\* The timer runs before anything else is done.
StartTimer ==
    /\ ~up /\ up' = TRUE
    /\ UNCHANGED <<remote, recorded, pc, ver>>

\* A half-written UpdateConfig.xml is empty or cut off.
ProcessEnds ==
    /\ up /\ up' = FALSE
    /\ recorded' \in {recorded} \cup (IF Recording THEN {Torn} ELSE {})
    /\ pc' = [n \in Ticks |-> "free"]
    /\ ver' = [n \in Ticks |-> 0]
    /\ UNCHANGED remote

\* The remote description is read ...
ReadRemote(n) ==
    /\ up /\ pc[n] = "free"
    /\ ver' = [ver EXCEPT ![n] = remote]
    /\ Go(n, "decide")
    /\ UNCHANGED <<up, remote, recorded>>

\* Mutant of CompareVersions: only an absent description is updated.
CompareOnce(n) ==
    /\ pc[n] = "decide"
    /\ \/ ~Recording /\ recorded = 0 /\ Go(n, "truncate") /\ UNCHANGED ver
       \/ (Recording \/ recorded # 0) /\ Drop(n)
    /\ UNCHANGED <<up, remote, recorded>>

\* ... the local one is opened for writing, compared and closed; every
\* exception means that there is no update ...
CompareVersions(n) ==
    /\ pc[n] = "decide"
    /\ \/ ~Recording /\ recorded \notin {Torn, ver[n]} /\ Go(n, "truncate") /\ UNCHANGED ver
       \/ (Recording \/ recorded \in {Torn, ver[n]}) /\ Drop(n)
    /\ UNCHANGED <<up, remote, recorded>>

\* ... it is opened again and truncated ...
Truncate(n) ==
    /\ pc[n] = "truncate"
    /\ \/ Recording /\ Drop(n) /\ UNCHANGED recorded
       \/ ~Recording /\ recorded' = 0 /\ Go(n, "write") /\ UNCHANGED ver
    /\ UNCHANGED <<up, remote>>

\* ... and written.
RecordVersion(n) ==
    /\ pc[n] = "write"
    /\ recorded' = ver[n]
    /\ Go(n, "update")
    /\ ver' = [ver EXCEPT ![n] = 0]
    /\ UNCHANGED <<up, remote>>

\* The update is over, or an exception in its catch block ends the process.
EndUpdate(n) ==
    /\ pc[n] = "update"
    /\ \/ Go(n, "free") /\ UNCHANGED <<up, remote, recorded, ver>>
       \/ ProcessEnds

Tick(n) == ReadRemote(n) \/ CompareVersions(n) \/ Truncate(n) \/ RecordVersion(n) \/ EndUpdate(n)

Next == Publish \/ StartTimer \/ ProcessEnds \/ \E n \in Ticks : Tick(n)

\* The timer ticks, and what a tick has begun ends; nobody has to publish.
Fairness == \A n \in Ticks : WF_vars(Tick(n))

SafeSpec == Init /\ [][Next]_vars
Spec     == SafeSpec /\ Fairness

\* When the process runs on, the recorded version catches up with the remote
\* one for good, even though slow ticks may set it back meanwhile and an end of
\* the process may leave it empty; only a cut-off UpdateConfig.xml, which an
\* end can leave as well, stops updates for ever.
RecordedCatchesUp == <>[]up => <>[](recorded = remote \/ recorded = Torn)
=============================================================================
