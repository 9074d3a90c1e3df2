-------------------------------- MODULE MCLive --------------------------------
(***************************************************************************)
(* What must go on for ever: one request thread and the timer over the     *)
(* players, and the ticks of the service over the recorded version.  The   *)
(* two share no state, so a behaviour is about one of them, chosen at the  *)
(* start.                                                                  *)
(***************************************************************************)
EXTENDS StreamPlayer

CONSTANTS c1, timer, MaxVersion, Ticks

VARIABLES
    about,  \* the subject
    up, remote, recorded, tick, ver

MCClients == {c1}
checkVars == <<up, remote, recorded, tick, ver>>

Check == INSTANCE UpdateCheck WITH pc <- tick

ASSUME LiveAssumption == Check!VersionAssumption

InitLive == about \in {"players", "updates"} /\ Init /\ Check!Init

NextLive ==
    /\ UNCHANGED about
    /\ \/ about = "players" /\ Next /\ UNCHANGED checkVars
       \/ about = "updates" /\ Check!Next /\ UNCHANGED vars

\* Fairness is asked of the subject only.
FairLive ==
    /\ InitLive /\ [][NextLive]_<<about, vars, checkVars>>
    /\ \A t \in Threads : WF_vars(about = "players" /\ Work(t))
    /\ \A n \in Ticks : WF_checkVars(about = "updates" /\ Check!Tick(n))

\* The recorded version catches up with the remote one.
RecordedCatchesUp == Check!RecordedCatchesUp
=============================================================================
