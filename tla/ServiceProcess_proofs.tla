------------------------ MODULE ServiceProcess_proofs ------------------------
(***************************************************************************)
(* Proofs about SslServer, for any clients: the one accept is a baton that *)
(* the server holds, or one handler, or that is lost for good.  What is    *)
(* proved of the TLS listener alone then holds of the process it shares    *)
(* with the web service, for any clients and calls: a call can end the     *)
(* process, and disturbs nothing else of the listener.                     *)
(***************************************************************************)
EXTENDS ServiceProcess, TLAPS

Steps == {"away", "waiting", "write", "served", "closed"} \union BeforeRearm

Typed ==
    /\ start \in {"bind", "accept", "running", "gaveUp"}
    /\ pc \in [Clients -> Steps]
    /\ pending \in BOOLEAN /\ lost \in BOOLEAN /\ crashed \in BOOLEAN

\* The accept asked for, a handler before its own, and the loss exclude each
\* other, and two handlers do.
Baton ==
    /\ pending => Holders = {} /\ ~lost
    /\ lost => Holders = {}
    /\ \A c, d \in Holders : c = d

\* Before Start has succeeded there is no baton.
NotYet == start # "running" => ~pending /\ ~lost /\ Holders = {}

BatonInv == Typed /\ Baton /\ NotYet /\ DeafHasCause

\* A client that goes from a step to another one is a holder or not by its new
\* step; the others are what they were.
LEMMA HoldersAfter ==
    ASSUME Typed, NEW c \in Clients, NEW step \in Steps, Goto(c, step)
    PROVE  /\ pc' \in [Clients -> Steps]
           /\ step \in BeforeRearm => Holders' = Holders \union {c}
           /\ step \notin BeforeRearm => Holders' = Holders \ {c}
BY DEF Typed, Goto, Holders

\* The invariant holds when the service starts.
LEMMA BatonInit == Init => BatonInv
BY DEF Init, BatonInv, Typed, Baton, NotYet, DeafHasCause, Holders, Steps, BeforeRearm

\* Every step keeps the baton one.
LEMMA BatonStep == BatonInv /\ [Next]_vars => BatonInv'
<1> SUFFICES ASSUME BatonInv, [Next]_vars PROVE BatonInv'
  OBVIOUS
<1> USE DEF BatonInv
<1>1. CASE Bind
  BY <1>1 DEF Bind, Again, Typed, Baton, NotYet, DeafHasCause, Holders
<1>2. CASE FirstAccept
  <2>1. ~pending /\ ~lost /\ Holders = {}
    BY <1>2 DEF FirstAccept, NotYet
  <2>2. ~lost' /\ Holders' = {} /\ UNCHANGED <<pc, lost, crashed>>
    BY <1>2, <2>1 DEF FirstAccept, Holders
  <2>3. CASE start' = "running" /\ pending' = TRUE
    BY <2>1, <2>2, <2>3 DEF Typed, Baton, NotYet, DeafHasCause
  <2>4. CASE Again /\ UNCHANGED pending
    <3>1. start' \in {"bind", "gaveUp"}
      BY <2>4 DEF Again
    <3> QED
      BY <2>1, <2>2, <2>4, <3>1 DEF Typed, Baton, NotYet, DeafHasCause
  <2> QED
    BY <1>2, <2>3, <2>4 DEF FirstAccept
<1>3. ASSUME NEW c \in Clients, Connect(c) PROVE BatonInv'
  <2>1. Goto(c, "waiting") /\ "waiting" \in Steps \ BeforeRearm
    BY <1>3 DEF Connect, Steps, BeforeRearm
  <2>2. c \notin Holders
    BY <1>3 DEF Connect, Holders, BeforeRearm
  <2>3. pc' \in [Clients -> Steps] /\ Holders' = Holders
    BY <2>1, <2>2, HoldersAfter
  <2> QED
    BY <1>3, <2>3 DEF Connect, NotStarting, Typed, Baton, NotYet, DeafHasCause
<1>4. ASSUME NEW c \in Clients, Accept(c) PROVE BatonInv'
  <2>1. Goto(c, "handshake") /\ "handshake" \in Steps /\ "handshake" \in BeforeRearm
    BY <1>4 DEF Accept, Steps, BeforeRearm
  <2>2. pending /\ Holders = {} /\ ~lost
    BY <1>4 DEF Accept, Baton
  <2>3. pc' \in [Clients -> Steps] /\ Holders' = {c}
    BY <2>1, <2>2, HoldersAfter
  <2>4. start = "running"
    BY <2>2 DEF NotYet
  <2> QED
    BY <1>4, <2>2, <2>3, <2>4 DEF Accept, NotStarting, Typed, Baton, NotYet, DeafHasCause
<1>5. ASSUME NEW c \in Clients, AcceptThrows(c) PROVE BatonInv'
  BY <1>5 DEF AcceptThrows, NotStarting, Typed, Baton, NotYet, DeafHasCause, Holders
<1>6. ASSUME NEW c \in Clients, NEW step \in Steps, Goto(c, step),
             pc[c] \in BeforeRearm, step \in BeforeRearm,
             UNCHANGED <<start, pending, lost, crashed>>
      PROVE  BatonInv'
  <2>1. c \in Holders
    BY <1>6 DEF Holders
  <2>2. pc' \in [Clients -> Steps] /\ Holders' = Holders
    BY <1>6, <2>1, HoldersAfter
  <2> QED
    BY <1>6, <2>2 DEF Typed, Baton, NotYet, DeafHasCause
<1>7. ASSUME NEW c \in Clients, Handshake(c) PROVE BatonInv'
  BY <1>6, <1>7 DEF Handshake, NotStarting, Steps, BeforeRearm
<1>8. ASSUME NEW c \in Clients, Read(c) PROVE BatonInv'
  BY <1>6, <1>8 DEF Read, NotStarting, Steps, BeforeRearm
<1>9. ASSUME NEW c \in Clients, ReadFile(c) PROVE BatonInv'
  BY <1>6, <1>9 DEF ReadFile, NotStarting, Steps, BeforeRearm
<1>10. ASSUME NEW c \in Clients, Throw(c) PROVE BatonInv'
  <2>1. Goto(c, "closed") /\ "closed" \in Steps \ BeforeRearm
    BY <1>10 DEF Throw, Steps, BeforeRearm
  <2>2. pc' \in [Clients -> Steps] /\ Holders' = Holders \ {c}
    BY <2>1, HoldersAfter
  <2>3. CASE pc[c] \in BeforeRearm
    <3>1. c \in Holders /\ Holders' = {}
      BY <2>2, <2>3 DEF Holders, Baton
    <3>2. ~pending /\ start = "running"
      BY <3>1 DEF Baton, NotYet
    <3> QED
      BY <1>10, <2>2, <2>3, <3>1, <3>2 DEF Throw, NotStarting, Typed, Baton, NotYet, DeafHasCause
  <2>4. CASE pc[c] \notin BeforeRearm
    <3>1. Holders' = Holders /\ lost' = lost
      BY <1>10, <2>2, <2>4 DEF Holders, Throw, Typed
    <3> QED
      BY <1>10, <2>2, <3>1 DEF Throw, NotStarting, Typed, Baton, NotYet, DeafHasCause
  <2> QED
    BY <2>3, <2>4
<1>11. ASSUME NEW c \in Clients, Rearm(c) PROVE BatonInv'
  <2>1. Goto(c, "write") /\ "write" \in Steps \ BeforeRearm /\ c \in Holders
    BY <1>11 DEF Rearm, Steps, BeforeRearm, Holders
  <2>2. pc' \in [Clients -> Steps] /\ Holders' = {}
    BY <2>1, HoldersAfter DEF Baton
  <2>3. ~lost /\ start = "running"
    BY <2>1 DEF Baton, NotYet
  <2> QED
    BY <1>11, <2>2, <2>3 DEF Rearm, NotStarting, Typed, Baton, NotYet, DeafHasCause
<1>12. ASSUME NEW c \in Clients, Write(c) PROVE BatonInv'
  <2>1. Goto(c, "served") /\ "served" \in Steps \ BeforeRearm /\ c \notin Holders
    BY <1>12 DEF Write, Steps, BeforeRearm, Holders
  <2>2. pc' \in [Clients -> Steps] /\ Holders' = Holders
    BY <2>1, HoldersAfter
  <2> QED
    BY <1>12, <2>2 DEF Write, NotStarting, Typed, Baton, NotYet, DeafHasCause
<1>13. CASE WorldChanges
  BY <1>13 DEF WorldChanges, Typed, Baton, NotYet, DeafHasCause, Holders
<1>14. CASE UNCHANGED vars
  BY <1>14 DEF vars, Typed, Baton, NotYet, DeafHasCause, Holders
<1> QED
  BY <1>1, <1>2, <1>3, <1>4, <1>5, <1>7, <1>8, <1>9, <1>10, <1>11, <1>12, <1>13, <1>14
     DEF Next, ProcessClient

\* The listener's invariant holds always.
LEMMA BatonAlways == Spec => []BatonInv
BY BatonInit, BatonStep, PTL DEF Spec

\* Clients are accepted one at a time: no accept is asked for while a handler
\* has yet to ask for its own, and only one handler has.
THEOREM OneAtATimeHolds == Spec => []OneAtATime
<1>1. BatonInv => OneAtATime
  BY DEF BatonInv, Baton, OneAtATime
<1> QED
  BY <1>1, BatonAlways, PTL

\* A server that has started and listens to nobody has lost its accept to a
\* handler that failed.
THEOREM DeafHasCauseHolds == Spec => []DeafHasCause
<1>1. BatonInv => DeafHasCause
  BY DEF BatonInv
<1> QED
  BY <1>1, BatonAlways, PTL

\* A loss is for good: no later step asks for an accept again.
THEOREM DeafForGoodHolds == Spec => DeafForGood
<1>1. BatonInv /\ BatonInv' /\ [Next]_vars => [lost => ~pending /\ ~pending']_vars
  <2> SUFFICES ASSUME BatonInv, BatonInv', Next, lost PROVE ~pending /\ ~pending'
    BY DEF vars
  <2>1. lost'
    BY DEF Next, Bind, FirstAccept, Connect, Accept, AcceptThrows, ProcessClient, Handshake,
           Read, ReadFile, Throw, Rearm, Write, WorldChanges
  <2> QED
    BY <2>1 DEF BatonInv, Baton
<1> QED
  BY <1>1, BatonAlways, PTL DEF Spec, DeafForGood

-----------------------------------------------------------------------------
\* The listener within the process.

\* Every step of the process keeps the listener's one accept.
LEMMA ProcessStep == BatonInv /\ [ProcessNext]_processVars => BatonInv'
<1> SUFFICES ASSUME BatonInv, [ProcessNext]_processVars PROVE BatonInv'
  OBVIOUS
<1>1. CASE Next
  BY <1>1, BatonStep
<1>2. CASE Web!Next /\ UNCHANGED sslVars
  <2>1. crashed' \in BOOLEAN /\ (crashed => crashed')
    BY <1>2 DEF Web!Next, Web!Arrive, Web!Admit, Web!Callback, Web!GotStream, Web!GotResponse,
           Web!Fails, Web!FailsWithoutResponse, Web!CatchThrows, Web!Resume, Web!Answer,
           BatonInv, Typed
  <2>2. UNCHANGED <<start, pc, pending, lost>> /\ Holders' = Holders
    BY <1>2 DEF sslVars, Holders
  <2> QED
    BY <2>1, <2>2 DEF BatonInv, Typed, Baton, NotYet, DeafHasCause
<1>3. CASE UNCHANGED processVars
  <2>1. UNCHANGED vars
    BY <1>3 DEF processVars, sslVars, vars
  <2> QED
    BY <2>1, BatonStep
<1> QED
  BY <1>1, <1>2, <1>3 DEF ProcessNext

\* It holds in the process, whatever the other parts do.
LEMMA ProcessAlways == ProcessSpec => []BatonInv
<1>1. ProcessInit => BatonInv
  BY BatonInit DEF ProcessInit
<1> QED
  BY <1>1, ProcessStep, PTL DEF ProcessSpec

\* In the whole process clients of the listener are accepted one at a time, and
\* a listener that has started and hears nobody has lost its accept to a
\* handler that failed.
THEOREM ProcessListens == ProcessSpec => []OneAtATime /\ []DeafHasCause
<1>1. BatonInv => OneAtATime /\ DeafHasCause
  BY DEF BatonInv, Baton, OneAtATime
<1> QED
  BY <1>1, ProcessAlways, PTL

=============================================================================
