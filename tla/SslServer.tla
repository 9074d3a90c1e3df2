------------------------------- MODULE SslServer -------------------------------
(***************************************************************************)
(* StartTcp: the server on port 443 that gives every client the file       *)
(* application.js.  Start tries up to four times to listen.  One accept is *)
(* asked for at a time: the handler of a client asks for the next one when *)
(* it has shaken hands, read a line and read the file, and not before.     *)
(***************************************************************************)
EXTENDS Naturals

CONSTANTS Clients,
          Faulty    \* the clients that hang up, keep silent or fail to shake hands

ASSUME ClientsAssumption == Faulty \subseteq Clients

VARIABLES
    start,     \* the next step of Start
    count,     \* the field of that name: the retries made
    taken,     \* another program has the port
    bound,     \* a listener of this process has it
    pending,   \* whether an accept has been asked for
    pc,        \* the next step for each client
    fileOk,    \* whether the certificate and application.js can be read
    lost,      \* a handler has ended without asking for the next accept (history)
    crashed    \* the process has ended

vars == <<start, count, taken, bound, pending, pc, fileOk, lost, crashed>>

Init ==
    /\ start   = "bind"
    /\ count   = 0
    /\ taken   \in BOOLEAN
    /\ bound   = FALSE
    /\ pending = FALSE
    /\ pc      = [c \in Clients |-> "away"]
    /\ fileOk  \in BOOLEAN
    /\ lost    = FALSE
    /\ crashed = FALSE

Retries == 3

\* The clients whose handler has yet to ask for the next accept.
BeforeRearm == {"handshake", "read", "file", "rearm"}
Holders     == {c \in Clients : pc[c] \in BeforeRearm}

Goto(c, step) == pc' = [pc EXCEPT ![c] = step]
NotStarting   == UNCHANGED <<start, count, taken, bound>>

\* The catch of Start: a retry at once, unless there have been three.
Again ==
    IF count < Retries THEN start' = "bind" /\ count' = count + 1
                       ELSE start' = "gaveUp" /\ UNCHANGED count

\* listener.Start()
Bind ==
    /\ start = "bind" /\ ~crashed
    /\ IF taken \/ bound THEN Again /\ UNCHANGED bound
                         ELSE bound' = TRUE /\ start' = "accept" /\ UNCHANGED count
    /\ UNCHANGED <<taken, pending, pc, fileOk, lost, crashed>>

\* The first accept is asked for; should that throw, the listener keeps the port.
FirstAccept ==
    /\ start = "accept" /\ ~crashed
    /\ \/ start' = "running" /\ pending' = TRUE /\ UNCHANGED count
       \/ Again /\ UNCHANGED pending
    /\ UNCHANGED <<taken, bound, pc, fileOk, lost, crashed>>

\* A client connects to the port; the system keeps it waiting.
Connect(c) ==
    /\ pc[c] \in {"away", "closed", "served"}
    /\ bound /\ ~crashed
    /\ Goto(c, "waiting")
    /\ NotStarting /\ UNCHANGED <<pending, fileOk, lost, crashed>>

\* ProcessClient begins: the accept that was asked for has a client.
Accept(c) ==
    /\ pc[c] = "waiting" /\ pending /\ ~crashed
    /\ pending' = FALSE
    /\ Goto(c, "handshake")
    /\ NotStarting /\ UNCHANGED <<fileOk, lost, crashed>>

\* The client has hung up since: EndAcceptTcpClient or GetStream throws before
\* the try, on a thread of the pool.
AcceptThrows(c) ==
    /\ pc[c] = "waiting" /\ pending /\ ~crashed
    /\ c \in Faulty
    /\ crashed' = TRUE
    /\ pending' = FALSE
    /\ NotStarting /\ UNCHANGED <<pc, fileOk, lost>>

\* AuthenticateAsServer, which has no timeout: a silent client is waited for.
Handshake(c) ==
    /\ pc[c] = "handshake" /\ ~crashed
    /\ fileOk
    /\ Goto(c, "read")
    /\ NotStarting /\ UNCHANGED <<pending, fileOk, lost, crashed>>

\* ReadMessage gives a line, or null at the end of the stream.
Read(c) ==
    /\ pc[c] = "read" /\ ~crashed
    /\ Goto(c, "file")
    /\ NotStarting /\ UNCHANGED <<pending, fileOk, lost, crashed>>

ReadFile(c) ==
    /\ pc[c] = "file" /\ ~crashed
    /\ fileOk
    /\ Goto(c, "rearm")
    /\ NotStarting /\ UNCHANGED <<pending, fileOk, lost, crashed>>

\* Mutant of Throw: the handler asks for the next accept when it fails, too.
ThrowRearm(c) ==
    /\ ~crashed
    /\ \/ pc[c] \in {"handshake", "file"} /\ ~fileOk
       \/ pc[c] \in {"handshake", "read", "write"} /\ c \in Faulty
    /\ pending' = TRUE
    /\ lost' = (lost \/ pc[c] \in BeforeRearm)
    /\ Goto(c, "closed")
    /\ NotStarting /\ UNCHANGED <<fileOk, crashed>>

\* The handshake fails, the line does not come in time, a file cannot be read or
\* the client is gone: the catch closes the stream, and that is all.
Throw(c) ==
    /\ ~crashed
    /\ \/ pc[c] \in {"handshake", "file"} /\ ~fileOk
       \/ pc[c] \in {"handshake", "read", "write"} /\ c \in Faulty
    /\ lost' = (lost \/ pc[c] \in BeforeRearm)
    /\ Goto(c, "closed")
    /\ NotStarting /\ UNCHANGED <<pending, fileOk, crashed>>

\* Mutant of Rearm: the next accept is not asked for.
RearmNot(c) ==
    /\ pc[c] = "rearm" /\ ~crashed
    /\ Goto(c, "write")
    /\ NotStarting /\ UNCHANGED <<pending, fileOk, lost, crashed>>

\* BeginAcceptTcpClient for the next client.
Rearm(c) ==
    /\ pc[c] = "rearm" /\ ~crashed
    /\ pending' = TRUE
    /\ Goto(c, "write")
    /\ NotStarting /\ UNCHANGED <<fileOk, lost, crashed>>

Write(c) ==
    /\ pc[c] = "write" /\ ~crashed
    /\ Goto(c, "served")
    /\ NotStarting /\ UNCHANGED <<pending, fileOk, lost, crashed>>

ProcessClient(c) ==
    Handshake(c) \/ Read(c) \/ ReadFile(c) \/ Throw(c) \/ Rearm(c) \/ Write(c)

\* The port and the files are others' as well.
WorldChanges ==
    /\ \/ taken' = ~taken /\ ~bound /\ UNCHANGED fileOk
       \/ fileOk' = ~fileOk /\ UNCHANGED taken
    /\ UNCHANGED <<start, count, bound, pending, pc, lost, crashed>>

Next ==
    \/ Bind \/ FirstAccept
    \/ \E c \in Clients : Connect(c) \/ Accept(c) \/ AcceptThrows(c) \/ ProcessClient(c)
    \/ WorldChanges

Spec == Init /\ [][Next]_vars

\* Start and the handlers run, and the system hands over the waiting clients in
\* their order, so that a client's turn comes.  A handshake with a faulty client
\* may wait for ever: nothing is assumed of it.  A read and a write have a timeout.
Fairness ==
    /\ WF_vars(Bind \/ FirstAccept)
    /\ \A c \in Clients :
          /\ SF_vars(Accept(c))
          /\ WF_vars(pc[c] # "handshake" /\ ProcessClient(c))
    /\ \A c \in Clients \ Faulty : WF_vars(Handshake(c) \/ Throw(c))
FairSpec == Spec /\ Fairness

-----------------------------------------------------------------------------
\* Properties.

\* Every variable keeps its type, and Start makes at most four attempts.
TypeOK ==
    /\ start \in {"bind", "accept", "running", "gaveUp"}
    /\ count \in 0 .. Retries
    /\ taken \in BOOLEAN /\ bound \in BOOLEAN /\ pending \in BOOLEAN
    /\ pc \in [Clients -> {"away", "waiting", "write", "served", "closed"} \union BeforeRearm]
    /\ fileOk \in BOOLEAN /\ lost \in BOOLEAN /\ crashed \in BOOLEAN

\* Never is an accept asked for while a handler has yet to ask for the next one,
\* and no two handlers have: clients are accepted one at a time.
OneAtATime ==
    /\ pending => Holders = {}
    /\ \A c, d \in Holders : c = d

\* A server that has started and still runs listens to nobody only when a
\* handler has failed before it asked for the next accept.
DeafHasCause ==
    start = "running" /\ ~crashed /\ ~pending /\ Holders = {} => lost

\* And it is then deaf for good: no client waits for an accept that comes.
DeafForGood == [][lost => ~pending /\ ~pending']_vars

\* A client that keeps waiting waits for a server that is deaf, has ended,
\* never started, or is held by a handshake with a faulty client.
WaitingHasCause ==
    \A c \in Clients :
        <>[](pc[c] = "waiting") =>
            <>(\/ lost \/ crashed \/ start = "gaveUp"
               \/ \E d \in Faulty : pc[d] = "handshake")

=============================================================================
