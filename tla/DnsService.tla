------------------------------ MODULE DnsService ------------------------------
(***************************************************************************)
(* The DNS service over the UDP side of its server: what becomes of each   *)
(* datagram.  ProcessQuery resolves the name it is asked for, on a thread  *)
(* of the pool that holds the query's listener, and answers                *)
(* trailers.apple.com with _ipSite, which Init assigns after it has        *)
(* started the server.  On a machine that uses this service for its own    *)
(* name server, to resolve a name is to ask the service.                   *)
(*                                                                         *)
(* DnsUdpServer counts threads, which it does not tell apart, so any       *)
(* datagram that was received may be the one a thread goes on with.        *)
(***************************************************************************)
EXTENDS DnsUdpServer, FiniteSets

CONSTANTS
    Datagrams,  \* what may arrive at the socket, an error of it too
    None

ASSUME ServiceAssumption ==
    /\ IsFiniteSet(Datagrams)
    /\ None \notin Datagrams \union {"failure", "v4", "v6", "site", "nowhere"}

VARIABLES
    self,       \* the machine's name server is this service
    ipSite,     \* _ipSite is assigned
    kind,       \* kind[d]: what it is
    state,      \* state[d]: how far the service got with it
    asker,      \* asker[d]: the query that resolves its name with it
    answer      \* answer[d]: what the service sent, or was about to

service == <<self, ipSite, kind, state, asker, answer>>
all     == <<vars, service>>

\* "trailers" and "other" ask for an A record.  "unfit" is any other query, answered
\* with ServerFailure; "unread" does not parse, or is an error of the socket.
Names == {"trailers", "other"}
Kinds == Names \union {"unfit", "unread"}

States == {"away", "sent", "received", "resolving", "processed", "sending", "over"}

InitService ==
    /\ Init
    /\ self \in BOOLEAN
    /\ ipSite = FALSE
    /\ kind \in [Datagrams -> Kinds]
    /\ state = [d \in Datagrams |-> "away"]
    /\ asker = [d \in Datagrams |-> None]
    /\ answer = [d \in Datagrams |-> None]

In(states) == {d \in Datagrams : state[d] \in states}
Goto(d, s) == state' = [state EXCEPT ![d] = s]

-----------------------------------------------------------------------------
\* DNSService.Init, after InitServer.
AssignSite ==
    /\ ~ipSite /\ ipSite' = TRUE
    /\ UNCHANGED <<vars, self, kind, state, asker, answer>>

\* A client asks.
Ask(d) ==
    /\ state[d] = "away" /\ Goto(d, "sent")
    /\ UNCHANGED <<vars, self, ipSite, kind, asker, answer>>

Receive(d) ==
    /\ state[d] = "sent" /\ Goto(d, "received")
    /\ ReceiveEnds
    /\ UNCHANGED <<self, ipSite, kind, asker, answer>>

-----------------------------------------------------------------------------
\* A thread is past StartUdpListen with a datagram nobody has read yet.
MayRead == Cardinality(In({"resolving", "processed"})) < recv

\* Mutant of NeedsResolving: the name is looked at first.
TrailersFirst(d) == kind[d] # "trailers"

\* A query is resolved first, whatever its name.
NeedsResolving(d) == TRUE
Resolving(d) == kind[d] \in Names /\ NeedsResolving(d)

\* ProcessMessage: the answer, or none yet.
ProcessMessage(d) ==
    /\ state[d] = "received" /\ MayRead
    /\ kind[d] \in Names \union {"unfit"}
    /\ IF Resolving(d) THEN Goto(d, "resolving") /\ UNCHANGED answer
       ELSE /\ Goto(d, "processed")
            /\ answer' = [answer EXCEPT ![d] = IF kind[d] = "unfit" THEN "failure" ELSE "site"]
    /\ UNCHANGED <<vars, self, ipSite, kind, asker>>

\* The resolver asks this service for the same name.
AskSelf(d, r) ==
    /\ self /\ state[d] = "resolving" /\ ~\E x \in Datagrams : asker[x] = d
    /\ state[r] = "away" /\ kind[r] = kind[d] /\ Goto(r, "sent")
    /\ asker' = [asker EXCEPT ![r] = d]
    /\ UNCHANGED <<vars, self, ipSite, kind, answer>>

\* Mutant of Resolved: the resolver waits for an answer without end.
ResolvedInTheEnd(d) ==
    IF ~self THEN {"v4", "v6", "failure"}
    ELSE {a \in {"v4", "v6", "site", "nowhere", "failure"} :
             \E r \in Datagrams : asker[r] = d /\ state[r] = "over" /\ answer[r] = a}

\* What GetHostAddresses may return: an address of the name, of either version,
\* or an exception, when there is none or no answer came in time.
Resolved(d) ==
    IF ~self THEN {"v4", "v6", "failure"}
    ELSE {"failure"} \union
         {a \in {"v4", "v6", "site", "nowhere"} :
             \E r \in Datagrams : asker[r] = d /\ state[r] = "over" /\ answer[r] = a}

\* An ARecord made with null has the address 255.255.255.255.
AddressOf(d, a) ==
    IF a = "failure" \/ kind[d] # "trailers" THEN a
    ELSE IF ipSite THEN "site" ELSE "nowhere"

ProcessQuery(d) ==
    /\ state[d] = "resolving" /\ Goto(d, "processed")
    /\ \E a \in Resolved(d) : answer' = [answer EXCEPT ![d] = AddressOf(d, a)]
    /\ UNCHANGED <<vars, self, ipSite, kind, asker>>

-----------------------------------------------------------------------------
\* An address of version 6 is longer than the room made for it, and Encode throws
\* unless something else left room.
Send(d) ==
    /\ state[d] = "processed" /\ Goto(d, "sending")
    /\ BeginSend
    /\ UNCHANGED <<self, ipSite, kind, asker, answer>>

\* The exception of a datagram that is no query, or of an answer that cannot be
\* encoded, costs no call of the socket.
GiveUp ==
    /\ recv > 0
    /\ recv' = recv - 1
    /\ handle' = Inc(handle, "done")
    /\ UNCHANGED <<available, active, receiving, entered, listen, clear, sending,
                   release, stopped, failures, lost>>

\* The query gets no answer.
NoAnswer(d) ==
    /\ \/ state[d] = "processed"
       \/ state[d] = "received" /\ MayRead
    /\ Goto(d, "over") /\ answer' = [answer EXCEPT ![d] = None]
    /\ IF kind[d] = "unread" \/ answer[d] = "v6" THEN GiveUp ELSE QueryThrows
    /\ UNCHANGED <<self, ipSite, kind, asker>>

Sent(d, works) ==
    /\ state[d] = "sending" /\ Goto(d, "over")
    /\ IF works THEN EndSend /\ UNCHANGED answer
       ELSE EndSendThrows /\ answer' = [answer EXCEPT ![d] = None]
    /\ UNCHANGED <<self, ipSite, kind, asker>>
-----------------------------------------------------------------------------
Process(d) == ProcessMessage(d) \/ ProcessQuery(d) \/ Send(d) \/ NoAnswer(d)
Sends(d)   == Sent(d, TRUE) \/ Sent(d, FALSE)
Listening  ==
    /\ \/ \E x \in Then : StartUdpListen(x) \/ ClearActive(x) \/ HandleUdpException(x)
       \/ EndUdpReceive \/ ReleaseListener
    /\ UNCHANGED service

NextService ==
    \/ Listening
    \/ AssignSite
    \/ \E d \in Datagrams : \/ Ask(d) \/ Receive(d) \/ Process(d) \/ Sends(d)
                           \/ \E r \in Datagrams : AskSelf(d, r)

\* Threads run, sends end, GetHostAddresses returns, and what was sent to the
\* socket is there to be read.
ServiceSpec ==
    /\ InitService /\ [][NextService]_all
    /\ \A x \in Then :
        WF_all(StartUdpListen(x) /\ UNCHANGED service)
        /\ WF_all(ClearActive(x) /\ UNCHANGED service)
        /\ WF_all(HandleUdpException(x) /\ UNCHANGED service)
    /\ WF_all(EndUdpReceive /\ UNCHANGED service) /\ WF_all(ReleaseListener /\ UNCHANGED service)
    /\ \A d \in Datagrams : WF_all(Receive(d)) /\ WF_all(Process(d)) /\ WF_all(Sends(d))

-----------------------------------------------------------------------------
\* The variables of the service keep their types, and no more datagrams are being
\* read and answered than there are threads for it.
ServiceTypeOK ==
    /\ TypeOK
    /\ self \in BOOLEAN /\ ipSite \in BOOLEAN
    /\ kind \in [Datagrams -> Kinds]
    /\ state \in [Datagrams -> States]
    /\ asker \in [Datagrams -> Datagrams \union {None}]
    /\ answer \in [Datagrams -> {None, "failure", "v4", "v6", "site", "nowhere"}]
    /\ Cardinality(In({"resolving", "processed"})) <= recv
    /\ Cardinality(In({"sending"})) = sending

\* A machine that uses this service as its name server gets no address from it,
\* not even the one of trailers.apple.com: a query waits for a query of its own.
NoSelfAnswer == self => \A d \in Datagrams : answer[d] \in {None, "failure"}

\* Every datagram is dealt with, though a listener may be held by a query that
\* waits for the next, and the resolver's timeout alone lets it go on.
QueryEnds == \A d \in Datagrams : state[d] = "sent" ~> state[d] = "over"
=============================================================================
