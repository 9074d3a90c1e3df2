---------------------------- MODULE DnsUdpServer ----------------------------
(***************************************************************************)
(* The UDP side of ARSoft.Tools.Net's DnsServer, which the DNS service     *)
(* runs with one listener.  _availableUdpListener counts the listeners     *)
(* that may still take a query; at most one receive is pending, and        *)
(* whoever takes a query from it starts the next.  A query holds its       *)
(* listener until its answer is sent.                                      *)
(*                                                                         *)
(* Every callback of the socket runs on a thread of the pool.  Threads are *)
(* told apart only by where they are, so the model counts the threads at   *)
(* each point.  StartUdpListen is called from three places: a thread in it *)
(* goes on to read the query it was called for ("recv"), to give back the  *)
(* listener of a query whose send failed ("release"), or ends ("done").    *)
(* It and HandleUdpException call each other; only the place the outermost *)
(* call returns to matters.                                                *)
(***************************************************************************)
EXTENDS Integers

CONSTANTS
    ListenerCount,  \* _udpListenerCount
    PoolSize,       \* threads of the pool; a callback waits for a free one
    MaxFailures     \* bound: calls of the socket that fail before Stop

ASSUME DnsAssumption ==
    /\ ListenerCount \in Nat \ {0}
    /\ PoolSize \in Nat \ {0}
    /\ MaxFailures \in Nat

VARIABLES
    available,  \* _availableUdpListener
    active,     \* _hasActiveUdpListener
    receiving,  \* a receive is pending
    entered,    \* threads that have just entered EndUdpReceive
    listen,     \* listen[x]: threads about to run StartUdpListen, then to go on to x
    clear,      \* clear[x]: their BeginReceive threw, _hasActiveUdpListener is still set
    handle,     \* handle[x]: threads about to give a listener back in HandleUdpException
    recv,       \* threads that read, answer and send a query
    sending,    \* pending sends
    release,    \* threads about to give back a listener in EndUdpSend
    stopped,    \* Stop was called: the socket is disposed
    failures,   \* failed calls so far
    lost        \* history: sends that failed in EndSend

threads == <<entered, listen, clear, handle, recv, release>>
vars == <<available, active, receiving, threads, sending, stopped, failures, lost>>

Then == {"recv", "release", "done"}
Inc(f, x) == [f EXCEPT ![x] = @ + 1]
Dec(f, x) == [f EXCEPT ![x] = @ - 1]
Total(f)  == f["recv"] + f["release"] + f["done"]

\* The constructor, and Start: its own thread ends after StartUdpListen.
Init ==
    /\ available = ListenerCount
    /\ active = FALSE
    /\ receiving = FALSE
    /\ entered = 0 /\ recv = 0 /\ sending = 0 /\ release = 0
    /\ listen = [x \in Then |-> IF x = "done" THEN 1 ELSE 0]
    /\ clear = [x \in Then |-> 0]
    /\ handle = [x \in Then |-> 0]
    /\ stopped = FALSE
    /\ failures = 0
    /\ lost = 0

\* A socket call throws: of a disposed socket always, of another now and then.
Fails ==
    \/ stopped /\ UNCHANGED failures
    \/ ~stopped /\ failures < MaxFailures /\ failures' = failures + 1
Works == ~stopped /\ UNCHANGED failures

\* Where a thread goes when StartUdpListen returns to its outermost caller.
Return(x) ==
    /\ listen' = Dec(listen, x)
    /\ recv' = IF x = "recv" THEN recv + 1 ELSE recv
    /\ release' = IF x = "release" THEN release + 1 ELSE release


\* Threads that a callback or Start is running on.
Running == entered + Total(listen) + Total(clear) + Total(handle) + recv + release
Free == Running < PoolSize

\* Mutant of Full: a second receive beside a pending one.
FullIgnoresActive == available <= 0
Full == available <= 0 \/ active

-----------------------------------------------------------------------------
(* StartUdpListen *)

NothingToStart(x) ==
    /\ listen[x] > 0 /\ Full
    /\ Return(x)
    /\ UNCHANGED <<available, active, receiving, entered, clear, handle, sending,
                   stopped, failures, lost>>

BeginReceive(x) ==
    /\ listen[x] > 0 /\ ~Full
    /\ Works
    /\ available' = available - 1
    /\ active' = TRUE
    /\ receiving' = TRUE
    /\ Return(x)
    /\ UNCHANGED <<entered, clear, handle, sending, stopped, lost>>

BeginReceiveThrows(x) ==
    /\ listen[x] > 0 /\ ~Full
    /\ Fails
    /\ available' = available - 1
    /\ active' = TRUE
    /\ listen' = Dec(listen, x)
    /\ clear' = Inc(clear, x)
    /\ UNCHANGED <<receiving, entered, handle, recv, sending, release, stopped, lost>>

\* Mutant of ClearActive: the catch block forgets _hasActiveUdpListener.
ClearActiveNot(x) ==
    /\ clear[x] > 0
    /\ clear' = Dec(clear, x)
    /\ handle' = Inc(handle, x)
    /\ UNCHANGED <<available, active, receiving, entered, listen, recv, sending, release,
                   stopped, failures, lost>>

\* Its catch block first lets others start a receive again ...
ClearActive(x) ==
    /\ clear[x] > 0
    /\ active' = FALSE
    /\ clear' = Dec(clear, x)
    /\ handle' = Inc(handle, x)
    /\ UNCHANGED <<available, receiving, entered, listen, recv, sending, release,
                   stopped, failures, lost>>

\* ... and HandleUdpException gives the listener back and tries again.
HandleUdpException(x) ==
    /\ handle[x] > 0
    /\ available' = available + 1
    /\ handle' = Dec(handle, x)
    /\ listen' = Inc(listen, x)
    /\ UNCHANGED <<active, receiving, entered, clear, recv, sending, release,
                   stopped, failures, lost>>

-----------------------------------------------------------------------------
(* EndUdpReceive *)

\* The receive ends: with a query, an error, or because the socket is closed.
ReceiveEnds ==
    /\ receiving /\ Free
    /\ receiving' = FALSE
    /\ entered' = entered + 1
    /\ UNCHANGED <<available, active, listen, clear, handle, recv, sending, release,
                   stopped, failures, lost>>

EndUdpReceive ==
    /\ entered > 0
    /\ active' = FALSE
    /\ entered' = entered - 1
    /\ listen' = Inc(listen, "recv")
    /\ UNCHANGED <<available, receiving, clear, handle, recv, sending, release,
                   stopped, failures, lost>>

\* The query is read, answered (an exception of the handler is answered with
\* ServerFailure), cut to size, and the send begins.
BeginSend ==
    /\ recv > 0
    /\ Works
    /\ recv' = recv - 1
    /\ sending' = sending + 1
    /\ UNCHANGED <<available, active, receiving, entered, listen, clear, handle,
                   release, stopped, lost>>

\* Mutant of QueryThrows: the listener is given back twice.
QueryThrowsTwice ==
    /\ recv > 0
    /\ Fails
    /\ recv' = recv - 1
    /\ handle' = Inc(handle, "release")
    /\ UNCHANGED <<available, active, receiving, entered, listen, clear, sending,
                   release, stopped, lost>>

\* EndReceive, the parser, the encoder or BeginSend throws.
QueryThrows ==
    /\ recv > 0
    /\ Fails
    /\ recv' = recv - 1
    /\ handle' = Inc(handle, "done")
    /\ UNCHANGED <<available, active, receiving, entered, listen, clear, sending,
                   release, stopped, lost>>

-----------------------------------------------------------------------------
(* EndUdpSend *)

EndSend ==
    /\ sending > 0 /\ Free
    /\ Works
    /\ sending' = sending - 1
    /\ release' = release + 1
    /\ UNCHANGED <<available, active, receiving, entered, listen, clear, handle, recv,
                   stopped, lost>>

\* HandleUdpException gives the listener back, and so will EndUdpSend.
EndSendThrows ==
    /\ sending > 0 /\ Free
    /\ Fails
    /\ sending' = sending - 1
    /\ handle' = Inc(handle, "release")
    /\ lost' = lost + 1
    /\ UNCHANGED <<available, active, receiving, entered, listen, clear, recv, release,
                   stopped>>

\* Mutant of ReleaseListener: EndUdpSend does not start a receive.
ReleaseListenerOnly ==
    /\ release > 0
    /\ available' = available + 1
    /\ release' = release - 1
    /\ UNCHANGED <<active, receiving, entered, listen, clear, handle, recv, sending,
                   stopped, failures, lost>>

ReleaseListener ==
    /\ release > 0
    /\ available' = available + 1
    /\ release' = release - 1
    /\ listen' = Inc(listen, "done")
    /\ UNCHANGED <<active, receiving, entered, clear, handle, recv, sending,
                   stopped, failures, lost>>

Stop ==
    /\ ~stopped
    /\ stopped' = TRUE
    /\ UNCHANGED <<available, active, receiving, threads, sending, failures, lost>>

-----------------------------------------------------------------------------
StartUdpListen(x) == NothingToStart(x) \/ BeginReceive(x) \/ BeginReceiveThrows(x)
Run == \/ \E x \in Then : StartUdpListen(x) \/ ClearActive(x) \/ HandleUdpException(x)
       \/ EndUdpReceive \/ BeginSend \/ QueryThrows \/ EndSend \/ EndSendThrows
       \/ ReleaseListener \/ (stopped /\ ReceiveEnds)
Next == Run \/ (~stopped /\ ReceiveEnds) \/ Stop

\* The threads of the pool run and sends end; a query comes when it comes.
Spec == Init /\ [][Next]_vars
FairSpec ==
    /\ Spec
    /\ \A x \in Then :
        WF_vars(StartUdpListen(x)) /\ WF_vars(ClearActive(x)) /\ WF_vars(HandleUdpException(x))
    /\ WF_vars(EndUdpReceive) /\ WF_vars(BeginSend \/ QueryThrows)
    /\ WF_vars(EndSend \/ EndSendThrows) /\ WF_vars(ReleaseListener)
    /\ WF_vars(stopped /\ ReceiveEnds)

-----------------------------------------------------------------------------
(* Properties *)

\* Every variable keeps its type: no counter of listeners or threads falls below zero.
TypeOK ==
    /\ available \in Nat /\ active \in BOOLEAN /\ receiving \in BOOLEAN
    /\ entered \in Nat /\ recv \in Nat /\ sending \in Nat /\ release \in Nat
    /\ listen \in [Then -> Nat] /\ clear \in [Then -> Nat] /\ handle \in [Then -> Nat]
    /\ stopped \in BOOLEAN /\ failures \in 0 .. MaxFailures /\ lost \in Nat

\* Only one receive is pending or being set up or torn down at a time, and
\* _hasActiveUdpListener says when: the two locks of a failed BeginReceive and
\* the unlocked stretch between them let nobody start a second one.
OneReceiver ==
    entered + Total(clear) + (IF receiving THEN 1 ELSE 0) = (IF active THEN 1 ELSE 0)

\* The server never goes deaf: when no thread is left that would start a
\* receive, one is pending, or every listener waits for its send.
NeverDeaf == Running = 0 => receiving \/ sending >= ListenerCount

\* Each failed send, and nothing else, lets one more query be in work at a time
\* than the server was asked for.
HandlersBounded ==
    entered + recv + sending + (IF receiving THEN 1 ELSE 0) <= ListenerCount + lost

\* The parameter's documentation, "The count of threads listings on udp": no
\* more queries are received and answered at a time than that.
DocumentedCount ==
    entered + recv + sending + (IF receiving THEN 1 ELSE 0) <= ListenerCount

\* While the socket is open, a receive is pending again and again: failures and
\* slow sends delay it, nothing loses it.
ListensAgain == []<>(receiving \/ stopped)

=============================================================================
