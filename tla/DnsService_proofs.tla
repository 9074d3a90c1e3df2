-------------------------- MODULE DnsService_proofs --------------------------
(***************************************************************************)
(* The accounting of listeners, for any number of listeners, threads and   *)
(* failures.  Every listener is free, or held at one point of the code:    *)
(* Accounting gives each point the number of listeners a thread there has  *)
(* taken and not yet given back.  A thread whose BeginReceive threw holds  *)
(* the one it was called with and the one it took; a thread on its way     *)
(* back from a failed EndSend will give its listener back twice, which is  *)
(* what lost counts.                                                       *)
(*                                                                         *)
(* NoLostWakeup is the reason the server never goes deaf: while a listener *)
(* is free and no receive is pending, some thread still has StartUdpListen *)
(* before it.                                                              *)
(***************************************************************************)
EXTENDS DnsService, FiniteSetTheorems, TLAPS

Pending == IF receiving THEN 1 ELSE 0

Shape ==
    /\ available \in Nat /\ active \in BOOLEAN /\ receiving \in BOOLEAN
    /\ entered \in Nat /\ recv \in Nat /\ sending \in Nat /\ release \in Nat
    /\ listen \in [Then -> Nat] /\ clear \in [Then -> Nat] /\ handle \in [Then -> Nat]
    /\ stopped \in BOOLEAN /\ failures \in 0 .. MaxFailures /\ lost \in Nat

Accounting ==
    available + Pending + entered + recv + sending + release
        + listen["recv"] + listen["release"]
        + 2 * (clear["recv"] + clear["release"] + handle["recv"] + handle["release"])
        + clear["done"] + handle["done"]
    = ListenerCount + lost

NoLostWakeup == available > 0 /\ ~active => Total(listen) + Total(handle) > 0

IInv == Shape /\ Accounting /\ OneReceiver /\ NoLostWakeup

USE DnsAssumption DEF DnsAssumption

\* What Inc and Dec do to the counters of a function.
LEMMA Counters ==
    ASSUME NEW f \in [Then -> Nat], NEW x \in Then
    PROVE  /\ Inc(f, x) \in [Then -> Nat]
           /\ f[x] > 0 => Dec(f, x) \in [Then -> Nat]
           /\ \A y \in Then : Inc(f, x)[y] = IF y = x THEN f[y] + 1 ELSE f[y]
           /\ \A y \in Then : Dec(f, x)[y] = IF y = x THEN f[y] - 1 ELSE f[y]
BY DEF Inc, Dec

\* The three things a listener may do next.
LEMMA ThenFacts ==
    /\ "recv" \in Then /\ "release" \in Then /\ "done" \in Then
    /\ \A x \in Then : x = "recv" \/ x = "release" \/ x = "done"
BY DEF Then

\* The server starts with every listener free and Start about to listen.
LEMMA InitIInv == Init => IInv
<1> SUFFICES ASSUME Init PROVE IInv
  OBVIOUS
<1>1. /\ listen \in [Then -> Nat] /\ clear \in [Then -> Nat] /\ handle \in [Then -> Nat]
      /\ listen["done"] = 1 /\ listen["recv"] = 0 /\ listen["release"] = 0
      /\ \A x \in Then : clear[x] = 0 /\ handle[x] = 0
  BY ThenFacts DEF Init
<1>0. /\ available \in Nat /\ active = FALSE /\ receiving = FALSE /\ stopped = FALSE
      /\ entered = 0 /\ recv = 0 /\ sending = 0 /\ release = 0 /\ lost = 0
      /\ failures \in 0 .. MaxFailures
  BY DEF Init
<1>2. Shape
  BY <1>0, <1>1 DEF Shape
<1>3. Accounting
  BY <1>1, ThenFacts DEF Init, Accounting, Pending
<1>4. OneReceiver /\ NoLostWakeup
  BY <1>1, ThenFacts DEF Init, OneReceiver, NoLostWakeup, Total
<1> QED BY <1>2, <1>3, <1>4 DEF IInv

\* StartUdpListen returning without a receive: a free listener, if there is
\* one, has its receive already.
LEMMA NothingIInv == ASSUME IInv, NEW x \in Then, NothingToStart(x) PROVE IInv'
<1> USE ThenFacts
<1>1. /\ listen' \in [Then -> Nat]
      /\ \A y \in Then : listen'[y] = IF y = x THEN listen[y] - 1 ELSE listen[y]
  BY Counters DEF NothingToStart, Return, IInv, Shape
<1>2. /\ listen \in [Then -> Nat] /\ clear \in [Then -> Nat] /\ handle \in [Then -> Nat]
      /\ UNCHANGED <<available, active, receiving, entered, clear, handle, sending,
                     stopped, failures, lost>>
  BY DEF NothingToStart, IInv, Shape
<1>3. Shape'
  BY <1>1, <1>2 DEF NothingToStart, Return, IInv, Shape
<1>4. Accounting'
  BY <1>1, <1>2 DEF NothingToStart, Return, IInv, Shape, Accounting, Pending
<1>5. OneReceiver' /\ NoLostWakeup'
  BY <1>2 DEF NothingToStart, Full, IInv, Shape, OneReceiver, NoLostWakeup, Total
<1> QED BY <1>3, <1>4, <1>5 DEF IInv

\* A receive begins, or its beginning throws: one listener is taken.
LEMMA BeginIInv ==
    ASSUME IInv, NEW x \in Then, BeginReceive(x) \/ BeginReceiveThrows(x)
    PROVE  IInv'
<1> USE ThenFacts
<1>1. /\ listen' \in [Then -> Nat]
      /\ \A y \in Then : listen'[y] = IF y = x THEN listen[y] - 1 ELSE listen[y]
  BY Counters DEF BeginReceive, BeginReceiveThrows, Return, IInv, Shape
<1>2. /\ listen \in [Then -> Nat] /\ clear \in [Then -> Nat] /\ handle \in [Then -> Nat]
      /\ UNCHANGED <<entered, handle, sending, stopped, lost>>
      /\ available > 0 /\ available' = available - 1 /\ ~active /\ active' = TRUE
      /\ failures' \in 0 .. MaxFailures
  BY DEF BeginReceive, BeginReceiveThrows, Full, Fails, Works, IInv, Shape
<1>3. CASE BeginReceive(x)
  <2>1. ~receiving /\ receiving' = TRUE /\ UNCHANGED clear
    BY <1>2, <1>3 DEF BeginReceive, IInv, Shape, OneReceiver, Total
  <2>2. Shape'
    BY <1>1, <1>2, <1>3, <2>1 DEF BeginReceive, Return, IInv, Shape
  <2>3. Accounting'
    BY <1>1, <1>2, <1>3, <2>1 DEF BeginReceive, Return, IInv, Shape, Accounting, Pending
  <2>4. OneReceiver' /\ NoLostWakeup'
    BY <1>2, <2>1 DEF IInv, Shape, OneReceiver, NoLostWakeup, Total
  <2> QED BY <2>2, <2>3, <2>4 DEF IInv
<1>4. CASE BeginReceiveThrows(x)
  <2>1. /\ clear' \in [Then -> Nat]
        /\ \A y \in Then : clear'[y] = IF y = x THEN clear[y] + 1 ELSE clear[y]
    BY <1>2, <1>4, Counters DEF BeginReceiveThrows
  <2>2. UNCHANGED <<receiving, recv, release>>
    BY <1>4 DEF BeginReceiveThrows
  <2>3. Shape'
    BY <1>1, <1>2, <2>1, <2>2 DEF IInv, Shape
  <2>4. Accounting'
    BY <1>1, <1>2, <2>1, <2>2 DEF IInv, Shape, Accounting, Pending
  <2>5. Total(clear') = Total(clear) + 1
    BY <1>2, <2>1 DEF Total
  <2>6. OneReceiver' /\ NoLostWakeup'
    BY <1>2, <2>1, <2>2, <2>5 DEF IInv, Shape, OneReceiver, NoLostWakeup, Total
  <2> QED BY <2>3, <2>4, <2>6 DEF IInv
<1> QED BY <1>3, <1>4

\* The catch block of StartUdpListen clears the flag.
LEMMA ClearIInv == ASSUME IInv, NEW x \in Then, ClearActive(x) PROVE IInv'
<1> USE ThenFacts
<1>1. /\ clear' \in [Then -> Nat] /\ handle' \in [Then -> Nat]
      /\ \A y \in Then : clear'[y] = IF y = x THEN clear[y] - 1 ELSE clear[y]
      /\ \A y \in Then : handle'[y] = IF y = x THEN handle[y] + 1 ELSE handle[y]
  BY Counters DEF ClearActive, IInv, Shape
<1>2. /\ clear[x] > 0 /\ active' = FALSE
      /\ UNCHANGED <<available, receiving, entered, listen, recv, sending, release,
                     stopped, failures, lost>>
      /\ listen \in [Then -> Nat] /\ clear \in [Then -> Nat] /\ handle \in [Then -> Nat]
  BY DEF ClearActive, IInv, Shape
<1>3. Shape'
  BY <1>1, <1>2 DEF IInv, Shape
<1>p. Pending' = Pending /\ Pending \in Nat
  BY <1>2 DEF Pending
<1>n. /\ available \in Nat /\ entered \in Nat /\ recv \in Nat /\ sending \in Nat
      /\ release \in Nat /\ lost \in Nat
      /\ \A y \in Then : listen[y] \in Nat /\ clear[y] \in Nat /\ handle[y] \in Nat
  BY DEF IInv, Shape
<1>a. ASSUME x = "recv" PROVE Accounting'
  <2>1. /\ clear'["recv"] = clear["recv"] - 1 /\ handle'["recv"] = handle["recv"] + 1
        /\ clear'["release"] = clear["release"] /\ clear'["done"] = clear["done"]
        /\ handle'["release"] = handle["release"] /\ handle'["done"] = handle["done"]
    BY <1>1, <1>a
  <2> QED BY <1>2, <1>p, <1>n, <2>1 DEF IInv, Accounting
<1>b. ASSUME x = "release" PROVE Accounting'
  <2>1. /\ clear'["release"] = clear["release"] - 1 /\ handle'["release"] = handle["release"] + 1
        /\ clear'["recv"] = clear["recv"] /\ clear'["done"] = clear["done"]
        /\ handle'["recv"] = handle["recv"] /\ handle'["done"] = handle["done"]
    BY <1>1, <1>b
  <2> QED BY <1>2, <1>p, <1>n, <2>1 DEF IInv, Accounting
<1>c. ASSUME x = "done" PROVE Accounting'
  <2>1. /\ clear'["done"] = clear["done"] - 1 /\ handle'["done"] = handle["done"] + 1
        /\ clear'["recv"] = clear["recv"] /\ clear'["release"] = clear["release"]
        /\ handle'["recv"] = handle["recv"] /\ handle'["release"] = handle["release"]
    BY <1>1, <1>c
  <2> QED BY <1>2, <1>p, <1>n, <2>1 DEF IInv, Accounting
<1>d. Accounting'
  BY <1>a, <1>b, <1>c
<1>4. OneReceiver' /\ NoLostWakeup'
  BY <1>1, <1>2 DEF IInv, Shape, OneReceiver, NoLostWakeup, Total
<1> QED BY <1>3, <1>d, <1>4 DEF IInv

\* HandleUdpException gives one listener back and listens again.
LEMMA HandleIInv == ASSUME IInv, NEW x \in Then, HandleUdpException(x) PROVE IInv'
<1> USE ThenFacts
<1>1. /\ listen' \in [Then -> Nat] /\ handle' \in [Then -> Nat]
      /\ \A y \in Then : handle'[y] = IF y = x THEN handle[y] - 1 ELSE handle[y]
      /\ \A y \in Then : listen'[y] = IF y = x THEN listen[y] + 1 ELSE listen[y]
  BY Counters DEF HandleUdpException, IInv, Shape
<1>2. /\ handle[x] > 0 /\ available' = available + 1
      /\ UNCHANGED <<active, receiving, entered, clear, recv, sending, release,
                     stopped, failures, lost>>
      /\ listen \in [Then -> Nat] /\ clear \in [Then -> Nat] /\ handle \in [Then -> Nat]
  BY DEF HandleUdpException, IInv, Shape
<1>3. Shape'
  BY <1>1, <1>2 DEF IInv, Shape
<1>p. Pending' = Pending /\ Pending \in Nat
  BY <1>2 DEF Pending
<1>n. /\ available \in Nat /\ entered \in Nat /\ recv \in Nat /\ sending \in Nat
      /\ release \in Nat /\ lost \in Nat
      /\ \A y \in Then : listen[y] \in Nat /\ clear[y] \in Nat /\ handle[y] \in Nat
  BY DEF IInv, Shape
<1>a. ASSUME x = "recv" PROVE Accounting'
  <2>1. /\ handle'["recv"] = handle["recv"] - 1 /\ listen'["recv"] = listen["recv"] + 1
        /\ handle'["release"] = handle["release"] /\ handle'["done"] = handle["done"]
        /\ listen'["release"] = listen["release"] /\ listen'["done"] = listen["done"]
    BY <1>1, <1>a
  <2> QED BY <1>2, <1>p, <1>n, <2>1 DEF IInv, Accounting
<1>b. ASSUME x = "release" PROVE Accounting'
  <2>1. /\ handle'["release"] = handle["release"] - 1 /\ listen'["release"] = listen["release"] + 1
        /\ handle'["recv"] = handle["recv"] /\ handle'["done"] = handle["done"]
        /\ listen'["recv"] = listen["recv"] /\ listen'["done"] = listen["done"]
    BY <1>1, <1>b
  <2> QED BY <1>2, <1>p, <1>n, <2>1 DEF IInv, Accounting
<1>c. ASSUME x = "done" PROVE Accounting'
  <2>1. /\ handle'["done"] = handle["done"] - 1 /\ listen'["done"] = listen["done"] + 1
        /\ handle'["recv"] = handle["recv"] /\ handle'["release"] = handle["release"]
        /\ listen'["recv"] = listen["recv"] /\ listen'["release"] = listen["release"]
    BY <1>1, <1>c
  <2> QED BY <1>2, <1>p, <1>n, <2>1 DEF IInv, Accounting
<1>d. Accounting'
  BY <1>a, <1>b, <1>c
<1>4. OneReceiver' /\ NoLostWakeup'
  BY <1>1, <1>2 DEF IInv, Shape, OneReceiver, NoLostWakeup, Total
<1> QED BY <1>3, <1>d, <1>4 DEF IInv

\* A receive ends, and its callback clears the flag.
LEMMA ReceiveIInv == ASSUME IInv, ReceiveEnds \/ EndUdpReceive PROVE IInv'
<1> USE ThenFacts
<1>1. CASE ReceiveEnds
  <2>0. entered' \in Nat /\ receiving' = FALSE
    BY <1>1 DEF ReceiveEnds, IInv, Shape
  <2>1. Shape'
    BY <1>1, <2>0 DEF ReceiveEnds, IInv, Shape
  <2>2. Accounting'
    BY <1>1 DEF ReceiveEnds, IInv, Shape, Accounting, Pending
  <2>3. OneReceiver' /\ NoLostWakeup'
    BY <1>1 DEF ReceiveEnds, IInv, Shape, OneReceiver, NoLostWakeup, Total
  <2> QED BY <2>1, <2>2, <2>3 DEF IInv
<1>2. CASE EndUdpReceive
  <2>1. /\ listen' \in [Then -> Nat]
        /\ \A y \in Then : listen'[y] = IF y = "recv" THEN listen[y] + 1 ELSE listen[y]
    BY <1>2, Counters DEF EndUdpReceive, IInv, Shape
  <2>0. entered' \in Nat /\ active' = FALSE
    BY <1>2 DEF EndUdpReceive, IInv, Shape
  <2>2. Shape'
    BY <1>2, <2>0, <2>1 DEF EndUdpReceive, IInv, Shape
  <2>4. Accounting'
    BY <1>2, <2>1 DEF EndUdpReceive, IInv, Shape, Accounting, Pending
  <2>3. OneReceiver' /\ NoLostWakeup'
    BY <1>2, <2>1 DEF EndUdpReceive, IInv, Shape, OneReceiver, NoLostWakeup, Total
  <2> QED BY <2>2, <2>3, <2>4 DEF IInv
<1> QED BY <1>1, <1>2

\* A query is sent or dropped.
LEMMA QueryIInv == ASSUME IInv, BeginSend \/ QueryThrows PROVE IInv'
<1> USE ThenFacts
<1>0. failures' \in 0 .. MaxFailures
  BY DEF BeginSend, QueryThrows, Fails, Works, IInv, Shape
<1>1. CASE BeginSend
  <2>1. Shape'
    BY <1>0, <1>1 DEF BeginSend, IInv, Shape
  <2>2. Accounting'
    BY <1>0, <1>1 DEF BeginSend, IInv, Shape, Accounting, Pending
  <2>3. OneReceiver' /\ NoLostWakeup'
    BY <1>0, <1>1 DEF BeginSend, IInv, Shape, OneReceiver, NoLostWakeup, Total
  <2> QED BY <2>1, <2>2, <2>3 DEF IInv
<1>2. CASE QueryThrows
  <2>1. /\ handle' \in [Then -> Nat]
        /\ \A y \in Then : handle'[y] = IF y = "done" THEN handle[y] + 1 ELSE handle[y]
    BY <1>2, Counters DEF QueryThrows, IInv, Shape
  <2>2. Shape' /\ Accounting'
    BY <1>0, <1>2, <2>1 DEF QueryThrows, IInv, Shape, Accounting, Pending
  <2>3. OneReceiver' /\ NoLostWakeup'
    BY <1>2, <2>1 DEF QueryThrows, IInv, Shape, OneReceiver, NoLostWakeup, Total
  <2> QED BY <2>2, <2>3 DEF IInv
<1> QED BY <1>1, <1>2

\* A send ends: its listener is given back, twice if the send failed.
LEMMA SendIInv == ASSUME IInv, EndSend \/ EndSendThrows \/ ReleaseListener PROVE IInv'
<1> USE ThenFacts
<1>0. failures' \in 0 .. MaxFailures
  BY DEF EndSend, EndSendThrows, ReleaseListener, Fails, Works, IInv, Shape
<1>1. CASE EndSend
  <2>1. Shape'
    BY <1>0, <1>1 DEF EndSend, IInv, Shape
  <2>2. Accounting'
    BY <1>0, <1>1 DEF EndSend, IInv, Shape, Accounting, Pending
  <2>3. OneReceiver' /\ NoLostWakeup'
    BY <1>0, <1>1 DEF EndSend, IInv, Shape, OneReceiver, NoLostWakeup, Total
  <2> QED BY <2>1, <2>2, <2>3 DEF IInv
<1>2. CASE EndSendThrows
  <2>1. /\ handle' \in [Then -> Nat]
        /\ \A y \in Then : handle'[y] = IF y = "release" THEN handle[y] + 1 ELSE handle[y]
    BY <1>2, Counters DEF EndSendThrows, IInv, Shape
  <2>2. Shape' /\ Accounting'
    BY <1>0, <1>2, <2>1 DEF EndSendThrows, IInv, Shape, Accounting, Pending
  <2>3. OneReceiver' /\ NoLostWakeup'
    BY <1>2, <2>1 DEF EndSendThrows, IInv, Shape, OneReceiver, NoLostWakeup, Total
  <2> QED BY <2>2, <2>3 DEF IInv
<1>3. CASE ReleaseListener
  <2>1. /\ listen' \in [Then -> Nat]
        /\ \A y \in Then : listen'[y] = IF y = "done" THEN listen[y] + 1 ELSE listen[y]
    BY <1>3, Counters DEF ReleaseListener, IInv, Shape
  <2>2. Shape' /\ Accounting'
    BY <1>0, <1>3, <2>1 DEF ReleaseListener, IInv, Shape, Accounting, Pending
  <2>3. OneReceiver' /\ NoLostWakeup'
    BY <1>3, <2>1 DEF ReleaseListener, IInv, Shape, OneReceiver, NoLostWakeup, Total
  <2> QED BY <2>2, <2>3 DEF IInv
<1> QED BY <1>1, <1>2, <1>3

\* Every step preserves IInv.
LEMMA NextIInv == IInv /\ [Next]_vars => IInv'
<1> SUFFICES ASSUME IInv, [Next]_vars PROVE IInv'
  OBVIOUS
<1>1. ASSUME NEW x \in Then, StartUdpListen(x) PROVE IInv'
  BY <1>1, NothingIInv, BeginIInv DEF StartUdpListen
<1>2. ASSUME NEW x \in Then, ClearActive(x) \/ HandleUdpException(x) PROVE IInv'
  BY <1>2, ClearIInv, HandleIInv
<1>3. CASE ReceiveEnds \/ EndUdpReceive
  BY <1>3, ReceiveIInv
<1>4. CASE BeginSend \/ QueryThrows
  BY <1>4, QueryIInv
<1>5. CASE EndSend \/ EndSendThrows \/ ReleaseListener
  BY <1>5, SendIInv
<1>6. CASE Stop \/ UNCHANGED vars
  <2>1. UNCHANGED <<available, active, receiving, threads, sending, failures, lost>> /\ stopped' \in BOOLEAN
    BY <1>6 DEF Stop, vars, IInv, Shape
  <2> QED BY <2>1 DEF threads, IInv, Shape, Accounting, OneReceiver, NoLostWakeup, Total, Pending
<1> QED BY <1>1, <1>2, <1>3, <1>4, <1>5, <1>6 DEF Next, Run

\* IInv holds in every reachable state.
THEOREM Inductive == Spec => []IInv
<1>1. Init => IInv
  BY InitIInv
<1>2. IInv /\ [Next]_vars => IInv'
  BY NextIInv
<1> QED BY <1>1, <1>2, PTL DEF Spec

\* The counters never go below zero.
THEOREM TypeCorrect == Spec => []TypeOK
<1>1. IInv => TypeOK
  BY DEF IInv, Shape, TypeOK
<1> QED BY <1>1, Inductive, PTL

\* For any number of listeners and failures at most one receive is pending or
\* in the making, and _hasActiveUdpListener says when.
THEOREM OneReceiverTheorem == Spec => []OneReceiver
<1>1. IInv => OneReceiver
  BY DEF IInv
<1> QED BY <1>1, Inductive, PTL

\* With no thread at work every listener is at the receive or at a send.
LEMMA NotDeaf == IInv => NeverDeaf
BY ThenFacts DEF IInv, Shape, Accounting, OneReceiver, NoLostWakeup, NeverDeaf, Running, Total, Pending

\* For any number of listeners and failures the server never goes deaf.
THEOREM NeverDeafTheorem == Spec => []NeverDeaf
BY NotDeaf, Inductive, PTL

\* Queries in work exceed the listener count by no more than the failed sends.
THEOREM HandlersTheorem == Spec => []HandlersBounded
<1>1. IInv => HandlersBounded
  BY ThenFacts DEF IInv, Shape, Accounting, HandlersBounded, Pending
<1> QED BY <1>1, Inductive, PTL

-----------------------------------------------------------------------------
(***************************************************************************)
(* The DNS service, for any set of datagrams.  It keeps the accounting of  *)
(* listeners of the server: each of its steps is one of the                *)
(* server's, leaves the server alone, or is GiveUp, which gives a listener *)
(* back like QueryThrows does.  Threads that have a query are as many as   *)
(* the counters of the server say, which is why counting them, and letting *)
(* any datagram that waits be read by any thread, loses nothing.           *)
(***************************************************************************)

USE ServiceAssumption DEF ServiceAssumption

Answers == {None, "failure", "v4", "v6", "site", "nowhere"}

\* The exception of a datagram costs the server its listener for a while only.
LEMMA GiveUpIInv == ASSUME IInv, GiveUp PROVE IInv'
<1> USE ThenFacts
<1>1. /\ handle' \in [Then -> Nat]
      /\ \A y \in Then : handle'[y] = IF y = "done" THEN handle[y] + 1 ELSE handle[y]
  BY Counters DEF GiveUp, IInv, Shape
<1>2. Shape'
  BY <1>1 DEF GiveUp, IInv, Shape
<1>3. Accounting'
  BY <1>1 DEF GiveUp, IInv, Shape, Accounting, Pending
<1>4. OneReceiver' /\ NoLostWakeup'
  BY <1>1 DEF GiveUp, IInv, Shape, OneReceiver, NoLostWakeup, Total
<1> QED BY <1>2, <1>3, <1>4 DEF IInv

\* Every step of the service is one of the server, or none, or GiveUp.
LEMMA ServiceSteps == [NextService]_all => [Next]_vars \/ GiveUp
<1> SUFFICES ASSUME [NextService]_all PROVE [Next]_vars \/ GiveUp
  OBVIOUS
<1>1. CASE Listening
  BY <1>1 DEF Listening, Next, Run
<1>2. CASE AssignSite \/ UNCHANGED all
  BY <1>2 DEF AssignSite, all
<1>3. ASSUME NEW d \in Datagrams, Ask(d) \/ (\E r \in Datagrams : AskSelf(d, r))
      PROVE  UNCHANGED vars
  BY <1>3 DEF Ask, AskSelf
<1>4. ASSUME NEW d \in Datagrams, Receive(d)
      PROVE  Next
  BY <1>4 DEF Receive, Next, Run
<1>5. ASSUME NEW d \in Datagrams, Process(d)
      PROVE  [Next]_vars \/ GiveUp
  BY <1>5 DEF Process, ProcessMessage, ProcessQuery, Send, NoAnswer, Next, Run
<1>6. ASSUME NEW d \in Datagrams, Sends(d)
      PROVE  Next
  BY <1>6 DEF Sends, Sent, Next, Run
<1> QED BY <1>1, <1>2, <1>3, <1>4, <1>5, <1>6 DEF NextService

\* The accounting of the server holds under the service.
LEMMA ServiceIInv == IInv /\ [NextService]_all => IInv'
BY ServiceSteps, NextIInv, GiveUpIInv

\* The server's invariant holds in every reachable state of the service.
THEOREM ServerUnderService == ServiceSpec => []IInv
<1>1. InitService => IInv
  BY InitIInv DEF InitService
<1>2. IInv /\ [NextService]_all => IInv'
  BY ServiceIInv
<1> QED BY <1>1, <1>2, PTL DEF ServiceSpec

\* Under the service at most one receive is pending or in the making, though
\* exceptions of its datagrams are not failures of the socket.
THEOREM OneReceiverServed == ServiceSpec => []OneReceiver
<1>1. IInv => OneReceiver
  BY DEF IInv
<1> QED BY <1>1, ServerUnderService, PTL

\* Nor does the server go deaf under it, whatever arrives.
THEOREM NeverDeafServed == ServiceSpec => []NeverDeaf
BY NotDeaf, ServerUnderService, PTL

-----------------------------------------------------------------------------
AnswerInv ==
    /\ self \in BOOLEAN
    /\ answer \in [Datagrams -> Answers]
    /\ NoSelfAnswer

\* What the resolver returns on a machine that asks itself, as long as the service
\* has given no address: an exception.
LEMMA OnlyFailure ==
    ASSUME AnswerInv, self, NEW d \in Datagrams
    PROVE  \A a \in Resolved(d) : AddressOf(d, a) = "failure"
<1>1. \A r \in Datagrams : answer[r] \notin {"v4", "v6", "site", "nowhere"}
  BY DEF AnswerInv, NoSelfAnswer
<1>2. \A a \in Resolved(d) : a = "failure"
  BY <1>1 DEF Resolved
<1>3. AddressOf(d, "failure") = "failure"
  BY DEF AddressOf
<1> QED BY <1>2, <1>3

\* Every answer of the resolver is one of the service's.
LEMMA AnswerTypes ==
    ASSUME NEW d \in Datagrams
    PROVE  \A a \in Resolved(d) : AddressOf(d, a) \in Answers
BY DEF Resolved, AddressOf, Answers

\* Every step preserves AnswerInv.
LEMMA AnswerStep == AnswerInv /\ [NextService]_all => AnswerInv'
<1> SUFFICES ASSUME AnswerInv, [NextService]_all PROVE AnswerInv'
  OBVIOUS
<1>1. ASSUME UNCHANGED <<self, answer>> PROVE AnswerInv'
  BY <1>1 DEF AnswerInv, NoSelfAnswer
<1>2. ASSUME NEW d \in Datagrams, NEW a \in Answers, self' = self,
             self => a \in {None, "failure"}, answer' = [answer EXCEPT ![d] = a]
      PROVE  AnswerInv'
  BY <1>2 DEF AnswerInv, NoSelfAnswer
<1>3. CASE Listening \/ AssignSite \/ UNCHANGED all
  BY <1>1, <1>3 DEF Listening, AssignSite, all, service
<1>4. ASSUME NEW d \in Datagrams, Ask(d) \/ Receive(d) \/ Send(d) \/ Sent(d, TRUE)
                                  \/ (\E r \in Datagrams : AskSelf(d, r))
      PROVE  AnswerInv'
  BY <1>1, <1>4 DEF Ask, Receive, Send, Sent, AskSelf
<1>5. ASSUME NEW d \in Datagrams, ProcessMessage(d) PROVE AnswerInv'
  <2>1. CASE UNCHANGED answer
    BY <1>1, <1>5, <2>1 DEF ProcessMessage
  <2>2. CASE answer # answer'
    <3>1. kind[d] = "unfit"
      BY <1>5, <2>2 DEF ProcessMessage, Resolving, NeedsResolving
    <3>2. self' = self /\ answer' = [answer EXCEPT ![d] = "failure"]
      BY <1>5, <2>2, <3>1 DEF ProcessMessage
    <3> QED BY <1>2, <3>2 DEF Answers
  <2> QED BY <2>1, <2>2
<1>6. ASSUME NEW d \in Datagrams, ProcessQuery(d) PROVE AnswerInv'
  <2>1. PICK a \in Resolved(d) : answer' = [answer EXCEPT ![d] = AddressOf(d, a)]
    BY <1>6 DEF ProcessQuery
  <2>2. self' = self /\ AddressOf(d, a) \in Answers
    BY <1>6, AnswerTypes DEF ProcessQuery
  <2>3. self => AddressOf(d, a) = "failure"
    BY OnlyFailure
  <2> QED BY <1>2, <2>1, <2>2, <2>3
<1>7. ASSUME NEW d \in Datagrams, NoAnswer(d) \/ Sent(d, FALSE) PROVE AnswerInv'
  <2>1. self' = self /\ answer' = [answer EXCEPT ![d] = None]
    BY <1>7 DEF NoAnswer, Sent
  <2> QED BY <1>2, <2>1 DEF Answers
<1> QED
  BY <1>3, <1>4, <1>5, <1>6, <1>7 DEF NextService, Process, Sends

\* For any set of datagrams, a machine that uses the service as its own name server
\* never gets an address from it.
THEOREM NoSelfAnswerHolds == ServiceSpec => []NoSelfAnswer
<1>1. InitService => AnswerInv
  BY DEF InitService, AnswerInv, NoSelfAnswer, Answers
<1>2. AnswerInv /\ [NextService]_all => AnswerInv'
  BY AnswerStep
<1>3. AnswerInv => NoSelfAnswer
  BY DEF AnswerInv
<1> QED BY <1>1, <1>2, <1>3, PTL DEF ServiceSpec

=============================================================================
