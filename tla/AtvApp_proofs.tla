---------------------------- MODULE AtvApp_proofs ----------------------------
(***************************************************************************)
(* Proofs about what the Apple TV's scripts keep from page to page, for    *)
(* any loads, views, names, options, playbacks, parts of a playlist,       *)
(* logins and queries; and about what its pages are made of, for any calls,*)
(* parts, theatres, schedules and templates.                               *)
(*                                                                         *)
(* Of the loads: how far the request, the document and the view of a load  *)
(* are agrees (Flow), which leaves a spinner its causes, and makes every   *)
(* step one of ProxyPages.                                                 *)
(*                                                                         *)
(* Of the views: each keeps the name it was created with (Named), and the  *)
(* dialog created last has the callbacks of its options (Asking).          *)
(*                                                                         *)
(* Of the playbacks: two that are active at once have met, and each global *)
(* belongs to an active playback, so for a playback that met no other they *)
(* are all its own.  Its requests are then for its parts in their order,   *)
(* and only the last one is under way, which is the one that the handler   *)
(* looks at (InOrder).                                                     *)
(*                                                                         *)
(* Of the session: while nobody signed in since the last logout, every     *)
(* login that can still bring a token was under way at a logout.           *)
(*                                                                         *)
(* Of the photos: they are where the draws so far have put them, each turn *)
(* settles its place for good, so draws that differ first at some turn     *)
(* settle different photos there, and any order is settled place by place. *)
(* And of the movies of a theatre: the list stays parted in those that a   *)
(* turn has moved and those that none has (Parting).  Both go by the least *)
(* turn at which it would not be so (Least).                               *)
(*                                                                         *)
(* Of a showtimes page: while a handler aborts what came before it nothing *)
(* is tracked (Aborts), two calls with the same counters in flight have    *)
(* met (Meets), and a call that met no other has as many replies counted   *)
(* and to come as the counter of requests says (Counts), so only its last  *)
(* reply shows it or ends its spinner (Spins).                             *)
(*                                                                         *)
(* Of the dates: the day of a page's times lies between the day of the     *)
(* list it was opened from and today, which is why marking the second item *)
(* of the bar is right only while both are one day (DatesInv).             *)
(*                                                                         *)
(* Of the templates: between two pieces, and after each word of a tag, the *)
(* script so far puts out what the pieces so far mean, and the tokens are  *)
(* the rest (Between, Within); a line's last command only is a comment.    *)
(*                                                                         *)
(* Of the times of a movie: the data has what the good replies said, the   *)
(* nearer theatres first (DataOf), whatever order they came in.            *)
(***************************************************************************)
EXTENDS MCAtvApp, MCAtvPages, FiniteSetTheorems, TLAPS

-----------------------------------------------------------------------------
\* The loads.

\* What a handler's outcome says of the reply: a page comes of a page, nothing but
\* a missing document is thrown about, and loadTrailerDetailPage hands on what it got.
LEMMA Outcomes ==
    ASSUME NEW k \in Kinds, NEW doc \in Docs, NEW o \in Handler(k, doc)
    PROVE  /\ o \in Docs \union {"message"} \union Faults
           /\ o = "page" => doc = "page"
           /\ o = "throws" => doc = "null" /\ k \notin {"url", "swap"}
           /\ o = "null" /\ k \in Deaf => doc = "null"
<1>1. CASE k \in ByLoader
  <2>1. o \in MakeRequest(k, doc)
    BY <1>1 DEF Handler, ByLoader
  <2>2. /\ \A d : Callback(k, d) = IF k = "hooked" /\ d = "null" THEN {"throws"}
                                                                 ELSE {d, "message", "refused"}
    BY DEF Callback, Loader, ProcessXML, LoadXML
  <2>3. PICK a \in Callback(k, doc) :
           IF a \in Faults THEN \E p \in Callback(k, "null") : o = (IF p \in Faults THEN a ELSE p)
                           ELSE o = a
    BY <2>1 DEF MakeRequest
  <2> QED
    BY <1>1, <2>2, <2>3 DEF ByLoader, Faults, Docs, Deaf, Kinds
<1>2. CASE k \in {"token", "format"}
  BY <1>2 DEF Handler, ByLoader, Decorate, Faults, Docs, Deaf, Kinds
<1>3. CASE k = "detail"
  BY <1>3 DEF Handler, ByLoader, DetailPage, Faults, Docs, Deaf, Kinds
<1> QED
  BY <1>1, <1>2, <1>3 DEF Kinds, ByLoader

-----------------------------------------------------------------------------
\* How far a load got: its request, its document and what is seen of it agree.
Flow(l) ==
    /\ kind[l] = None => xhr[l] = "none" /\ pending[l] = "nothing" /\ view[l] = "absent"
    /\ xhr[l] = "sent" => /\ kind[l] # None /\ pending[l] = "nothing"
                          /\ view[l] = "spinner" \/ (view[l] = "dismissed" /\ kind[l] \in Deaf)
    /\ pending[l] # "nothing" => view[l] \in {"spinner", "dismissed"}
    /\ pending[l] = "null" /\ kind[l] \in Deaf => l \in failed
    /\ Stuck(l) => HasCause(l)

LoadsInv == TypeOK /\ \A l \in Loads : Flow(l)

\* Nothing is loading at the start.
LEMMA LoadsInit == Init => LoadsInv
BY DEF Init, LoadsInv, TypeOK, Flow, Stuck, HasCause, Docs

\* The handler of one load leaves the others alone.
LEMMA HandleType ==
    ASSUME TypeOK, NEW l \in Loads, kind[l] \in Kinds, NEW doc \in Docs, Handle(l, doc)
    PROVE  /\ pending' \in [Loads -> Docs \union {"message", "nothing"}]
           /\ token' \in BOOLEAN
           /\ failed' \subseteq Loads /\ refused' \subseteq Loads
           /\ \A m \in Loads \ {l} : /\ pending'[m] = pending[m]
                                     /\ m \in failed' <=> m \in failed
                                     /\ m \in refused' <=> m \in refused
<1>1. PICK o \in Handler(kind[l], doc) :
        /\ pending' = [pending EXCEPT ![l] = IF o \in Faults THEN "nothing" ELSE o]
        /\ failed' = IF doc = "null" THEN failed \union {l} ELSE failed
        /\ refused' = IF o = "refused" THEN refused \union {l} ELSE refused
        /\ token' = (token \/ (kind[l] = "token" /\ doc = "page"))
  BY DEF Handle
<1>2. o \in Docs \union {"message"} \union Faults
  BY Outcomes
<1>3. (IF o \in Faults THEN "nothing" ELSE o) \in Docs \union {"message", "nothing"}
  BY <1>2
<1>4. pending' \in [Loads -> Docs \union {"message", "nothing"}]
  BY <1>1, <1>3 DEF TypeOK
<1>5. token' \in BOOLEAN
  BY <1>1 DEF TypeOK
<1>6. failed' \subseteq Loads /\ refused' \subseteq Loads
  BY <1>1 DEF TypeOK
<1>7. \A m \in Loads \ {l} : /\ pending'[m] = pending[m]
                             /\ m \in failed' <=> m \in failed
                             /\ m \in refused' <=> m \in refused
  BY <1>1 DEF TypeOK
<1> QED
  BY <1>4, <1>5, <1>6, <1>7

\* What it leaves of its own load.
LEMMA HandleOwn ==
    ASSUME TypeOK, NEW l \in Loads, kind[l] \in Kinds, NEW doc \in Docs, Handle(l, doc)
    PROVE  /\ pending'[l] = "page" => doc = "page"
           /\ pending'[l] = "null" /\ kind[l] \in Deaf => l \in failed'
           /\ pending'[l] = "nothing" => \/ l \in refused'
                                         \/ l \in failed' /\ kind[l] \notin {"url", "swap"}
<1>1. PICK o \in Handler(kind[l], doc) :
        /\ pending' = [pending EXCEPT ![l] = IF o \in Faults THEN "nothing" ELSE o]
        /\ failed' = IF doc = "null" THEN failed \union {l} ELSE failed
        /\ refused' = IF o = "refused" THEN refused \union {l} ELSE refused
  BY DEF Handle
<1>2. pending'[l] = IF o \in Faults THEN "nothing" ELSE o
  BY <1>1 DEF TypeOK
<1>3. /\ o \in Docs \union {"message"} \union Faults
      /\ o = "page" => doc = "page"
      /\ o = "throws" => doc = "null" /\ kind[l] \notin {"url", "swap"}
      /\ o = "null" /\ kind[l] \in Deaf => doc = "null"
  BY Outcomes
<1> QED
  BY <1>1, <1>2, <1>3 DEF Faults, Docs

-----------------------------------------------------------------------------
\* The conjuncts of the types that an action changes, and the load it is about.
LEMMA BeginStep ==
    ASSUME LoadsInv, NEW l \in Loads, NEW k \in Kinds, Begin(l, k)
    PROVE  LoadsInv'
<1> USE DEF LoadsInv
<1>1. k # None
  BY NoneAssumption
<1>2. TypeOK'
  BY DEF Begin, TypeOK
<1>3. Flow(l)'
  BY <1>1 DEF Begin, TypeOK, Flow, Stuck, HasCause
<1>4. ASSUME NEW m \in Loads \ {l} PROVE Flow(m)'
  BY DEF Begin, TypeOK, Flow, Stuck, HasCause
<1> QED
  BY <1>2, <1>3, <1>4

\* A reply hands a document to the proxy, or leaves the spinner its cause.
LEMMA AnswerStep ==
    ASSUME LoadsInv, NEW l \in Loads, Answer(l)
    PROVE  LoadsInv'
<1> USE DEF LoadsInv
<1>1. PICK doc \in Docs : Handle(l, doc)
  BY DEF Answer
<1>2. kind[l] \in Kinds
  BY DEF Answer, Flow, TypeOK
<1>3. TypeOK'
  BY <1>1, <1>2, HandleType DEF Answer, TypeOK
<1>4. Flow(l)'
  <2>1. /\ xhr[l] = "sent" /\ xhr'[l] = "done" /\ kind' = kind /\ view' = view
        /\ kind[l] # None
    BY DEF Answer, TypeOK, Flow
  <2>2. /\ view[l] = "spinner" \/ (view[l] = "dismissed" /\ kind[l] \in Deaf)
    BY DEF Answer, Flow
  <2> QED
    BY <1>1, <1>2, <2>1, <2>2, HandleOwn DEF Flow, Stuck, HasCause
<1>5. ASSUME NEW m \in Loads \ {l} PROVE Flow(m)'
  <2>1. /\ xhr'[m] = xhr[m] /\ kind' = kind /\ view' = view
    BY DEF Answer, TypeOK
  <2>2. /\ pending'[m] = pending[m] /\ (m \in failed' <=> m \in failed)
        /\ (m \in refused' <=> m \in refused)
    BY <1>1, <1>2, HandleType
  <2> QED
    BY <2>1, <2>2 DEF Flow, Stuck, HasCause
<1> QED
  BY <1>3, <1>4, <1>5

\* The device shows the document the proxy took.
LEMMA ShownStep ==
    ASSUME LoadsInv, NEW l \in Loads, Shown(l)
    PROVE  LoadsInv'
<1> USE DEF LoadsInv
<1>1. TypeOK'
  BY DEF Shown, TypeOK
<1>2. Flow(l)'
  BY DEF Shown, TypeOK, Flow, Stuck, HasCause
<1>3. ASSUME NEW m \in Loads \ {l} PROVE Flow(m)'
  BY DEF Shown, TypeOK, Flow, Stuck, HasCause
<1> QED
  BY <1>1, <1>2, <1>3

\* The device refuses a document: the error page is next, or nothing.
LEMMA NotShownStep ==
    ASSUME LoadsInv, NEW l \in Loads, NotShown(l)
    PROVE  LoadsInv'
<1> USE DEF LoadsInv
<1>1. TypeOK'
  BY DEF NotShown, TypeOK
<1>2. Flow(l)'
  <2>1. CASE /\ kind[l] \in ByLoader /\ pending' = [pending EXCEPT ![l] = "message"]
             /\ refused' = IF pending[l] = "page" THEN refused \union {l} ELSE refused
    BY <2>1 DEF NotShown, TypeOK, Flow, Stuck, HasCause
  <2>2. CASE /\ pending' = [pending EXCEPT ![l] = "nothing"]
             /\ refused' = IF pending[l] = "null" /\ kind[l] \in Deaf
                            THEN refused ELSE refused \union {l}
    BY <2>2 DEF NotShown, TypeOK, Flow, Stuck, HasCause, Deaf
  <2> QED
    BY <2>1, <2>2 DEF NotShown
<1>3. ASSUME NEW m \in Loads \ {l} PROVE Flow(m)'
  <2>1. /\ pending'[m] = pending[m] /\ (m \in refused' <=> m \in refused)
    BY DEF NotShown, TypeOK
  <2> QED
    BY <2>1 DEF NotShown, TypeOK, Flow, Stuck, HasCause
<1> QED
  BY <1>1, <1>2, <1>3

\* The viewer gives up: a request that can be is aborted, with its handler.
LEMMA CancelStep ==
    ASSUME LoadsInv, NEW l \in Loads, Cancel(l)
    PROVE  LoadsInv'
<1> USE DEF LoadsInv
<1>1. CASE ~(kind[l] \notin Deaf /\ xhr[l] = "sent")
  <2>1. TypeOK'
    BY <1>1 DEF Cancel, TypeOK
  <2>2. Flow(l)'
    BY <1>1 DEF Cancel, TypeOK, Flow, Stuck, HasCause
  <2>3. ASSUME NEW m \in Loads \ {l} PROVE Flow(m)'
    BY <1>1 DEF Cancel, TypeOK, Flow, Stuck, HasCause
  <2> QED
    BY <2>1, <2>2, <2>3
<1>2. CASE kind[l] \notin Deaf /\ xhr[l] = "sent" /\ Handle(l, "null")
  <2>1. "null" \in Docs /\ kind[l] \in Kinds
    BY <1>2 DEF Docs, Flow, TypeOK
  <2>2. /\ xhr' = [xhr EXCEPT ![l] = "done"] /\ view' = [view EXCEPT ![l] = "dismissed"]
        /\ UNCHANGED <<page, kind, alive>>
    BY <1>2 DEF Cancel, Abort
  <2>3. TypeOK'
    BY <1>2, <2>1, <2>2, HandleType DEF TypeOK
  <2>4. Flow(l)'
    <3>1. xhr'[l] = "done" /\ view'[l] = "dismissed" /\ kind'[l] = kind[l]
      BY <2>2 DEF TypeOK
    <3> QED
      BY <1>2, <2>1, <3>1, NoneAssumption DEF Flow, Stuck, HasCause
  <2>5. ASSUME NEW m \in Loads \ {l} PROVE Flow(m)'
    <3>1. xhr'[m] = xhr[m] /\ view'[m] = view[m] /\ kind'[m] = kind[m]
      BY <2>2 DEF TypeOK
    <3>2. /\ pending'[m] = pending[m] /\ (m \in failed' <=> m \in failed)
          /\ (m \in refused' <=> m \in refused)
      BY <1>2, <2>1, HandleType
    <3> QED
      BY <3>1, <3>2 DEF Flow, Stuck, HasCause
  <2> QED
    BY <2>3, <2>4, <2>5
<1>3. CASE /\ kind[l] \notin Deaf /\ xhr[l] = "sent"
           /\ UNCHANGED <<pending, token, failed, refused>>
  <2>1. xhr' = [xhr EXCEPT ![l] = "done"]
    BY <1>3 DEF Cancel, Abort
  <2>2. TypeOK'
    BY <1>3, <2>1 DEF Cancel, TypeOK
  <2>3. Flow(l)'
    BY <1>3, <2>1 DEF Cancel, TypeOK, Flow, Stuck, HasCause
  <2>4. ASSUME NEW m \in Loads \ {l} PROVE Flow(m)'
    BY <1>3, <2>1 DEF Cancel, TypeOK, Flow, Stuck, HasCause
  <2> QED
    BY <2>2, <2>3, <2>4
<1> QED
  BY <1>1, <1>2, <1>3 DEF Cancel, Abort

\* Every function that loads a page begins in the same way.
LEMMA CallBegins ==
    ASSUME NEW l \in Loads, Call(l)
    PROVE  \E k \in Kinds : Begin(l, k)
BY DEF Call, LoadURL, AppEntry, LoadAndSwapURL, DecorateURL, DecorateXML,
   LoadTrailerDetail, Kinds

\* Every step keeps the invariant.
LEMMA LoadsNext == LoadsInv /\ [Next]_vars => LoadsInv'
<1> SUFFICES ASSUME LoadsInv, [Next]_vars PROVE LoadsInv'
  OBVIOUS
<1>1. CASE UNCHANGED vars
  BY <1>1 DEF vars, LoadsInv, TypeOK, Flow, Stuck, HasCause
<1>2. ASSUME NEW l \in Loads, Call(l) PROVE LoadsInv'
  BY <1>2, CallBegins, BeginStep
<1>3. ASSUME NEW l \in Loads, Step(l) PROVE LoadsInv'
  BY <1>3, AnswerStep, ShownStep, NotShownStep DEF Step
<1>4. ASSUME NEW l \in Loads, Cancel(l) PROVE LoadsInv'
  BY <1>4, CancelStep
<1> QED
  BY <1>1, <1>2, <1>3, <1>4 DEF Next

\* The invariant holds always.
LEMMA LoadsAlways == Spec => []LoadsInv
BY LoadsInit, LoadsNext, PTL DEF Spec

\* The variables of a load keep their types.
THEOREM LoadsType == Spec => []TypeOK
<1>1. LoadsInv => TypeOK
  BY DEF LoadsInv
<1> QED
  BY <1>1, LoadsAlways, PTL

\* For any number of loads: a spinner that nothing will end is one whose request could
\* not be sent, or got no document in a function without an error page, or whose
\* document the device refused.
THEOREM StuckTheorem == Spec => []StuckHasCause
<1>1. LoadsInv => StuckHasCause
  BY DEF LoadsInv, Flow, StuckHasCause
<1> QED
  BY <1>1, LoadsAlways, PTL

-----------------------------------------------------------------------------
(* What the viewer sees: every step is one of ProxyPages, or none *)

\* The loads whose page nothing can stop.
BoundLoads == {l \in Loads : Bound(l)}

\* The initial states are those of ProxyPages.
LEMMA InitPromise == Init => Promise!Init
BY NoneAssumption DEF Init, Promise!Init, Bound, Kinds, Deaf

\* A load that begins asks for a page.
LEMMA BeginAsks ==
    ASSUME LoadsInv, NEW l \in Loads, NEW k \in Kinds, Begin(l, k)
    PROVE  Promise!Ask(l)
<1>1. alive /\ view[l] = "absent"
  BY DEF Begin, LoadsInv, Flow
<1>2. view' = [view EXCEPT ![l] = "spinner"] /\ UNCHANGED alive
  BY DEF Begin
<1>3. BoundLoads' = IF k \in Deaf THEN BoundLoads \union {l} ELSE BoundLoads
  <2>1. /\ ~Bound(l)
        /\ kind'[l] = k /\ \A m \in Loads \ {l} : kind'[m] = kind[m]
        /\ pending' = pending /\ pending[l] = "nothing"
    BY NoneAssumption DEF Begin, LoadsInv, Flow, TypeOK, Bound, Kinds, Deaf
  <2> QED
    BY <2>1 DEF BoundLoads, Bound
<1> QED
  BY <1>1, <1>2, <1>3 DEF Promise!Ask, BoundLoads

\* What a step of one load does to the set.
LEMMA BoundOthers ==
    ASSUME NEW l \in Loads, kind' = kind,
           \A m \in Loads \ {l} : pending'[m] = pending[m]
    PROVE  BoundLoads' = IF kind[l] \in Deaf \/ pending'[l] = "page"
                         THEN BoundLoads \union {l} ELSE BoundLoads \ {l}
BY DEF BoundLoads, Bound

\* A reply that is a page arrives while its spinner is there.
LEMMA AnswerArrives ==
    ASSUME LoadsInv, NEW l \in Loads, Answer(l)
    PROVE  [Promise!Next]_(Promise!vars)
<1>1. PICK doc \in Docs : Handle(l, doc)
  BY DEF Answer
<1>2. /\ alive /\ kind[l] \in Kinds /\ kind' = kind /\ view' = view /\ alive' = alive
      /\ pending[l] = "nothing"
      /\ view[l] = "spinner" \/ kind[l] \in Deaf
  BY DEF Answer, LoadsInv, TypeOK, Flow
<1>3. \A m \in Loads \ {l} : pending'[m] = pending[m]
  BY <1>1, <1>2, HandleType DEF LoadsInv
<1>4. CASE kind[l] \in Deaf \/ pending'[l] # "page"
  <2>1. BoundLoads' = BoundLoads
    BY <1>2, <1>3, <1>4, BoundOthers DEF BoundLoads, Bound
  <2> QED
    BY <1>2, <2>1 DEF Promise!vars, BoundLoads
<1>5. CASE kind[l] \notin Deaf /\ pending'[l] = "page"
  <2>1. BoundLoads' = BoundLoads \union {l}
    BY <1>2, <1>3, <1>5, BoundOthers
  <2>2. Promise!Arrive(l)
    BY <1>2, <1>5, <2>1 DEF Promise!Arrive, BoundLoads
  <2> QED
    BY <2>2 DEF Promise!Next
<1> QED
  BY <1>4, <1>5

\* A document the device does not show is dropped.
LEMMA NotShownDrops ==
    ASSUME LoadsInv, NEW l \in Loads, NotShown(l)
    PROVE  [Promise!Next]_(Promise!vars)
<1>1. /\ alive /\ kind' = kind /\ view' = view /\ alive' = alive
      /\ pending'[l] # "page" /\ \A m \in Loads \ {l} : pending'[m] = pending[m]
  BY DEF NotShown, LoadsInv, TypeOK
<1>2. CASE kind[l] \in Deaf
  <2>1. BoundLoads' = BoundLoads
    BY <1>1, <1>2, BoundOthers DEF BoundLoads, Bound
  <2> QED
    BY <1>1, <2>1 DEF Promise!vars, BoundLoads
<1>3. CASE kind[l] \notin Deaf
  <2>1. BoundLoads' = BoundLoads \ {l}
    BY <1>1, <1>3, BoundOthers
  <2>2. Promise!Drop(l)
    BY <1>1, <2>1 DEF Promise!Drop, BoundLoads
  <2> QED
    BY <2>2 DEF Promise!Next
<1> QED
  BY <1>2, <1>3

\* A document that is shown is the page, or the error page.
LEMMA ShownShowsOrTells ==
    ASSUME LoadsInv, NEW l \in Loads, Shown(l)
    PROVE  Promise!Show(l) \/ Promise!Tell(l)
<1>1. /\ alive /\ view[l] \in {"spinner", "dismissed"}
      /\ alive' \in {TRUE, FALSE} /\ kind' = kind
  BY DEF Shown, LoadsInv, Flow
<1>2. pending'[l] = "nothing" /\ \A m \in Loads \ {l} : pending'[m] = pending[m]
  BY DEF Shown, LoadsInv, TypeOK
<1>3. BoundLoads' = IF kind[l] \in Deaf THEN BoundLoads \union {l} ELSE BoundLoads \ {l}
  BY <1>1, <1>2, BoundOthers
<1>4. CASE pending[l] = "page"
  <2>1. view' = [view EXCEPT ![l] = "page"]
    BY <1>4 DEF Shown
  <2>2. l \in BoundLoads
    BY <1>4 DEF BoundLoads, Bound
  <2>3. BoundLoads' \in {BoundLoads, BoundLoads \ {l}}
    BY <1>3, <2>2
  <2> QED
    BY <1>1, <2>1, <2>2, <2>3 DEF Promise!Show, BoundLoads
<1>5. CASE pending[l] = "message"
  <2>1. view' = [view EXCEPT ![l] = "message"]
    BY <1>5 DEF Shown
  <2>2. BoundLoads' = BoundLoads
    BY <1>3, <1>5 DEF BoundLoads, Bound
  <2> QED
    BY <1>1, <2>1, <2>2 DEF Promise!Tell, BoundLoads
<1> QED
  BY <1>4, <1>5 DEF Shown

\* The viewer who gives up gets no page that was not already with the proxy.
LEMMA CancelDismisses ==
    ASSUME LoadsInv, NEW l \in Loads, Cancel(l)
    PROVE  Promise!Dismiss(l)
<1>1. /\ alive /\ view[l] = "spinner" /\ view' = [view EXCEPT ![l] = "dismissed"]
      /\ alive' = alive /\ kind' = kind
  BY DEF Cancel
<1>2. BoundLoads' = BoundLoads
  <2>1. CASE pending' = pending
    BY <1>1, <2>1 DEF BoundLoads, Bound
  <2>2. CASE kind[l] \notin Deaf /\ xhr[l] = "sent" /\ Handle(l, "null")
    <3>1. "null" \in Docs /\ kind[l] \in Kinds /\ pending[l] = "nothing"
      BY <2>2 DEF Docs, LoadsInv, Flow, TypeOK
    <3>2. pending'[l] # "page" /\ \A m \in Loads \ {l} : pending'[m] = pending[m]
      BY <2>2, <3>1, HandleType, HandleOwn DEF LoadsInv
    <3> QED
      BY <1>1, <2>2, <3>1, <3>2, BoundOthers DEF BoundLoads, Bound
  <2> QED
    BY <2>1, <2>2 DEF Cancel, Abort
<1> QED
  BY <1>1, <1>2 DEF Promise!Dismiss, BoundLoads

\* Every step is one of ProxyPages, or none.
LEMMA NextPromise == LoadsInv /\ [Next]_vars => [Promise!Next]_(Promise!vars)
<1> SUFFICES ASSUME LoadsInv, [Next]_vars PROVE [Promise!Next]_(Promise!vars)
  OBVIOUS
<1>1. CASE UNCHANGED vars
  BY <1>1 DEF vars, Promise!vars, Bound
<1>2. ASSUME NEW l \in Loads, Call(l) PROVE Promise!Next
  BY <1>2, CallBegins, BeginAsks DEF Promise!Next
<1>3. ASSUME NEW l \in Loads, Step(l) PROVE [Promise!Next]_(Promise!vars)
  <2>1. CASE Shown(l)
    BY <2>1, ShownShowsOrTells DEF Promise!Next
  <2> QED
    BY <1>3, <2>1, AnswerArrives, NotShownDrops DEF Step
<1>4. ASSUME NEW l \in Loads, Cancel(l) PROVE Promise!Next
  BY <1>4, CancelDismisses DEF Promise!Next
<1> QED
  BY <1>1, <1>2, <1>3, <1>4 DEF Next

\* For any number of loads, what the viewer sees is what ProxyPages promises: after the
\* viewer gave up a page comes only of a load whose page was already with the proxy, or
\* whose request could not be given up, and the script's page goes only with the step
\* that shows the next.
THEOREM PromiseTheorem == Spec => KeepsPromise
<1>1. Init => Promise!Init
  BY InitPromise
<1>2. LoadsInv /\ [Next]_vars => [Promise!Next]_(Promise!vars)
  BY NextPromise
<1> QED
  BY <1>1, <1>2, LoadsAlways, PTL DEF Spec, KeepsPromise, Promise!Spec
-----------------------------------------------------------------------------
USE AppAssumption DEF AppAssumption, DomViews!NamesAssumption, Player!PlayerAssumption

-----------------------------------------------------------------------------
\* The views.

ViewsType ==
    /\ name \in [Views -> Names \union {None}]
    /\ asks \in [Views -> (SUBSET Options) \union {None}]
    /\ views \in [Names -> Views \union {None}]
    /\ config \in [Names -> Views \union {None}]
    /\ shown \in [Views -> Views \union {DomViews!Page, None}]
    /\ newest \in Views \union {None}

\* A view keeps the name it was created with; and what is shown has its name still,
\* unless another view took it.
Named ==
    /\ \A n \in Names : views[n] # None => name[views[n]] = n
    /\ \A v \in Views : shown[v] # None =>
          name[v] # None /\ (views[name[v]] = v \/ v \in replaced)

\* The dialog created last has its options' callbacks, and a view gets no other dialog.
Asking ==
    /\ newest # None => /\ name[newest] # None
                        /\ \A i \in Options : i \in asks[newest] => callbacks[i] = newest
    /\ called.last =>
          /\ called.dialog \in Views /\ name[called.dialog] # None
          /\ called.option \in asks[called.dialog] => called.by = called.dialog

ViewsInv == ViewsType /\ Named /\ Asking

\* Nothing is shown before the first view.
LEMMA ViewsInit == DomViews!Init => ViewsInv
<1> SUFFICES ASSUME DomViews!Init PROVE ViewsInv
  OBVIOUS
<1>1. ViewsType /\ Named
  BY DEF DomViews!Init, ViewsType, Named
<1>2. newest = None /\ ~called.last
  BY DEF DomViews!Init, DomViews!NoCall
<1> QED
  BY <1>1, <1>2 DEF ViewsInv, Asking

\* A view that is created is new: it is not shown, has no name, and no dialog.
LEMMA SaveViewKeeps ==
    ASSUME ViewsInv, NEW v \in Views, NEW n \in Names, DomViews!SaveView(v, n), UNCHANGED shown
    PROVE  /\ name' \in [Views -> Names \union {None}] /\ views' \in [Names -> Views \union {None}]
           /\ Named'
           /\ name[v] = None /\ name'[v] # None
           /\ \A w \in Views : name[w] # None => w # v /\ name'[w] = name[w]
<1>1. /\ name[v] = None /\ n # None
      /\ name' = [name EXCEPT ![v] = n] /\ views' = [views EXCEPT ![n] = v]
      /\ replaced' = IF views[n] # None /\ shown[views[n]] # None
                     THEN replaced \union {views[n]} ELSE replaced
  BY DEF DomViews!SaveView
<1>2. name' \in [Views -> Names \union {None}] /\ views' \in [Names -> Views \union {None}]
  BY <1>1 DEF ViewsInv, ViewsType
<1>3. name'[v] = n /\ \A w \in Views : w # v => name'[w] = name[w]
  BY <1>1 DEF ViewsInv, ViewsType
<1>4. views'[n] = v /\ \A m \in Names : m # n => views'[m] = views[m]
  BY <1>1 DEF ViewsInv, ViewsType
<1>5. ASSUME NEW m \in Names, views'[m] # None PROVE name'[views'[m]] = m
  <2>1. CASE m = n
    BY <1>3, <1>4, <2>1
  <2>2. CASE m # n
    <3>1. views[m] \in Views /\ name[views[m]] = m
      BY <1>4, <1>5, <2>2 DEF ViewsInv, ViewsType, Named
    <3>2. views[m] # v
      BY <1>1, <3>1
    <3> QED
      BY <1>3, <1>4, <2>2, <3>1, <3>2
  <2> QED
    BY <2>1, <2>2
<1>6. ASSUME NEW w \in Views, shown[w] # None
      PROVE  name'[w] # None /\ (views'[name'[w]] = w \/ w \in replaced')
  <2>1. w # v /\ name[w] \in Names /\ (views[name[w]] = w \/ w \in replaced)
    BY <1>1, <1>6 DEF ViewsInv, ViewsType, Named
  <2>2. name'[w] = name[w]
    BY <1>3, <2>1
  <2>3. CASE name[w] = n
    BY <1>1, <1>6, <2>1, <2>2, <2>3
  <2>4. CASE name[w] # n
    BY <1>1, <1>4, <2>1, <2>2, <2>4
  <2> QED
    BY <2>3, <2>4
<1> QED
  BY <1>1, <1>2, <1>3, <1>5, <1>6 DEF Named

\* A dialog takes the callbacks of its options, and is the last.
LEMMA CreateDialogStep ==
    ASSUME ViewsInv, NEW v \in Views, NEW n \in Names, DomViews!CreateDialog(v, n)
    PROVE  ViewsInv'
<1>1. DomViews!SaveView(v, n) /\ newest' = v /\ UNCHANGED <<shown, called>>
      /\ config' = [config EXCEPT ![n] = v]
  BY DEF DomViews!CreateDialog
<1>2. PICK functions \in SUBSET Options :
         /\ asks' = [asks EXCEPT ![v] = functions]
         /\ callbacks' = [i \in Options |-> IF i \in functions THEN v ELSE callbacks[i]]
  BY DEF DomViews!CreateDialog, DomViews!RegisterCallbacks
<1>3. /\ name' \in [Views -> Names \union {None}] /\ views' \in [Names -> Views \union {None}]
      /\ Named' /\ name[v] = None /\ name'[v] # None
      /\ \A w \in Views : name[w] # None => w # v /\ name'[w] = name[w]
  BY <1>1, SaveViewKeeps
<1>4. ViewsType'
  <2>1. asks' \in [Views -> (SUBSET Options) \union {None}]
    BY <1>2 DEF ViewsInv, ViewsType
  <2>2. config' \in [Names -> Views \union {None}]
    BY <1>1 DEF ViewsInv, ViewsType
  <2> QED
    BY <1>1, <1>3, <2>1, <2>2 DEF ViewsInv, ViewsType
<1>5. asks'[v] = functions /\ \A w \in Views : w # v => asks'[w] = asks[w]
  BY <1>2 DEF ViewsInv, ViewsType
<1>6. \A i \in Options : i \in asks'[v] => callbacks'[i] = v
  BY <1>2, <1>5
<1>7. ASSUME called.last
      PROVE  /\ called.dialog \in Views /\ name'[called.dialog] # None
             /\ called.option \in asks'[called.dialog] => called.by = called.dialog
  <2>1. /\ called.dialog \in Views /\ name[called.dialog] # None
        /\ called.option \in asks[called.dialog] => called.by = called.dialog
    BY <1>7 DEF ViewsInv, Asking
  <2> QED
    BY <1>3, <1>5, <2>1
<1>8. Asking'
  BY <1>1, <1>3, <1>6, <1>7 DEF Asking
<1> QED
  BY <1>3, <1>4, <1>8 DEF ViewsInv

\* A view without a dialog leaves the callbacks where they are.
LEMMA CreateViewStep ==
    ASSUME ViewsInv, NEW v \in Views, NEW n \in Names, DomViews!CreateView(v, n)
    PROVE  ViewsInv'
<1>1. DomViews!SaveView(v, n) /\ UNCHANGED <<asks, callbacks, shown, newest, called>>
  BY DEF DomViews!CreateView
<1>2. /\ name' \in [Views -> Names \union {None}] /\ views' \in [Names -> Views \union {None}]
      /\ Named'
      /\ \A w \in Views : name[w] # None => w # v /\ name'[w] = name[w]
  BY <1>1, SaveViewKeeps
<1>3. config' \in [Names -> Views \union {None}]
  BY DEF DomViews!CreateView, ViewsInv, ViewsType
<1>4. ViewsType'
  BY <1>1, <1>2, <1>3 DEF ViewsInv, ViewsType
<1>5. ASSUME called.last PROVE called.dialog \in Views /\ name'[called.dialog] # None
  BY <1>2, <1>5 DEF ViewsInv, Asking
<1>6. ASSUME newest # None PROVE name'[newest] # None
  BY <1>2, <1>6 DEF ViewsInv, ViewsType, Asking
<1>7. Asking'
  BY <1>1, <1>5, <1>6 DEF ViewsInv, Asking
<1> QED
  BY <1>2, <1>4, <1>7 DEF ViewsInv

\* What is loaded and unloaded by a name is the view that has it.
LEMMA ShowStep ==
    ASSUME ViewsInv, NEW n \in Names,
           DomViews!LoadView(n) \/ DomViews!UnloadView(n) \/ DomViews!RemoveView(n)
    PROVE  ViewsInv'
<1>1. views[n] \in Views /\ name[views[n]] = n /\ n # None
  BY DEF DomViews!LoadView, DomViews!UnloadView, DomViews!RemoveView, ViewsInv,
     ViewsType, Named
<1>2. UNCHANGED <<name, asks, config, callbacks, newest, called, replaced>>
  BY DEF DomViews!LoadView, DomViews!UnloadView, DomViews!RemoveView
<1>3. Asking'
  BY <1>2 DEF ViewsInv, Asking
<1>4. CASE DomViews!LoadView(n)
  <2>1. PICK doc \in {DomViews!Page, config[n]} \ {None} : shown' = [shown EXCEPT ![views[n]] = doc]
    BY <1>4 DEF DomViews!LoadView
  <2>2. UNCHANGED views
    BY <1>4 DEF DomViews!LoadView
  <2>3. ViewsType' /\ \A w \in Views : w # views[n] => shown'[w] = shown[w]
    BY <1>1, <1>2, <2>1, <2>2 DEF ViewsInv, ViewsType
  <2>4. Named'
    BY <1>1, <1>2, <2>2, <2>3 DEF ViewsInv, Named
  <2> QED
    BY <1>3, <2>3, <2>4 DEF ViewsInv
<1>5. CASE DomViews!UnloadView(n) \/ DomViews!RemoveView(n)
  <2>1. /\ shown' = [shown EXCEPT ![views[n]] = None]
        /\ views' = views \/ views' = [views EXCEPT ![n] = None]
    BY <1>5 DEF DomViews!UnloadView, DomViews!RemoveView, DomViews!Unload
  <2>2. /\ views' \in [Names -> Views \union {None}] /\ \A m \in Names : m # n => views'[m] = views[m]
        /\ views'[n] \in {views[n], None}
    BY <2>1 DEF ViewsInv, ViewsType
  <2>3. /\ shown' \in [Views -> Views \union {DomViews!Page, None}] /\ shown'[views[n]] = None
        /\ \A w \in Views : w # views[n] => shown'[w] = shown[w]
    BY <1>1, <2>1 DEF ViewsInv, ViewsType
  <2>4. ViewsType'
    BY <1>2, <2>2, <2>3 DEF ViewsInv, ViewsType
  <2>5. ASSUME NEW w \in Views, shown'[w] # None
        PROVE  name[w] # None /\ (views'[name[w]] = w \/ w \in replaced)
    <3>1. w # views[n] /\ name[w] \in Names /\ (views[name[w]] = w \/ w \in replaced)
      BY <2>3, <2>5 DEF ViewsInv, ViewsType, Named
    <3> QED
      BY <2>2, <2>5, <3>1
  <2>6. \A m \in Names : views'[m] # None => name[views'[m]] = m
    BY <2>2 DEF ViewsInv, Named
  <2> QED
    BY <1>2, <1>3, <2>4, <2>5, <2>6 DEF ViewsInv, Named
<1> QED
  BY <1>4, <1>5

\* The viewer chooses and leaves.
LEMMA ViewerStep ==
    ASSUME ViewsInv, NEW v \in Views,
           DomViews!Leave(v) \/ \E i \in Options : DomViews!FireCallback(v, i)
    PROVE  ViewsInv'
<1>1. CASE DomViews!Leave(v)
  <2>1. /\ shown' = [shown EXCEPT ![v] = None]
        /\ UNCHANGED <<name, asks, views, config, callbacks, newest, called, replaced>>
    BY <1>1 DEF DomViews!Leave
  <2>2. ViewsType' /\ shown'[v] = None /\ \A w \in Views : w # v => shown'[w] = shown[w]
    BY <2>1 DEF ViewsInv, ViewsType
  <2> QED
    BY <2>1, <2>2 DEF ViewsInv, Named, Asking
<1>2. ASSUME NEW i \in Options, DomViews!FireCallback(v, i) PROVE ViewsInv'
  <2>1. /\ shown[v] \notin {None, DomViews!Page}
        /\ called' = [dialog |-> shown[v], option |-> i, by |-> callbacks[i], last |-> shown[v] = newest]
        /\ UNCHANGED <<name, asks, views, config, callbacks, shown, newest, replaced>>
    BY <1>2 DEF DomViews!FireCallback
  <2>2. ViewsType' /\ Named'
    BY <2>1 DEF ViewsInv, ViewsType, Named
  <2>3. /\ called'.dialog = shown[v] /\ called'.option = i /\ called'.by = callbacks[i]
        /\ called'.last = (shown[v] = newest)
    BY <2>1
  <2>4. ASSUME shown[v] = newest
        PROVE  /\ newest \in Views /\ name[newest] # None
               /\ i \in asks[newest] => callbacks[i] = newest
    BY <2>1, <2>4 DEF ViewsInv, ViewsType, Asking
  <2>5. Asking'
    BY <2>1, <2>3, <2>4 DEF ViewsInv, Asking
  <2> QED
    BY <2>2, <2>5 DEF ViewsInv
<1> QED
  BY <1>1, <1>2

\* Every step of the page and of the viewer keeps the invariant.
LEMMA ViewsNext == ViewsInv /\ [DomViews!Next]_(DomViews!vars) => ViewsInv'
<1> SUFFICES ASSUME ViewsInv, [DomViews!Next]_(DomViews!vars) PROVE ViewsInv'
  OBVIOUS
<1>1. CASE UNCHANGED DomViews!vars
  BY <1>1 DEF DomViews!vars, ViewsInv, ViewsType, Named, Asking
<1>2. CASE DomViews!Next
  BY <1>2, CreateDialogStep, CreateViewStep, ShowStep, ViewerStep DEF DomViews!Next
<1> QED
  BY <1>1, <1>2

\* The invariant says what a run checks of the views.
LEMMA ViewsHold == ViewsInv => ViewsOwn
BY DEF ViewsInv, Named, Asking, ViewsOwn, DomViews!ViewsOwn, DomViews!OptionOwn,
   DomViews!Unloadable

\* However many views there are, the option of the dialog created last calls a
\* function of its own, and the script can unload every view by its name, unless it
\* gave the name to another view.
THEOREM ViewsTheorem == DomViews!Spec => []ViewsOwn
BY ViewsInit, ViewsNext, ViewsHold, PTL DEF DomViews!Spec


\* A playback that is active with another one has met it.
Alone == \A p, q \in Player!Active : p # q => p \in mixed

\* What the globals hold belongs to an active playback.
Held ==
    /\ url # None => url \in Player!Active
    /\ loader # None => loader \in Player!Active
    /\ current # None => current[1] \in Player!Active

Begins == \A p \in Playbacks : play[p] = "none" => p \notin watched /\ p \notin timers

Bookmarked ==
    /\ url # None /\ url \in watched => url \in mixed \/ time = url
    /\ \A p \in Player!Active : "bookmark" \in meta[p] => p \in mixed \union cleared \/ url = p
    /\ \A b \in saved : b[1] \in mixed \/ (play[b[1]] = "over" /\ (b[1] = b[2] \/ b[1] \notin watched))
    /\ \A p \in Playbacks : play[p] = "over" /\ "bookmark" \in meta[p] =>
          p \in mixed \union cleared \/ \E b \in saved : b[1] = p

Timed ==
    /\ timers \subseteq Player!Active \union mixed
    /\ \A p \in Player!Active : p \in mixed \/ timer = p

\* The requests of a playback that met no other are for the parts of its own
\* playlist, one after the other; only the last one is not answered yet.
InOrder(p, n) ==
    /\ request[<<p, n>>] # "none" <=> n < part[p]
    /\ play[p] = "none" => part[p] = 1
    /\ request[<<p, n>>] # "none" => content[<<p, n>>] = <<p, n>>
    /\ request[<<p, n>>] = "sent" => current = <<p, n>>
    /\ answer[<<p, n>>] \in Player!Requests => answer[<<p, n>>] = <<p, n>> /\ request[<<p, n>>] # "sent"
    /\ answer[<<p, n>>] # None => request[<<p, n>>] # "none"
Ordered == \A p \in Playbacks, n \in 1 .. Parts : p \in mixed \/ InOrder(p, n)

PlayerInv == Player!TypeOK /\ Alone /\ Held /\ Begins /\ Bookmarked /\ Timed /\ Ordered

\* The invariant holds before the first playback.
LEMMA PlayerInit == Player!Init => PlayerInv
<1> SUFFICES ASSUME Player!Init PROVE PlayerInv
  OBVIOUS
<1>1. Player!Active = {}
  BY DEF Player!Init, Player!Active
<1>2. Player!TypeOK
  BY DEF Player!Init, Player!TypeOK, Player!Metadata, Player!Requests
<1>3. Ordered
  <2> SUFFICES ASSUME NEW p \in Playbacks, NEW n \in 1 .. Parts PROVE InOrder(p, n)
    BY DEF Ordered
  <2>1. <<p, n>> \in Player!Requests /\ None \notin Player!Requests /\ ~(n < 1)
    BY DEF Player!Requests
  <2>2. request[<<p, n>>] = "none" /\ answer[<<p, n>>] = None /\ part[p] = 1
    BY <2>1 DEF Player!Init
  <2> QED
    BY <2>1, <2>2 DEF InOrder
<1>4. Alone /\ Held /\ Begins /\ Bookmarked /\ Timed
  BY <1>1 DEF Player!Init, Alone, Held, Begins, Bookmarked, Timed
<1> QED
  BY <1>2, <1>3, <1>4 DEF PlayerInv

\* The invariant says what a run checks of the playbacks.
LEMMA PlayerHolds == PlayerInv => PlaybackOwn
<1> SUFFICES ASSUME PlayerInv PROVE PlaybackOwn
  OBVIOUS
<1>1. Player!BookmarksOwn
  BY DEF PlayerInv, Bookmarked, Player!BookmarksOwn
<1>2. Player!OwnAssets
  BY DEF PlayerInv, Timed, Ordered, InOrder, Player!OwnAssets
<1> QED
  BY <1>1, <1>2 DEF PlaybackOwn

\* A logout takes the bookmark of whoever is active, and marks them.
LEMMA OnLogoutStep ==
    ASSUME PlayerInv, Player!OnLogout
    PROVE  PlayerInv'
<1>1. Player!Active' = Player!Active /\ mixed' = mixed
  BY DEF Player!OnLogout, Player!Active
<1>2. Player!TypeOK'
  BY DEF PlayerInv, Player!OnLogout, Player!TypeOK, Player!Active, Player!logging,
     Player!playlist
<1>3. Alone' /\ Held' /\ Begins' /\ Timed' /\ Ordered'
  BY <1>1 DEF PlayerInv, Player!OnLogout, Alone, Held, Begins, Timed, Ordered,
     InOrder, Player!logging, Player!playlist
<1>4. Bookmarked'
  BY <1>1 DEF PlayerInv, Player!OnLogout, Bookmarked
<1> QED
  BY <1>2, <1>3, <1>4 DEF PlayerInv

\* A time is taken in the only playback that plays.
LEMMA TimeStep ==
    ASSUME PlayerInv, NEW p \in Playbacks, Player!PlayerTimeDidChange(p)
    PROVE  PlayerInv'
<1>1. Player!Active' = Player!Active /\ p \in Player!Active
  BY DEF Player!PlayerTimeDidChange, Player!Active
<1>2. Player!TypeOK'
  BY DEF PlayerInv, Player!PlayerTimeDidChange, Player!TypeOK, Player!logging,
     Player!playlist
<1>3. Alone' /\ Held' /\ Begins' /\ Timed' /\ Ordered'
  BY <1>1 DEF PlayerInv, Player!PlayerTimeDidChange, Alone, Held, Begins, Timed,
     Ordered, InOrder, Player!logging, Player!playlist
<1>4. Bookmarked'
  BY <1>1 DEF PlayerInv, Player!PlayerTimeDidChange, Bookmarked, Alone, Held
<1> QED
  BY <1>2, <1>3, <1>4 DEF PlayerInv

\* A playback that stops stays active until didStopPlaying.
LEMMA StopStep ==
    ASSUME PlayerInv, NEW p \in Playbacks, Player!Stop(p)
    PROVE  PlayerInv'
<1>1. Player!Active' = Player!Active
  BY DEF Player!Stop, Player!Active, PlayerInv, Player!TypeOK
<1>2. Player!TypeOK'
  BY DEF PlayerInv, Player!Stop, Player!TypeOK, Player!logging, Player!playlist,
     Player!session, Player!history
<1>3. Alone' /\ Held' /\ Begins' /\ Timed'
  BY <1>1 DEF PlayerInv, Player!TypeOK, Player!Stop, Alone, Held, Begins, Timed,
     Player!session, Player!history, Player!logging, Player!playlist
<1>4. Ordered'
  BY <1>1 DEF PlayerInv, Player!TypeOK, Player!Stop, Ordered, InOrder,
     Player!history, Player!playlist
<1>5. Bookmarked'
  BY <1>1 DEF PlayerInv, Player!TypeOK, Player!Stop, Bookmarked, Player!session,
     Player!history
<1> QED
  BY <1>2, <1>3, <1>4, <1>5 DEF PlayerInv

\* A playback that begins beside another marks both.
LEMMA WillStartStep ==
    ASSUME PlayerInv, NEW p \in Playbacks, Player!WillStartPlaying(p)
    PROVE  PlayerInv'
<1>1. Player!Active' = Player!Active \union {p} /\ p \notin Player!Active /\ play[p] = "none"
  BY DEF Player!WillStartPlaying, Player!Active, PlayerInv, Player!TypeOK
<1>2. mixed' = IF Player!Active = {} THEN mixed ELSE mixed \union Player!Active \union {p}
  BY DEF Player!WillStartPlaying
<1>3. PICK m \in Player!Metadata :
         /\ meta' = [meta EXCEPT ![p] = m]
         /\ url' = IF m = {"none"} THEN url ELSE IF "bookmark" \in m THEN p ELSE None
         /\ loader' = IF m = {"none"} THEN loader ELSE IF "playlist" \in m THEN p ELSE None
  BY DEF Player!WillStartPlaying
<1>4. Player!TypeOK'
  BY <1>1, <1>2, <1>3 DEF PlayerInv, Player!WillStartPlaying, Player!TypeOK,
     Player!Active
<1>5. Alone' /\ Held' /\ Timed'
  BY <1>1, <1>2, <1>3 DEF PlayerInv, Player!WillStartPlaying, Player!TypeOK, Alone,
     Held, Timed
<1>6. Begins'
  BY <1>1 DEF PlayerInv, Player!WillStartPlaying, Player!TypeOK, Begins
<1>7. Ordered'
  <2>1. UNCHANGED <<request, content, part, answer, current>> /\ mixed \subseteq mixed'
    BY <1>2 DEF Player!WillStartPlaying
  <2>2. \A q \in Playbacks : play'[q] = "none" => play[q] = "none"
    BY DEF Player!WillStartPlaying, PlayerInv, Player!TypeOK
  <2> QED
    BY <2>1, <2>2 DEF PlayerInv, Ordered, InOrder
<1>8. Bookmarked'
  <2>1. p \notin watched
    BY <1>1 DEF PlayerInv, Begins
  <2>2. (url # None /\ url \in watched => url \in mixed \/ time = url)'
    BY <1>1, <1>2, <1>3, <2>1 DEF PlayerInv, Player!WillStartPlaying, Bookmarked, Held
  <2>3. ASSUME NEW q \in Player!Active', "bookmark" \in meta'[q]
        PROVE  q \in mixed' \union cleared' \/ url' = q
    <3>1. CASE q = p
      BY <1>3, <2>3, <3>1 DEF PlayerInv, Player!TypeOK
    <3>2. CASE q # p
      BY <1>1, <1>2, <3>2
    <3> QED
      BY <3>1, <3>2
  <2>4. \A b \in saved : b[1] \in mixed' \/ (play'[b[1]] = "over" /\ (b[1] = b[2] \/ b[1] \notin watched))
    BY <1>1, <1>2 DEF PlayerInv, Player!TypeOK, Player!WillStartPlaying, Bookmarked
  <2>5. ASSUME NEW q \in Playbacks, play'[q] = "over", "bookmark" \in meta'[q]
        PROVE  q \in mixed' \union cleared' \/ \E b \in saved' : b[1] = q
    <3>1. play[q] = "over" /\ meta'[q] = meta[q]
      BY <1>1, <1>3, <2>5 DEF PlayerInv, Player!TypeOK, Player!WillStartPlaying
    <3> QED
      BY <1>2, <2>5, <3>1 DEF PlayerInv, Player!WillStartPlaying, Bookmarked
  <2>6. UNCHANGED <<saved, watched>>
    BY DEF Player!WillStartPlaying
  <2> QED
    BY <2>2, <2>3, <2>4, <2>5, <2>6 DEF Bookmarked
<1> QED
  BY <1>4, <1>5, <1>6, <1>7, <1>8 DEF PlayerInv

\* What a playback that met no other has asked for when it asks for its next part.
LEMMA LoadMoreStep ==
    ASSUME PlayerInv, NEW p \in Playbacks, Player!LoadMoreAssets(p)
    PROVE  PlayerInv'
<1>1. PICK n \in 1 .. Parts :
         /\ request[<<p, n>>] = "none"
         /\ \A k \in 1 .. (n - 1) : answer[<<p, k>>] \in Player!Requests
         /\ request' = [request EXCEPT ![<<p, n>>] = "sent"]
         /\ content' = [content EXCEPT ![<<p, n>>] = <<loader, part[loader]>>]
         /\ current' = <<p, n>>
  BY DEF Player!LoadMoreAssets
<1>2. /\ Player!Active' = Player!Active /\ p \in Player!Active /\ loader \in Player!Active /\ loader \in Playbacks
      /\ UNCHANGED <<url, time, play, meta, saved, timer, timers, loader, answer, watched, mixed, cleared>>
      /\ part' = [part EXCEPT ![loader] = @ + 1] /\ part[loader] \in 1 .. Parts
  BY DEF Player!LoadMoreAssets, Player!Active, Player!session, Player!logging,
     Player!history, PlayerInv, Held, Player!TypeOK
<1>3. <<p, n>> \in Player!Requests /\ <<loader, part[loader]>> \in Player!Requests
  BY <1>2 DEF Player!Requests
<1>4. Player!TypeOK'
  <2>1. part' \in [Playbacks -> 1 .. (Parts + 1)]
    BY <1>2 DEF PlayerInv, Player!TypeOK
  <2>2. /\ request' \in [Player!Requests -> {"none", "sent", "ok", "end", "error"}]
        /\ content' \in [Player!Requests -> Player!Requests \union {None}] /\ current' \in Player!Requests
    BY <1>1, <1>3 DEF PlayerInv, Player!TypeOK
  <2> QED
    BY <1>2, <2>1, <2>2 DEF PlayerInv, Player!TypeOK
<1>5. Alone' /\ Held' /\ Begins' /\ Timed'
  BY <1>1, <1>2 DEF PlayerInv, Alone, Held, Begins, Timed
<1>6. Bookmarked'
  BY <1>2 DEF PlayerInv, Bookmarked
<1>7. ASSUME NEW q \in Playbacks, NEW k \in 1 .. Parts, q \notin mixed PROVE InOrder(q, k)'
  <2>1. InOrder(q, k) /\ <<q, k>> \in Player!Requests
    BY <1>7 DEF PlayerInv, Ordered, Player!Requests
  <2>2. CASE q = p
    <3>1. loader = p
      BY <1>2, <1>7, <2>2 DEF PlayerInv, Alone
    <3>2. part[p] \in Nat /\ part'[p] = part[p] + 1
      BY <1>2, <3>1 DEF PlayerInv, Player!TypeOK
    <3>3. InOrder(p, n)
      BY <1>7, <2>2 DEF PlayerInv, Ordered
    <3>4. ~(n < part[p])
      BY <1>1, <3>3 DEF InOrder
    <3>5. ASSUME NEW j \in 1 .. (n - 1) PROVE j < part[p] /\ request[<<p, j>>] # "sent"
      <4>1. j \in 1 .. Parts
        OBVIOUS
      <4>2. InOrder(p, j)
        BY <1>7, <2>2, <4>1 DEF PlayerInv, Ordered
      <4>3. answer[<<p, j>>] \in Player!Requests /\ None \notin Player!Requests
        BY <1>1
      <4> QED
        BY <4>2, <4>3 DEF InOrder
    <3>6. n = part[p]
      <4>1. CASE n = 1
        BY <1>2, <3>1, <3>4, <4>1
      <4>2. CASE n # 1
        <5>1. n - 1 \in 1 .. (n - 1)
          BY <4>2
        <5>2. n - 1 < part[p]
          BY <3>5, <5>1
        <5> QED
          BY <3>2, <3>4, <5>2
      <4> QED
        BY <4>1, <4>2
    <3>7. CASE k = n
      <4>1. request'[<<p, n>>] = "sent" /\ content'[<<p, n>>] = <<p, n>>
        BY <1>1, <1>3, <3>1, <3>6 DEF PlayerInv, Player!TypeOK
      <4>2. answer[<<p, n>>] = None /\ None \notin Player!Requests
        BY <1>1, <3>3 DEF InOrder
      <4>3. n < part'[p] /\ play[p] # "none"
        BY <3>2, <3>6 DEF Player!LoadMoreAssets
      <4> QED
        BY <1>1, <1>2, <2>2, <3>7, <4>1, <4>2, <4>3 DEF InOrder
    <3>8. CASE k # n
      <4>1. <<p, k>> # <<p, n>> /\ request'[<<p, k>>] = request[<<p, k>>]
            /\ content'[<<p, k>>] = content[<<p, k>>]
        BY <1>1, <2>1, <2>2, <3>8 DEF PlayerInv, Player!TypeOK
      <4>2. request[<<p, k>>] # "none" <=> k < n
        BY <2>1, <2>2, <3>6 DEF InOrder
      <4>3. k < part'[p] <=> k < n
        BY <3>2, <3>6, <3>8
      <4>4. request[<<p, k>>] # "sent"
        <5>1. CASE k < n
          BY <3>5, <5>1
        <5>2. CASE ~(k < n)
          BY <4>2, <5>2
        <5> QED
          BY <5>1, <5>2
      <4>5. play[p] # "none"
        BY DEF Player!LoadMoreAssets
      <4> QED
        BY <1>2, <2>1, <2>2, <4>1, <4>2, <4>3, <4>4, <4>5 DEF InOrder
    <3> QED
      BY <3>7, <3>8
  <2>3. CASE q # p
    <3>1. q \notin Player!Active
      BY <1>2, <1>7, <2>3 DEF PlayerInv, Alone
    <3>2. loader # q
      BY <1>2, <3>1
    <3>3. request[<<q, k>>] # "sent"
      <4> SUFFICES ASSUME request[<<q, k>>] = "sent" PROVE FALSE
        OBVIOUS
      <4>1. current = <<q, k>>
        BY <2>1 DEF InOrder
      <4>2. current # None
        BY <2>1, <4>1
      <4> QED
        BY <3>1, <4>1, <4>2 DEF PlayerInv, Held
    <3>4. /\ part'[q] = part[q] /\ <<q, k>> # <<p, n>>
          /\ request'[<<q, k>>] = request[<<q, k>>] /\ content'[<<q, k>>] = content[<<q, k>>]
      BY <1>1, <1>2, <2>1, <2>3, <3>2 DEF PlayerInv, Player!TypeOK
    <3> QED
      BY <1>2, <2>1, <3>3, <3>4 DEF InOrder
  <2> QED
    BY <2>2, <2>3
<1>8. Ordered'
  BY <1>2, <1>7 DEF Ordered
<1> QED
  BY <1>4, <1>5, <1>6, <1>8 DEF PlayerInv

\* What a handler may answer with.
LEMMA HandlerTypes ==
    ASSUME PlayerInv, NEW r \in Player!Requests, Player!PlaylistHandler(r), content' = content,
           request' \in [Player!Requests -> {"none", "sent", "ok", "end", "error"}]
    PROVE  /\ answer' \in [Player!Requests -> Player!Requests \union {Player!End, Player!Failure, None}]
           /\ \A q \in Player!Requests : q # r => answer'[q] = answer[q]
           /\ answer'[r] = answer[r] \/
                 (current # None /\ answer[r] = None /\ answer'[r] \in {Player!End, Player!Failure, None})
              \/ (current # None /\ answer[r] = None /\ answer'[r] = content[current]
                  /\ request'[current] = "ok")
<1>1. CASE current = None \/ answer[r] # None
  BY <1>1 DEF Player!PlaylistHandler, PlayerInv, Player!TypeOK
<1>2. CASE current # None /\ answer[r] = None
  <2>1. PICK a \in Player!Assets(current) : answer' = [answer EXCEPT ![r] = a]
    BY <1>2 DEF Player!PlaylistHandler
  <2>2. current \in Player!Requests
    BY <1>2 DEF PlayerInv, Player!TypeOK
  <2>3. a \in {Player!End, Player!Failure, None} \/ (a = content[current] /\ request'[current] = "ok")
    BY <2>1 DEF Player!Assets
  <2>4. a \in Player!Requests \union {Player!End, Player!Failure, None}
    BY <2>2, <2>3 DEF PlayerInv, Player!TypeOK
  <2> QED
    BY <1>2, <2>1, <2>3, <2>4 DEF PlayerInv, Player!TypeOK
<1> QED
  BY <1>1, <1>2

\* The request that gets on is the current one, unless its playback met another.
LEMMA ProgressStep ==
    ASSUME PlayerInv, NEW r \in Player!Requests, Player!Progress(r)
    PROVE  PlayerInv'
<1>1. /\ Player!Active' = Player!Active /\ request[r] = "sent" /\ Player!PlaylistHandler(r)
      /\ UNCHANGED <<url, time, play, meta, saved, timer, timers, loader, current, content,
                     part, watched, mixed, cleared>>
  BY DEF Player!Progress, Player!Active, Player!session, Player!logging, Player!history
<1>2. PICK s \in {"sent", "ok", "end", "error"} : request' = [request EXCEPT ![r] = s]
  BY DEF Player!Progress
<1>3. request' \in [Player!Requests -> {"none", "sent", "ok", "end", "error"}]
  BY <1>2 DEF PlayerInv, Player!TypeOK
<1>4. /\ answer' \in [Player!Requests -> Player!Requests \union {Player!End, Player!Failure, None}]
      /\ \A q \in Player!Requests : q # r => answer'[q] = answer[q]
      /\ \/ answer'[r] = answer[r] \/ answer'[r] \in {Player!End, Player!Failure, None}
         \/ answer'[r] = content[current] /\ request'[current] = "ok"
  BY <1>1, <1>3, HandlerTypes
<1>5. Player!TypeOK'
  BY <1>1, <1>3, <1>4 DEF PlayerInv, Player!TypeOK
<1>6. Alone' /\ Held' /\ Begins' /\ Bookmarked' /\ Timed'
  BY <1>1 DEF PlayerInv, Alone, Held, Begins, Bookmarked, Timed
<1>7. ASSUME NEW q \in Playbacks, NEW k \in 1 .. Parts, q \notin mixed PROVE InOrder(q, k)'
  <2>1. InOrder(q, k) /\ <<q, k>> \in Player!Requests
    BY <1>7 DEF PlayerInv, Ordered, Player!Requests
  <2>2. CASE <<q, k>> # r
    <3>1. request'[<<q, k>>] = request[<<q, k>>] /\ answer'[<<q, k>>] = answer[<<q, k>>]
      BY <1>2, <1>4, <2>1, <2>2 DEF PlayerInv, Player!TypeOK
    <3> QED
      BY <1>1, <2>1, <3>1 DEF InOrder
  <2>3. CASE <<q, k>> = r
    <3>1. /\ current = <<q, k>> /\ content[<<q, k>>] = <<q, k>> /\ k < part[q] /\ play[q] # "none"
          /\ answer[<<q, k>>] \notin Player!Requests
      BY <1>1, <2>1, <2>3 DEF InOrder
    <3>2. request'[<<q, k>>] = s
      BY <1>2, <2>1, <2>3 DEF PlayerInv, Player!TypeOK
    <3>3. \A a \in {Player!End, Player!Failure, None} : a \notin Player!Requests
      BY DEF Player!End, Player!Failure, Player!Requests
    <3>4. answer'[<<q, k>>] \in Player!Requests => answer'[<<q, k>>] = <<q, k>> /\ request'[<<q, k>>] = "ok"
      BY <1>4, <2>3, <3>1, <3>3
    <3> QED
      BY <1>1, <3>1, <3>2, <3>4 DEF InOrder
  <2> QED
    BY <2>2, <2>3
<1>8. Ordered'
  BY <1>1, <1>7 DEF Ordered
<1> QED
  BY <1>5, <1>6, <1>8 DEF PlayerInv

\* didStopPlaying takes the globals from its playback and whoever it met.
LEMMA DidStopStep ==
    ASSUME PlayerInv, NEW p \in Playbacks, Player!DidStopPlaying(p)
    PROVE  PlayerInv'
<1>1. /\ Player!Active' = Player!Active \ {p} /\ p \in Player!Active /\ play[p] = "stopped"
      /\ play' = [play EXCEPT ![p] = "over"]
  BY DEF Player!DidStopPlaying, Player!Active, PlayerInv, Player!TypeOK
<1>2. /\ timers' = timers \ {timer} /\ timer' = None /\ url' = None
      /\ saved' = IF url = None THEN saved ELSE saved \union {<<url, time>>}
      /\ loader' = None /\ current' = None
      /\ UNCHANGED <<time, meta, content, part, watched, mixed, cleared>>
  BY DEF Player!DidStopPlaying, Player!SaveBookmark, Player!history
<1>3. \A q \in Player!Active' : q \in mixed
  BY <1>1 DEF PlayerInv, Alone
<1>4. /\ request' \in [Player!Requests -> {"none", "sent", "ok", "end", "error"}]
      /\ answer' \in [Player!Requests -> Player!Requests \union {Player!End, Player!Failure, None}]
      /\ \A r \in Player!Requests :
            \/ request'[r] = request[r] /\ answer'[r] = answer[r] /\ (r = current => request[r] # "sent")
            \/ r = current /\ request[r] = "sent" /\ request'[r] = "error"
               /\ (answer'[r] = answer[r] \/ answer'[r] \in {Player!End, Player!Failure, None})
  <2>1. CASE current # None /\ request[current] = "sent"
    <3>1. /\ current \in Player!Requests /\ request' = [request EXCEPT ![current] = "error"]
          /\ Player!PlaylistHandler(current) \/ UNCHANGED answer
      BY <2>1 DEF Player!DidStopPlaying, PlayerInv, Player!TypeOK
    <3>2. request' \in [Player!Requests -> {"none", "sent", "ok", "end", "error"}] /\ request'[current] = "error"
      BY <3>1 DEF PlayerInv, Player!TypeOK
    <3>3. /\ answer' \in [Player!Requests -> Player!Requests \union {Player!End, Player!Failure, None}]
          /\ \A q \in Player!Requests : q # current => answer'[q] = answer[q]
          /\ answer'[current] = answer[current] \/ answer'[current] \in {Player!End, Player!Failure, None}
      <4>1. CASE Player!PlaylistHandler(current)
        BY <1>2, <3>1, <3>2, <4>1, HandlerTypes
      <4>2. CASE UNCHANGED answer
        BY <4>2 DEF PlayerInv, Player!TypeOK
      <4> QED
        BY <3>1, <4>1, <4>2
    <3>4. \A q \in Player!Requests : q # current => request'[q] = request[q]
      BY <3>1 DEF PlayerInv, Player!TypeOK
    <3> QED
      BY <2>1, <3>2, <3>3, <3>4
  <2>2. CASE ~(current # None /\ request[current] = "sent")
    BY <2>2 DEF Player!DidStopPlaying, PlayerInv, Player!TypeOK, Player!Requests
  <2> QED
    BY <2>1, <2>2
<1>5. Player!TypeOK'
  <2>1. saved' \subseteq Playbacks \X (Playbacks \union {None})
    BY <1>2 DEF PlayerInv, Player!TypeOK
  <2> QED
    BY <1>1, <1>2, <1>4, <2>1 DEF PlayerInv, Player!TypeOK
<1>6. Alone' /\ Held'
  BY <1>1, <1>2 DEF PlayerInv, Alone, Held
<1>7. Begins'
  BY <1>1, <1>2 DEF PlayerInv, Player!TypeOK, Begins
<1>8. Timed'
  BY <1>1, <1>2, <1>3 DEF PlayerInv, Timed
<1>9. Bookmarked'
  <2>1. ASSUME NEW b \in saved'
        PROVE  b[1] \in mixed' \/ (play'[b[1]] = "over" /\ (b[1] = b[2] \/ b[1] \notin watched'))
    <3>1. CASE b \in saved
      BY <1>1, <1>2, <3>1 DEF PlayerInv, Bookmarked, Player!TypeOK
    <3>2. CASE url # None /\ b = <<url, time>>
      <4>1. b[1] = url /\ b[2] = time /\ url \in Player!Active
        BY <3>2 DEF PlayerInv, Held
      <4>2. CASE url = p
        BY <1>1, <1>2, <3>2, <4>1, <4>2 DEF PlayerInv, Bookmarked, Player!TypeOK
      <4>3. CASE url # p
        BY <1>1, <1>2, <1>3, <4>1, <4>3
      <4> QED
        BY <4>2, <4>3
    <3> QED
      BY <1>2, <3>1, <3>2
  <2>2. ASSUME NEW q \in Playbacks, play'[q] = "over", "bookmark" \in meta'[q]
        PROVE  q \in mixed' \union cleared' \/ \E b \in saved' : b[1] = q
    <3>1. CASE q = p
      <4>1. p \in mixed \union cleared \/ url = p
        BY <1>1, <1>2, <2>2, <3>1 DEF PlayerInv, Bookmarked
      <4>2. ASSUME url = p PROVE <<url, time>> \in saved' /\ <<url, time>>[1] = q
        BY <1>2, <3>1, <4>2
      <4> QED
        BY <1>2, <3>1, <4>1, <4>2
    <3>2. CASE q # p
      BY <1>1, <1>2, <2>2, <3>2 DEF PlayerInv, Bookmarked, Player!TypeOK
    <3> QED
      BY <3>1, <3>2
  <2> QED
    BY <1>2, <1>3, <2>1, <2>2 DEF Bookmarked
<1>10. ASSUME NEW q \in Playbacks, NEW k \in 1 .. Parts, q \notin mixed PROVE InOrder(q, k)'
  <2>1. InOrder(q, k) /\ <<q, k>> \in Player!Requests /\ (play'[q] = "none" => play[q] = "none")
    BY <1>1, <1>10 DEF PlayerInv, Ordered, Player!Requests, Player!TypeOK
  <2>2. CASE /\ request'[<<q, k>>] = request[<<q, k>>] /\ answer'[<<q, k>>] = answer[<<q, k>>]
             /\ <<q, k>> = current => request[<<q, k>>] # "sent"
    BY <1>2, <2>1, <2>2 DEF InOrder
  <2>3. CASE /\ request[<<q, k>>] = "sent" /\ request'[<<q, k>>] = "error"
             /\ answer'[<<q, k>>] = answer[<<q, k>>] \/ answer'[<<q, k>>] \in {Player!End, Player!Failure, None}
    <3>1. \A a \in {Player!End, Player!Failure, None} : a \notin Player!Requests
      BY DEF Player!End, Player!Failure, Player!Requests
    <3>2. answer'[<<q, k>>] \notin Player!Requests
      BY <2>1, <2>3, <3>1 DEF InOrder
    <3> QED
      BY <1>2, <2>1, <2>3, <3>2 DEF InOrder
  <2> QED
    BY <1>4, <2>1, <2>2, <2>3
<1>11. Ordered'
  BY <1>2, <1>10 DEF Ordered
<1> QED
  BY <1>5, <1>6, <1>7, <1>8, <1>9, <1>11 DEF PlayerInv

\* Every step keeps the invariant.
LEMMA PlayerNext == PlayerInv /\ [Player!Next]_Player!vars => PlayerInv'
<1> SUFFICES ASSUME PlayerInv, [Player!Next]_Player!vars PROVE PlayerInv'
  OBVIOUS
<1>1. CASE UNCHANGED Player!vars
  <2>1. /\ UNCHANGED <<url, time, play, meta, saved, timer, timers, loader, current, request>>
        /\ UNCHANGED <<content, part, answer, watched, mixed, cleared>>
    BY <1>1 DEF Player!vars, Player!session, Player!playlist, Player!logging,
       Player!history
  <2>2. Player!Active' = Player!Active
    BY <2>1 DEF Player!Active
  <2>3. Player!TypeOK' /\ Alone' /\ Held' /\ Begins' /\ Timed' /\ Bookmarked'
    BY <2>1, <2>2 DEF PlayerInv, Player!TypeOK, Alone, Held, Begins, Bookmarked, Timed
  <2>4. Ordered'
    BY <2>1 DEF PlayerInv, Ordered, InOrder
  <2> QED
    BY <2>3, <2>4 DEF PlayerInv
<1>2. ASSUME NEW p \in Playbacks, Player!Playback(p) PROVE PlayerInv'
  BY <1>2, WillStartStep, TimeStep, StopStep, LoadMoreStep,
     DidStopStep DEF Player!Playback
<1>3. ASSUME NEW r \in Player!Requests, Player!Progress(r) PROVE PlayerInv'
  BY <1>3, ProgressStep
<1>4. CASE Player!OnLogout
  BY <1>4, OnLogoutStep
<1> QED
  BY <1>1, <1>2, <1>3, <1>4 DEF Player!Next

\* However many playbacks begin, stop and end in whatever order, a playback that
\* met no other has its own bookmark saved, unless a logout took it, is given the
\* parts of its own playlist in their order, and leaves no log timer behind.
THEOREM PlaybackTheorem == Player!Spec => []PlaybackOwn
BY PlayerInit, PlayerNext, PlayerHolds, PTL DEF Player!Spec

-----------------------------------------------------------------------------
\* The session.

SessionInv ==
    /\ Session!TypeOK
    /\ signedOut => /\ authToken \in late \union {None}
                    /\ \A a \in Logins : login[a] = "sent" => a \in late

\* A login that began after the logout ends signedOut; one that had begun is late.
LEMMA SessionNext == SessionInv /\ [Session!Next]_(Session!vars) => SessionInv'
<1> SUFFICES ASSUME SessionInv, [Session!Next]_(Session!vars) PROVE SessionInv'
  OBVIOUS
<1>1. CASE UNCHANGED Session!vars
  BY <1>1 DEF Session!vars, SessionInv, Session!TypeOK
<1>2. ASSUME NEW a \in Logins, Session!OnAuthenticate(a) PROVE SessionInv'
  BY <1>2 DEF Session!OnAuthenticate, SessionInv, Session!TypeOK
<1>3. ASSUME NEW a \in Logins, Session!Authenticated(a) PROVE SessionInv'
  <2>1. Session!TypeOK'
    BY <1>3 DEF Session!Authenticated, SessionInv, Session!TypeOK
  <2>2. login[a] = "sent" /\ authToken' \in {a, authToken} /\ UNCHANGED <<late, signedOut>>
    BY <1>3 DEF Session!Authenticated
  <2>3. \A b \in Logins : login'[b] = "sent" => login[b] = "sent"
    BY <1>3 DEF Session!Authenticated, SessionInv, Session!TypeOK
  <2> QED
    BY <2>1, <2>2, <2>3 DEF SessionInv
<1>4. CASE Session!OnLogout
  BY <1>4 DEF Session!OnLogout, SessionInv, Session!TypeOK
<1>5. CASE Session!OnGenerateRequest
  BY <1>5 DEF Session!OnGenerateRequest, SessionInv, Session!TypeOK
<1>6. ASSUME NEW q \in Queries, Session!OnExecuteQuery(q) PROVE SessionInv'
  BY <1>6 DEF Session!OnExecuteQuery, SessionInv, Session!TypeOK, Session!Sites
<1>7. ASSUME NEW q \in Queries, Session!QueryReply(q) PROVE SessionInv'
  BY <1>7 DEF Session!QueryReply, SessionInv, Session!TypeOK, Session!Sites
<1> QED
  BY <1>1, <1>2, <1>3, <1>4, <1>5, <1>6, <1>7 DEF Session!Next

\* Only onGenerateRequest makes a request, with the token there is.
LEMMA SessionStep ==
    SessionInv /\ [Session!Next]_(Session!vars) =>
        [requested' # requested /\ signedOut => requested' \in late \union {None}]_(Session!vars)
<1> SUFFICES ASSUME SessionInv, [Session!Next]_(Session!vars), requested' # requested, signedOut
             PROVE  requested' \in late \union {None}
  BY DEF Session!vars
<1>1. requested' = authToken
  BY DEF Session!Next, Session!OnAuthenticate, Session!Authenticated, Session!OnLogout,
         Session!OnGenerateRequest, Session!OnExecuteQuery, Session!QueryReply,
         Session!vars
<1> QED
  BY <1>1 DEF SessionInv

\* The invariant holds before the first login.
LEMMA SessionInit == Session!Init => SessionInv
BY DEF Session!Init, SessionInv, Session!TypeOK

\* However many logins are under way, no request after a logout carries a token
\* but one that a login under way at a logout brought back.
THEOREM LoggedOutTheorem == Session!Spec => Session!LoggedOut
BY SessionInit, SessionNext, SessionStep, PTL DEF Session!Spec, Session!LoggedOut

-----------------------------------------------------------------------------
\* The photos.

\* A set of numbers that is not empty has a least one: what induction is made of.
LEMMA Least == ASSUME NEW T \in SUBSET Nat, T # {} PROVE \E x \in T : \A y \in T : x <= y
<1>1. IsWellFoundedOn(OpToRel(<, Nat), Nat)
  BY NatLessThanWellFounded
<1>2. PICK x \in T : \A y \in T : ~(<<y, x>> \in OpToRel(<, Nat))
  BY <1>1, WFMin
<1>3. \A y \in T : ~(y < x)
  BY <1>2 DEF OpToRel
<1> QED
  BY <1>3

\* The orders of n photos, and the draws of m turns.
Orders(n)   == {p \in [1 .. n -> 1 .. n] : \A i, j \in 1 .. n : p[i] = p[j] => i = j}
Turns(n, m) == {d \in [1 .. m -> 0 .. (n - 1)] : \A i \in 1 .. m : d[i] <= n - i}

\* What the turns make of the list, one after another.
Goes(n, m, d, order) ==
    order = [i \in 0 .. m |-> IF i = 0 THEN Photos!Given(n)
                              ELSE Photos!Exchange(order[i - 1], n - i, d[i])]
Course(n, m, d) == CHOOSE order : Goes(n, m, d, order)

\* An exchange is one of two places.
LEMMA ExchangeMoves ==
    ASSUME NEW n \in Nat, NEW p \in Orders(n), NEW t \in 0 .. (n - 1), NEW c \in 0 .. t
    PROVE  /\ Photos!Exchange(p, t, c) \in Orders(n)
           /\ Photos!Exchange(p, t, c)[t + 1] = p[c + 1]
           /\ Photos!Exchange(p, t, c)[c + 1] = p[t + 1]
           /\ \A i \in 1 .. n : i # t + 1 /\ i # c + 1 => Photos!Exchange(p, t, c)[i] = p[i]
<1>1. p \in [1 .. n -> 1 .. n] /\ t + 1 \in 1 .. n /\ c + 1 \in 1 .. n
  BY DEF Orders
<1>2. Photos!Exchange(p, t, c) = [i \in 1 .. n |-> IF i = t + 1 THEN p[c + 1]
                                                  ELSE IF i = c + 1 THEN p[t + 1] ELSE p[i]]
  BY <1>1 DEF Photos!Exchange
<1>3. Photos!Exchange(p, t, c) \in [1 .. n -> 1 .. n]
  BY <1>1, <1>2
<1>4. \A i, j \in 1 .. n : Photos!Exchange(p, t, c)[i] = Photos!Exchange(p, t, c)[j] => i = j
  BY <1>1, <1>2 DEF Orders
<1> QED
  BY <1>1, <1>2, <1>3, <1>4 DEF Orders

\* The course of some turns exists, and is one of orders.
LEMMA CourseGoes ==
    ASSUME NEW n \in Nat, NEW m \in 0 .. n, NEW d \in Turns(n, m)
    PROVE  /\ Course(n, m, d) \in [0 .. m -> Orders(n)]
           /\ Course(n, m, d)[0] = Photos!Given(n)
           /\ \A i \in 1 .. m : Course(n, m, d)[i] = Photos!Exchange(Course(n, m, d)[i - 1], n - i, d[i])
<1> DEFINE Bad == {k \in 0 .. m : ~ \E order : Goes(n, k, d, order)}
<1>1. ASSUME NEW k \in Bad, \A j \in Bad : k <= j PROVE FALSE
  <2>1. CASE k = 0
    <3>1. Goes(n, 0, d, [i \in 0 .. 0 |-> Photos!Given(n)])
      BY DEF Goes
    <3> QED
      BY <2>1, <3>1, <1>1
  <2>2. CASE k > 0
    <3>1. k - 1 \in 0 .. m /\ k - 1 \notin Bad
      BY <1>1, <2>2
    <3>2. PICK order : Goes(n, k - 1, d, order)
      BY <3>1
    <3> DEFINE next == [i \in 0 .. k |-> IF i < k THEN order[i]
                                         ELSE Photos!Exchange(order[k - 1], n - k, d[k])]
    <3>3. \A i \in 0 .. (k - 1) :
             order[i] = IF i = 0 THEN Photos!Given(n) ELSE Photos!Exchange(order[i - 1], n - i, d[i])
      BY <3>2 DEF Goes
    <3>4. \A i \in 0 .. k :
             next[i] = IF i = 0 THEN Photos!Given(n) ELSE Photos!Exchange(next[i - 1], n - i, d[i])
      <4>1. k \in Nat /\ k >= 1
        BY <1>1, <2>2
      <4>2. next[k - 1] = order[k - 1]
        BY <4>1
      <4>3. next[k] = Photos!Exchange(next[k - 1], n - k, d[k])
        BY <4>1, <4>2
      <4>4. ASSUME NEW i \in 0 .. (k - 1)
            PROVE  /\ next[i] = order[i]
                   /\ i # 0 => next[i - 1] = order[i - 1]
        BY <4>1
      <4> HIDE DEF next
      <4>5. ASSUME NEW i \in 0 .. (k - 1)
            PROVE  next[i] = IF i = 0 THEN Photos!Given(n) ELSE Photos!Exchange(next[i - 1], n - i, d[i])
        BY <3>3, <4>4
      <4> QED
        BY <4>1, <4>3, <4>5
    <3>5. Goes(n, k, d, next)
      BY <3>4 DEF Goes
    <3> QED
      BY <1>1, <3>5
  <2> QED
    BY <2>1, <2>2
<1>2. Bad = {}
  <2>1. Bad \in SUBSET Nat
    OBVIOUS
  <2> HIDE DEF Bad
  <2> QED
    BY <1>1, <2>1, Least
<1>3. Goes(n, m, d, Course(n, m, d))
  BY <1>2 DEF Course
<1> DEFINE o == Course(n, m, d)
<1>4. /\ o = [i \in 0 .. m |-> o[i]] /\ o[0] = Photos!Given(n)
      /\ \A i \in 1 .. m : o[i] = Photos!Exchange(o[i - 1], n - i, d[i])
  <2> HIDE DEF o
  <2>1. o = [i \in 0 .. m |-> IF i = 0 THEN Photos!Given(n) ELSE Photos!Exchange(o[i - 1], n - i, d[i])]
    BY <1>3 DEF Goes, o
  <2> QED
    BY <2>1
<1> DEFINE Off == {k \in 0 .. m : o[k] \notin Orders(n)}
<1> HIDE DEF o
<1>5. ASSUME NEW k \in Off, \A j \in Off : k <= j PROVE FALSE
  <2>1. CASE k = 0
    BY <1>4, <1>5, <2>1 DEF Photos!Given, Orders
  <2>2. CASE k > 0
    <3>1. o[k - 1] \in Orders(n) /\ n - k \in 0 .. (n - 1) /\ d[k] \in 0 .. (n - k)
      BY <1>5, <2>2 DEF Turns
    <3>2. k \in 1 .. m
      BY <1>5, <2>2
    <3>4. o[k] = Photos!Exchange(o[k - 1], n - k, d[k])
      BY <1>4, <3>2
    <3>3. o[k] \in Orders(n)
      BY <3>1, <3>4, ExchangeMoves
    <3> QED
      BY <1>5, <3>3
  <2> QED
    BY <2>1, <2>2
<1>6. Off = {}
  <2>1. Off \in SUBSET Nat
    OBVIOUS
  <2> HIDE DEF Off
  <2> QED
    BY <1>5, <2>1, Least
<1> QED
  BY <1>4, <1>6 DEF o

\* A turn settles its place for good.
LEMMA Settled ==
    ASSUME NEW n \in Nat, NEW m \in 0 .. n, NEW d \in Turns(n, m), NEW k \in 1 .. m
    PROVE  /\ Course(n, m, d)[k][n - k + 1] = Course(n, m, d)[k - 1][d[k] + 1]
           /\ \A j \in k .. m : Course(n, m, d)[j][n - k + 1] = Course(n, m, d)[k][n - k + 1]
<1> DEFINE o == Course(n, m, d)
<1>1. /\ o \in [0 .. m -> Orders(n)]
      /\ \A i \in 1 .. m : o[i] = Photos!Exchange(o[i - 1], n - i, d[i])
  BY CourseGoes
<1> HIDE DEF o
<1>2. ASSUME NEW i \in 1 .. m
      PROVE  /\ o[i][n - i + 1] = o[i - 1][d[i] + 1]
             /\ \A q \in (n - i + 2) .. n : o[i][q] = o[i - 1][q]
  <2>1. o[i - 1] \in Orders(n) /\ n - i \in 0 .. (n - 1) /\ d[i] \in 0 .. (n - i)
    BY <1>1 DEF Turns
  <2>2. o[i] = Photos!Exchange(o[i - 1], n - i, d[i])
    BY <1>1
  <2> DEFINE t == n - i
             c == d[i]
             p == o[i - 1]
  <2>3. p \in Orders(n) /\ t \in 0 .. (n - 1) /\ c \in 0 .. t /\ o[i] = Photos!Exchange(p, t, c)
    BY <2>1, <2>2
  <2> HIDE DEF t, c, p
  <2>4. /\ o[i][t + 1] = p[c + 1]
        /\ \A q \in 1 .. n : q # t + 1 /\ q # c + 1 => o[i][q] = p[q]
    BY <2>3, ExchangeMoves
  <2>5. \A q \in (t + 2) .. n : q \in 1 .. n /\ q # t + 1 /\ q # c + 1
    BY <2>3
  <2> QED
    BY <2>4, <2>5 DEF t, c, p
<1> DEFINE Bad == {j \in k .. m : o[j][n - k + 1] # o[k][n - k + 1]}
<1>3. ASSUME NEW j \in Bad, \A i \in Bad : j <= i PROVE FALSE
  <2>1. j \in (k + 1) .. m
    BY <1>3
  <2>2. o[j - 1][n - k + 1] = o[k][n - k + 1]
    BY <1>3, <2>1
  <2>3. o[j][n - k + 1] = o[j - 1][n - k + 1]
    BY <1>2, <2>1
  <2> QED
    BY <1>3, <2>2, <2>3
<1>4. Bad = {}
  <2>1. Bad \in SUBSET Nat
    OBVIOUS
  <2> HIDE DEF Bad
  <2> QED
    BY <1>3, <2>1, Least
<1> QED
  BY <1>2, <1>4 DEF o

\* Turns that draw the same do the same, however many come after them.
LEMMA SameTurns ==
    ASSUME NEW n \in Nat, NEW m \in 0 .. n, NEW d \in Turns(n, m),
           NEW l \in 0 .. n, NEW e \in Turns(n, l), NEW k \in 0 .. m, k <= l,
           \A i \in 1 .. k : d[i] = e[i]
    PROVE  \A i \in 0 .. k : Course(n, m, d)[i] = Course(n, l, e)[i]
<1> DEFINE o == Course(n, m, d)
           q == Course(n, l, e)
           Bad == {i \in 0 .. k : o[i] # q[i]}
<1>1. /\ o[0] = q[0]
      /\ \A i \in 1 .. m : o[i] = Photos!Exchange(o[i - 1], n - i, d[i])
      /\ \A i \in 1 .. l : q[i] = Photos!Exchange(q[i - 1], n - i, e[i])
  BY CourseGoes
<1> HIDE DEF o, q
<1>2. ASSUME NEW j \in Bad, \A i \in Bad : j <= i PROVE FALSE
  <2>1. j \in 1 .. k
    BY <1>1, <1>2
  <2>2. o[j - 1] = q[j - 1]
    BY <1>2, <2>1
  <2>3. o[j] = Photos!Exchange(o[j - 1], n - j, d[j]) /\ q[j] = Photos!Exchange(q[j - 1], n - j, e[j])
    BY <1>1, <2>1
  <2> QED
    BY <1>2, <2>1, <2>2, <2>3
<1>3. Bad = {}
  <2>1. Bad \in SUBSET Nat
    OBVIOUS
  <2> HIDE DEF Bad
  <2> QED
    BY <1>2, <2>1, Least
<1> QED
  BY <1>3 DEF o, q

\* No two lists of draws make the same order.
LEMMA OneCourse ==
    ASSUME NEW n \in Nat, NEW m \in 0 .. n, NEW d \in Turns(n, m), NEW e \in Turns(n, m),
           Course(n, m, d)[m] = Course(n, m, e)[m]
    PROVE  d = e
<1> DEFINE Apart == {k \in 1 .. m : d[k] # e[k]}
<1>1. ASSUME NEW k \in Apart, \A i \in Apart : k <= i PROVE FALSE
  <2> DEFINE o == Course(n, m, d)
             q == Course(n, m, e)
  <2>1. k \in 1 .. m /\ k - 1 \in 0 .. m /\ k - 1 <= m /\ (\A i \in 1 .. (k - 1) : d[i] = e[i])
    BY <1>1
  <2>2. o[k - 1] = q[k - 1]
    BY <2>1, SameTurns
  <2>3. o[k - 1] \in Orders(n)
    BY <2>1, CourseGoes
  <2>4. o[m][n - k + 1] = o[k - 1][d[k] + 1]
    BY <2>1, Settled
  <2>5. q[m][n - k + 1] = q[k - 1][e[k] + 1]
    BY <2>1, Settled
  <2> HIDE DEF o, q
  <2>6. o[k - 1][d[k] + 1] = o[k - 1][e[k] + 1]
    <3>1. o[m] = q[m]
      BY DEF o, q
    <3> QED
      BY <2>2, <2>4, <2>5, <3>1
  <2>7. d[k] + 1 \in 1 .. n /\ e[k] + 1 \in 1 .. n
    BY <2>1 DEF Turns
  <2>8. d[k] + 1 = e[k] + 1
    BY <2>3, <2>6, <2>7 DEF Orders
  <2> QED
    BY <1>1, <2>1, <2>7, <2>8 DEF Turns
<1>2. Apart = {}
  <2>1. Apart \in SUBSET Nat
    OBVIOUS
  <2> HIDE DEF Apart
  <2> QED
    BY <1>1, <2>1, Least
<1>3. \A i \in 1 .. m : d[i] = e[i]
  BY <1>2
<1>4. d = [i \in 1 .. m |-> d[i]] /\ e = [i \in 1 .. m |-> e[i]]
  BY DEF Turns
<1> QED
  BY <1>3, <1>4

\* An order has each photo at some place.
LEMMA OrdersOnto ==
    ASSUME NEW n \in Nat, NEW p \in Orders(n)
    PROVE  \A x \in 1 .. n : \E i \in 1 .. n : p[i] = x
<1>1. IsFiniteSet(1 .. n)
  BY FS_Interval
<1>3. p \in Injection(1 .. n, 1 .. n)
  BY DEF Orders, Injection, IsInjective
<1>2. p \in Surjection(1 .. n, 1 .. n)
  BY <1>1, <1>3, FS_Injection
<1> QED
  BY <1>2 DEF Surjection

\* There are draws for any order.
LEMMA EveryOrder ==
    ASSUME NEW n \in Nat, NEW p \in Orders(n), NEW m \in 0 .. n, n - m <= 1
    PROVE  \E d \in Turns(n, m) : Course(n, m, d)[m] = p
<1> DEFINE Agrees(k, d) == \A q \in (n - k + 1) .. n : Course(n, k, d)[k][q] = p[q]
           Bad == {k \in 0 .. m : ~ \E d \in Turns(n, k) : Agrees(k, d)}
<1>1. ASSUME NEW k \in Bad, \A i \in Bad : k <= i PROVE FALSE
  <2>1. k # 0
    <3>1. [i \in 1 .. 0 |-> 0] \in Turns(n, 0)
      BY DEF Turns
    <3> QED
      BY <3>1, <1>1
  <2>2. k \in 1 .. m /\ k - 1 \in 0 .. m /\ k - 1 \in 0 .. n /\ k - 1 \notin Bad
    BY <1>1, <2>1
  <2>3. PICK d \in Turns(n, k - 1) : Agrees(k - 1, d)
    BY <2>2
  <2> DEFINE now == Course(n, k - 1, d)[k - 1]
             t == n - k + 1
  <2>4. now \in Orders(n)
    BY <2>2, CourseGoes
  <2>5. \A q \in (t + 1) .. n : now[q] = p[q]
    BY <2>2, <2>3
  <2>6. t \in 1 .. n
    BY <2>2
  <2> HIDE DEF now
  <2>7. PICK c \in 1 .. n : now[c] = p[t]
    <3>1. p[t] \in 1 .. n
      BY <2>6 DEF Orders
    <3> QED
      BY <2>4, <3>1, OrdersOnto
  <2>8. c <= t
    <3>1. ASSUME c > t PROVE FALSE
      <4>1. now[c] = p[c]
        BY <2>5, <2>6, <3>1
      <4>2. c = t
        BY <2>6, <2>7, <4>1 DEF Orders
      <4> QED
        BY <2>6, <3>1, <4>2
    <3> QED
      BY <2>6, <3>1
  <2> DEFINE e == [i \in 1 .. k |-> IF i = k THEN c - 1 ELSE d[i]]
  <2>9. e \in Turns(n, k)
    <3>1. \A i \in 1 .. (k - 1) : d[i] \in 0 .. (n - 1) /\ d[i] <= n - i
      BY DEF Turns
    <3>2. \A i \in 1 .. k : e[i] \in 0 .. (n - 1) /\ e[i] <= n - i
      BY <2>2, <2>6, <2>8, <3>1
    <3> HIDE DEF e
    <3>3. e = [i \in 1 .. k |-> e[i]]
      BY DEF e
    <3> QED
      BY <3>2, <3>3 DEF Turns
  <2>10. e[k] = c - 1 /\ (\A i \in 1 .. (k - 1) : d[i] = e[i])
    BY <2>2
  <2> HIDE DEF e
  <2>11. Course(n, k, e)[k - 1] = now
    <3>1. k \in 0 .. n /\ k - 1 \in 0 .. (k - 1) /\ k - 1 <= k
      BY <2>2
    <3>2. \A i \in 0 .. (k - 1) : Course(n, k - 1, d)[i] = Course(n, k, e)[i]
      BY <2>2, <2>9, <2>10, <3>1, SameTurns
    <3> QED
      BY <3>1, <3>2 DEF now
  <2>12. Course(n, k, e)[k] = Photos!Exchange(now, t - 1, c - 1)
    <3>1. k \in 0 .. n /\ k \in 1 .. k /\ t - 1 = n - k
      BY <2>2
    <3>2. Course(n, k, e)[k] = Photos!Exchange(Course(n, k, e)[k - 1], n - k, e[k])
      BY <2>9, <3>1, CourseGoes
    <3> QED
      BY <2>10, <2>11, <3>1, <3>2
  <2>13. Agrees(k, e)
    <3> DEFINE then == Photos!Exchange(now, t - 1, c - 1)
    <3>1. t - 1 \in 0 .. (n - 1) /\ c - 1 \in 0 .. (t - 1) /\ (t - 1) + 1 = t /\ (c - 1) + 1 = c
      BY <2>6, <2>8
    <3> HIDE DEF t
    <3>2. then[t] = now[c] /\ \A q \in 1 .. n : q # t /\ q # c => then[q] = now[q]
      <4>1. /\ then[(t - 1) + 1] = now[(c - 1) + 1]
            /\ \A q \in 1 .. n : q # (t - 1) + 1 /\ q # (c - 1) + 1 => then[q] = now[q]
        <5> HIDE DEF then
        <5> DEFINE u == t - 1
                   v == c - 1
        <5>1. u \in 0 .. (n - 1) /\ v \in 0 .. u /\ then = Photos!Exchange(now, u, v)
          BY <3>1 DEF then
        <5> HIDE DEF u, v
        <5>2. /\ then[u + 1] = now[v + 1]
              /\ \A q \in 1 .. n : q # u + 1 /\ q # v + 1 => then[q] = now[q]
          BY <2>4, <5>1, ExchangeMoves
        <5> QED
          BY <5>2 DEF u, v
      <4> QED
        BY <3>1, <4>1
    <3> HIDE DEF then
    <3>3. \A q \in t .. n : then[q] = p[q]
      BY <2>5, <2>6, <2>7, <2>8, <3>2
    <3> QED
      BY <2>12, <3>3 DEF then, t
  <2> QED
    BY <1>1, <2>9, <2>13
<1>2. Bad = {}
  <2>1. Bad \in SUBSET Nat
    OBVIOUS
  <2> HIDE DEF Bad
  <2> QED
    BY <1>1, <2>1, Least
<1>3. PICK d \in Turns(n, m) : Agrees(m, d)
  BY <1>2
<1> DEFINE last == Course(n, m, d)[m]
<1>4. last \in Orders(n)
  BY CourseGoes
<1>5. \A q \in 2 .. n : last[q] = p[q]
  BY <1>3
<1> HIDE DEF last
<1>6. n >= 1 => last[1] = p[1]
  <2> SUFFICES ASSUME n >= 1 PROVE last[1] = p[1]
    OBVIOUS
  <2>1. PICK i \in 1 .. n : p[i] = last[1]
    <3>1. last[1] \in 1 .. n
      BY <1>4 DEF Orders
    <3> QED
      BY <3>1, OrdersOnto
  <2>2. CASE i = 1
    BY <2>1, <2>2
  <2>3. CASE i # 1
    <3>1. last[i] = last[1]
      BY <1>5, <2>1, <2>3
    <3> QED
      BY <1>4, <2>3, <3>1 DEF Orders
  <2> QED
    BY <2>2, <2>3
<1>7. last = p
  <2>1. \A q \in 1 .. n : last[q] = p[q]
    BY <1>5, <1>6
  <2> QED
    BY <1>4, <2>1 DEF Orders
<1> QED
  BY <1>7 DEF last

\* What the history of draws is said to make is what it makes.
LEMMA AfterIs ==
    ASSUME length \in Nat, NEW m \in 0 .. length, NEW d \in Turns(length, m)
    PROVE  Photos!After(d) = Course(length, m, d)[m]
<1>1. Len(d) = m
  BY DEF Turns
<1> QED
  BY <1>1 DEF Photos!After, Course, Goes

\* The instance counts as the library does.
LEMMA PhotosCount == \A S : Photos!Cardinality(S) = Cardinality(S)
BY Zenon DEF Photos!Cardinality, Cardinality

\* There are as many lists of draws as orders.
LEMMA AsMany ==
    ASSUME NEW n \in Nat, NEW m \in 0 .. n, n - m <= 1
    PROVE  Photos!Cardinality(Turns(n, m)) = Photos!Cardinality(Photos!SetToSeqs(1 .. n))
<1>1. IsFiniteSet(1 .. n) /\ Cardinality(1 .. n) = n
  BY FS_Interval
<1>2. Photos!SetToSeqs(1 .. n) = Orders(n)
  <2> DEFINE k == Photos!Cardinality(1 .. n)
  <2>1. Photos!SetToSeqs(1 .. n) = {p \in [1 .. k -> 1 .. n] : \A i, j \in 1 .. k : i # j => p[i] # p[j]}
    BY DEF Photos!SetToSeqs
  <2>2. k = n
    BY <1>1, PhotosCount
  <2> HIDE DEF k
  <2> QED
    BY <2>1, <2>2 DEF Orders
<1>3. IsFiniteSet(Turns(n, m))
  <2> DEFINE Pairs == (1 .. m) \X (0 .. (n - 1))
             Graph == [d \in Turns(n, m) |-> {<<i, d[i]>> : i \in 1 .. m}]
  <2>1. IsFiniteSet(SUBSET Pairs)
    <3>1. IsFiniteSet(1 .. m) /\ IsFiniteSet(0 .. (n - 1))
      BY FS_Interval
    <3>2. IsFiniteSet(Pairs)
      BY <3>1, FS_Product
    <3> QED
      BY <3>2, FS_SUBSET
  <2>2. Graph \in [Turns(n, m) -> SUBSET Pairs]
    BY DEF Turns
  <2>3. ASSUME NEW d \in Turns(n, m), NEW e \in Turns(n, m), Graph[d] = Graph[e]
        PROVE  d = e
    <3>1. {<<i, d[i]>> : i \in 1 .. m} = {<<i, e[i]>> : i \in 1 .. m}
      BY <2>3
    <3>2. ASSUME NEW i \in 1 .. m PROVE d[i] = e[i]
      <4>1. <<i, d[i]>> \in {<<j, e[j]>> : j \in 1 .. m}
        BY <3>1
      <4>2. PICK j \in 1 .. m : <<i, d[i]>> = <<j, e[j]>>
        BY <4>1
      <4> QED
        BY <4>2
    <3>3. d = [i \in 1 .. m |-> d[i]] /\ e = [i \in 1 .. m |-> e[i]]
      BY DEF Turns
    <3> QED
      BY <3>2, <3>3
  <2>4. Graph \in Injection(Turns(n, m), SUBSET Pairs)
    <3> HIDE DEF Graph
    <3> QED
      BY <2>2, <2>3 DEF Injection, IsInjective
  <2> HIDE DEF Graph, Pairs
  <2> QED
    BY <2>1, <2>4, FS_Injection
<1> DEFINE Makes == [d \in Turns(n, m) |-> Course(n, m, d)[m]]
<1>4. Makes \in [Turns(n, m) -> Orders(n)]
  BY CourseGoes
<1>5. \A d, e \in Turns(n, m) : Makes[d] = Makes[e] => d = e
  BY OneCourse
<1>6. \A p \in Orders(n) : \E d \in Turns(n, m) : Makes[d] = p
  BY EveryOrder
<1> HIDE DEF Makes
<1>7. Makes \in Bijection(Turns(n, m), Orders(n))
  BY <1>4, <1>5, <1>6 DEF Bijection, Injection, Surjection, IsInjective
<1>8. Cardinality(Turns(n, m)) = Cardinality(Orders(n))
  BY <1>3, <1>7, FS_Bijection DEF ExistsBijection
<1> QED
  BY <1>2, <1>8, PhotosCount

\* The photos are where the draws so far have put them.
Shuffling(m) ==
    /\ drawn \in Turns(length, m)
    /\ photos = Course(length, m, drawn)[m]
    /\ IF shuffled THEN top = length - m ELSE top = 0 /\ m = 0
PhotosInv ==
    /\ length \in Nat /\ wanted \in Nat /\ shuffled \in BOOLEAN
    /\ \E m \in 0 .. length : Shuffling(m)
    /\ \E bare \in [1 .. length -> BOOLEAN] : movies = [i \in 1 .. length |-> <<bare[i], i>>]

\* No draw has moved anything at first, and each one moves on.
LEMMA PhotosInit == Photos!Init => PhotosInv
<1> SUFFICES ASSUME Photos!Init PROVE PhotosInv
  OBVIOUS
<1>1. length \in Nat /\ wanted \in Nat /\ shuffled \in BOOLEAN
  BY AppAssumption DEF Photos!Init, AppAssumption, Photos!PhotosAssumption
<1>2. drawn \in Turns(length, 0)
  BY <1>1 DEF Photos!Init, Turns
<1>3. photos = Course(length, 0, drawn)[0]
  <2>1. Course(length, 0, drawn)[0] = Photos!Given(length)
    BY <1>1, <1>2, CourseGoes
  <2> QED
    BY <2>1 DEF Photos!Init
<1>4. Shuffling(0)
  BY <1>1, <1>2, <1>3 DEF Photos!Init, Shuffling
<1> QED
  BY <1>1, <1>4 DEF Photos!Init, PhotosInv

LEMMA PhotosNext == PhotosInv /\ [Photos!Next]_(Photos!vars) => PhotosInv'
<1> SUFFICES ASSUME PhotosInv, [Photos!Next]_(Photos!vars) PROVE PhotosInv'
  OBVIOUS
<1>1. CASE UNCHANGED Photos!vars
  BY <1>1 DEF Photos!vars, PhotosInv, Shuffling
<1>2. CASE Photos!Turn
  <2>1. PICK c \in 0 .. (top - 1) : /\ photos' = Photos!Exchange(photos, top - 1, c)
                                    /\ drawn' = Append(drawn, c)
    BY <1>2 DEF Photos!Turn
  <2>2. PICK m \in 0 .. length : Shuffling(m)
    BY DEF PhotosInv
  <2>3. top > 1 /\ top' = top - 1 /\ UNCHANGED <<length, wanted, shuffled, movies>>
    BY <1>2 DEF Photos!Turn
  <2>4. shuffled /\ top = length - m /\ length \in Nat
    BY <2>2, <2>3 DEF Shuffling, PhotosInv
  <2>5. m + 1 \in 0 .. length /\ c \in 0 .. (length - 1) /\ c <= length - (m + 1) /\ top - 1 = length - (m + 1)
    BY <2>3, <2>4
  <2>6. /\ drawn' = [i \in 1 .. (m + 1) |-> IF i = m + 1 THEN c ELSE drawn[i]]
        /\ \A i \in 1 .. m : drawn[i] \in 0 .. (length - 1) /\ drawn[i] <= length - i
    <3> DEFINE S == 0 .. (length - 1)
    <3>1. drawn \in [1 .. m -> S] /\ m \in Nat /\ c \in S /\ \A i \in 1 .. m : drawn[i] <= length - i
      BY <2>2, <2>5 DEF Shuffling, Turns
    <3> HIDE DEF S
    <3>2. drawn \in Seq(S) /\ Len(drawn) = m
      BY <3>1
    <3>3. Append(drawn, c) = [i \in 1 .. (m + 1) |-> IF i = m + 1 THEN c ELSE drawn[i]]
      <4> DEFINE a == Append(drawn, c)
      <4>1. a \in Seq(S) /\ Len(a) = m + 1
        BY <3>1, <3>2
      <4>2. \A i \in 1 .. (m + 1) : a[i] = IF i = m + 1 THEN c ELSE drawn[i]
        BY <3>1, <3>2
      <4> HIDE DEF a
      <4>3. a = [i \in 1 .. (m + 1) |-> a[i]]
        BY <4>1
      <4> QED
        BY <4>2, <4>3 DEF a
    <3> QED
      BY <2>1, <3>1, <3>3 DEF S
  <2>7. drawn' \in Turns(length, m + 1)
    <3>1. \A i \in 1 .. (m + 1) : drawn'[i] \in 0 .. (length - 1) /\ drawn'[i] <= length - i
      BY <2>4, <2>5, <2>6
    <3>2. drawn' = [i \in 1 .. (m + 1) |-> drawn'[i]]
      BY <2>6
    <3> QED
      BY <3>1, <3>2 DEF Turns
  <2>8. photos' = Course(length, m + 1, drawn')[m + 1]
    <3>1. m + 1 \in 1 .. (m + 1) /\ m \in 0 .. (m + 1) /\ m \in 0 .. m
      BY <2>4
    <3>2. drawn'[m + 1] = c /\ \A i \in 1 .. m : drawn[i] = drawn'[i]
      BY <2>6, <3>1
    <3>3. Course(length, m, drawn)[m] = Course(length, m + 1, drawn')[m]
      BY <2>2, <2>4, <2>5, <2>7, <3>1, <3>2, SameTurns DEF Shuffling
    <3> DEFINE k == m + 1
               e == drawn'
    <3>4. k \in 0 .. length /\ k \in 1 .. k /\ e \in Turns(length, k)
      BY <2>5, <2>7, <3>1
    <3> HIDE DEF k, e
    <3>5. Course(length, k, e)[k] = Photos!Exchange(Course(length, k, e)[k - 1], length - k, e[k])
      BY <2>4, <3>4, CourseGoes
    <3>6. Course(length, k, e)[k - 1] = photos
      BY <2>2, <2>4, <3>3 DEF k, e, Shuffling
    <3> QED
      BY <2>1, <2>5, <3>2, <3>5, <3>6 DEF k, e
  <2>9. Shuffling(m + 1)'
    BY <2>3, <2>4, <2>5, <2>7, <2>8 DEF Shuffling
  <2> QED
    BY <2>3, <2>4, <2>5, <2>9 DEF PhotosInv
<1> QED
  BY <1>1, <1>2 DEF Photos!Next

\* Such an order has all photos, and comes of no other draws.
LEMMA ShuffleHolds == PhotosInv => Photos!ShuffleFair
<1> SUFFICES ASSUME PhotosInv PROVE Photos!ShuffleFair
  OBVIOUS
<1>1. PICK m \in 0 .. length : Shuffling(m)
  BY DEF PhotosInv
<1>2. length \in Nat
  BY DEF PhotosInv
<1>3. drawn \in Turns(length, m) /\ photos = Course(length, m, drawn)[m] /\ Len(drawn) = m
  BY <1>1, <1>2 DEF Shuffling, Turns
<1>4. photos \in Orders(length)
  BY <1>2, <1>3, CourseGoes
<1>5. Photos!ToSet(photos) = 1 .. length
  <2>1. DOMAIN photos = 1 .. length /\ \A i \in 1 .. length : photos[i] \in 1 .. length
    BY <1>4 DEF Orders
  <2>2. \A x \in 1 .. length : \E i \in 1 .. length : photos[i] = x
    BY <1>2, <1>4, OrdersOnto
  <2> QED
    BY <2>1, <2>2 DEF Photos!ToSet
<1>6. Photos!Draws = Turns(length, m)
  BY <1>3 DEF Photos!Draws, Turns
<1>7. ASSUME NEW d \in Photos!Draws, Photos!After(d) = photos
      PROVE  d = drawn
  <2>1. d \in Turns(length, m) /\ Course(length, m, d)[m] = photos
    BY <1>2, <1>6, <1>7, AfterIs
  <2> QED
    BY <1>2, <1>3, <2>1, OneCourse
<1>8. ASSUME shuffled, top <= 1
      PROVE  Photos!Cardinality(Photos!Draws) = Photos!Cardinality(Photos!SetToSeqs(1 .. length))
  <2>1. length - m <= 1
    BY <1>1, <1>8 DEF Shuffling
  <2> QED
    BY <1>2, <1>6, <2>1, AsMany
<1> QED
  BY <1>5, <1>7, <1>8 DEF Photos!ShuffleFair

\* A part of the list is as long as it says, and has no photo twice.
LEMMA PartIsOnce ==
    ASSUME NEW n \in Nat, NEW p \in Orders(n), NEW k \in 0 .. n,
           NEW s \in [1 .. k -> 1 .. n], \A i \in 1 .. k : s[i] = p[i]
    PROVE  Len(s) = k /\ Photos!Cardinality(Photos!ToSet(s)) = k
<1>1. Len(s) = k /\ DOMAIN s = 1 .. k
  OBVIOUS
<1>2. \A i, j \in 1 .. k : s[i] = s[j] => i = j
  BY DEF Orders
<1>3. s \in Bijection(1 .. k, Photos!ToSet(s))
  BY <1>1, <1>2 DEF Bijection, Injection, Surjection, IsInjective, Photos!ToSet
<1>4. IsFiniteSet(1 .. k) /\ Cardinality(1 .. k) = k
  BY FS_Interval
<1>5. Cardinality(Photos!ToSet(s)) = k
  BY <1>3, <1>4, FS_Bijection DEF ExistsBijection
<1> QED
  BY <1>1, <1>5, PhotosCount

LEMMA SliceHolds == PhotosInv => Photos!SliceRight
<1> SUFFICES ASSUME PhotosInv PROVE Photos!SliceRight
  OBVIOUS
<1>1. PICK m \in 0 .. length : Shuffling(m)
  BY DEF PhotosInv
<1>2. length \in Nat /\ wanted \in Nat
  BY DEF PhotosInv
<1>3. photos \in Orders(length)
  BY <1>1, <1>2, CourseGoes DEF Shuffling
<1>4. photos \in [1 .. length -> 1 .. length] /\ photos \in Seq(1 .. length) /\ Len(photos) = length
  <2>1. photos \in [1 .. length -> 1 .. length]
    BY <1>3 DEF Orders
  <2> QED
    BY <1>2, <2>1
<1>5. CASE wanted < length
  <2> DEFINE s == SubSeq(photos, 1, wanted)
  <2>1. wanted \in 0 .. length
    BY <1>2, <1>5
  <2>2. s \in [1 .. wanted -> 1 .. length] /\ \A i \in 1 .. wanted : s[i] = photos[i]
    <3>1. s = [i \in 1 .. wanted |-> photos[i]]
      BY <1>2, <1>4, <1>5
    <3>2. \A i \in 1 .. wanted : photos[i] \in 1 .. length
      BY <1>2, <1>4, <1>5
    <3> QED
      BY <3>1, <3>2
  <2> HIDE DEF s
  <2>3. Len(s) = wanted /\ Photos!Cardinality(Photos!ToSet(s)) = wanted
    BY <1>2, <1>3, <2>1, <2>2, PartIsOnce
  <2> QED
    BY <1>4, <1>5, <2>3 DEF s, Photos!SliceRight, Photos!Slice
<1>6. CASE ~(wanted < length)
  <2>1. Len(photos) = length /\ Photos!Cardinality(Photos!ToSet(photos)) = length
    BY <1>2, <1>3, <1>4, PartIsOnce
  <2> QED
    BY <1>2, <1>6, <2>1 DEF Photos!SliceRight, Photos!Slice
<1> QED
  BY <1>5, <1>6

-----------------------------------------------------------------------------
\* The movies of a theatre.

\* A movie that the first k turns have moved, and what the list then is: each movie
\* once, those that are not moved before those that are, both in their order.
Gone(k, x) == x[1] /\ x[2] <= k
Parting(n, bare, k, row) ==
    /\ row \in [1 .. n -> {<<bare[i], i>> : i \in 1 .. n}]
    /\ \A i \in 1 .. n : \E j \in 1 .. n : row[j] = <<bare[i], i>>
    /\ \A i, j \in 1 .. n : i < j =>
          \/ ~Gone(k, row[i]) /\ Gone(k, row[j])
          \/ (Gone(k, row[i]) <=> Gone(k, row[j])) /\ row[i][2] < row[j][2]

\* What is taken out and put at the end.
PutLast(n, S, row, x, q, new) ==
    /\ new \in [1 .. n -> S] /\ new[n] = x
    /\ \A i \in 1 .. (n - 1) : new[i] = IF i < q THEN row[i] ELSE row[i + 1]
LEMMA BottomIs ==
    ASSUME NEW n \in Nat, NEW S, NEW row \in [1 .. n -> S], NEW x \in S,
           NEW q \in 1 .. n, row[q] = x, \A i \in 1 .. n : row[i] = x => i = q
    PROVE  PutLast(n, S, row, x, q, Photos!ToBottom(row, x))
<1>1. row \in Seq(S) /\ Len(row) = n
  OBVIOUS
<1>2. (CHOOSE k \in 1 .. Len(row) : row[k] = x) = q
  BY <1>1
<1> DEFINE a == SubSeq(row, 1, q - 1)
           b == SubSeq(row, q + 1, n)
           r == a \o b
<1>3. a = [i \in 1 .. (q - 1) |-> row[i]]
  BY <1>1
<1>4. b = [i \in 1 .. (n - q) |-> row[i + q]]
  BY <1>1
<1>5. a \in Seq(S) /\ Len(a) = q - 1
  BY <1>1, <1>3
<1>6. b \in Seq(S) /\ Len(b) = n - q
  BY <1>1, <1>4
<1>7. Photos!ToBottom(row, x) = Append(r, x)
  BY <1>1, <1>2 DEF Photos!ToBottom, Photos!RemoveAt
<1> HIDE DEF a, b
<1>8. r \in Seq(S) /\ Len(r) = n - 1
  BY <1>5, <1>6
<1>9. \A i \in 1 .. (n - 1) : r[i] = IF i < q THEN row[i] ELSE row[i + 1]
  <2>1. \A i \in 1 .. (n - 1) : r[i] = IF i < q THEN a[i] ELSE b[i - (q - 1)]
    BY <1>5, <1>6
  <2>2. \A i \in 1 .. (n - 1) : i >= q => b[i - (q - 1)] = row[i + 1]
    <3>1. \A i \in 1 .. (n - 1) : i >= q => i - (q - 1) \in 1 .. (n - q) /\ (i - (q - 1)) + q = i + 1
      OBVIOUS
    <3> QED
      BY <1>4, <3>1
  <2>3. \A i \in 1 .. (n - 1) : i < q => a[i] = row[i]
    BY <1>3
  <2>4. ASSUME NEW i \in 1 .. (n - 1) PROVE r[i] = IF i < q THEN row[i] ELSE row[i + 1]
    <3>1. CASE i < q
      BY <2>1, <2>3, <3>1
    <3>2. CASE ~(i < q)
      <4>1. i >= q
        BY <3>2
      <4> QED
        BY <2>1, <2>2, <3>2, <4>1
    <3> QED
      BY <3>1, <3>2
  <2> QED
    BY <2>4
<1> HIDE DEF r
<1> DEFINE t == Append(r, x)
<1>10. t \in Seq(S) /\ Len(t) = n
  BY <1>8
<1>11. \A i \in 1 .. n : t[i] = IF i = n THEN x ELSE r[i]
  BY <1>8
<1> HIDE DEF t
<1>12. t \in [1 .. n -> S]
  BY <1>10
<1>13. t[n] = x /\ \A i \in 1 .. (n - 1) : t[i] = IF i < q THEN row[i] ELSE row[i + 1]
  BY <1>9, <1>11
<1> QED
  BY <1>7, <1>12, <1>13 DEF t, PutLast

\* A movie without a poster goes to the end of those that are gone.
LEMMA PartingGoes ==
    ASSUME NEW n \in Nat, NEW bare \in [1 .. n -> BOOLEAN], NEW k \in 1 .. n,
           NEW row, Parting(n, bare, k - 1, row)
    PROVE  /\ bare[k] => Parting(n, bare, k, Photos!ToBottom(row, <<bare[k], k>>))
           /\ ~bare[k] => Parting(n, bare, k, row)
<1> DEFINE S == {<<bare[i], i>> : i \in 1 .. n}
           x == <<bare[k], k>>
<1>1. row \in [1 .. n -> S]
  BY DEF Parting
<1>2. ASSUME NEW y \in S PROVE \E i \in 1 .. n : y = <<bare[i], i>>
  OBVIOUS
<1>3. ASSUME NEW y \in S, y # x \/ ~bare[k] PROVE Gone(k, y) <=> Gone(k - 1, y)
  <2>1. PICK i \in 1 .. n : y = <<bare[i], i>>
    BY <1>2
  <2>2. y[1] = bare[i] /\ y[2] = i
    BY <2>1
  <2>3. i = k => ~bare[i]
    BY <1>3, <2>1
  <2> QED
    BY <2>2, <2>3 DEF Gone
<1>4. ASSUME ~bare[k] PROVE Parting(n, bare, k, row)
  <2>1. \A i \in 1 .. n : Gone(k, row[i]) <=> Gone(k - 1, row[i])
    BY <1>1, <1>3, <1>4
  <2> QED
    BY <2>1 DEF Parting
<1>5. ASSUME bare[k] PROVE Parting(n, bare, k, Photos!ToBottom(row, x))
  <2>1. PICK q \in 1 .. n : row[q] = x
    BY DEF Parting
  <2>2. \A i, j \in 1 .. n : i < j => row[i] # row[j]
    <3>1. ASSUME NEW i \in 1 .. n, NEW j \in 1 .. n, i < j, row[i] = row[j] PROVE FALSE
      <4>1. row[i][2] < row[i][2]
        BY <3>1 DEF Parting
      <4>2. PICK l \in 1 .. n : row[i] = <<bare[l], l>>
        BY <1>1
      <4>3. row[i][2] = l
        BY <4>2
      <4> QED
        BY <4>1, <4>3
    <3> QED
      BY <3>1
  <2>3. \A i \in 1 .. n : row[i] = x => i = q
    BY <2>1, <2>2
  <2> DEFINE new == Photos!ToBottom(row, x)
             Old(i) == IF i < q THEN i ELSE i + 1
  <2>4. /\ new \in [1 .. n -> S] /\ new[n] = x
        /\ \A i \in 1 .. (n - 1) : new[i] = IF i < q THEN row[i] ELSE row[i + 1]
    <3>1. x \in S
      OBVIOUS
    <3> HIDE DEF S, x
    <3>2. PutLast(n, S, row, x, q, new)
      BY <1>1, <2>1, <2>3, <3>1, BottomIs
    <3> HIDE DEF new
    <3> QED
      BY <3>2 DEF PutLast
  <2> HIDE DEF new
  <2>5. new[n] = x /\ \A i \in 1 .. (n - 1) : new[i] = row[Old(i)]
    BY <2>4
  <2>6. \A i \in 1 .. (n - 1) : Old(i) \in 1 .. n /\ Old(i) # q
    OBVIOUS
  <2>7. \A i, j \in 1 .. (n - 1) : i < j => Old(i) < Old(j)
    OBVIOUS
  <2>8. \A j \in 1 .. n : j = q \/ \E i \in 1 .. (n - 1) : Old(i) = j
    <3>1. ASSUME NEW j \in 1 .. n, j < q PROVE \E i \in 1 .. (n - 1) : Old(i) = j
      <4>1. j \in 1 .. (n - 1) /\ Old(j) = j
        BY <3>1
      <4> QED
        BY <4>1
    <3>2. ASSUME NEW j \in 1 .. n, j > q PROVE \E i \in 1 .. (n - 1) : Old(i) = j
      <4>1. j - 1 \in 1 .. (n - 1) /\ Old(j - 1) = j
        BY <3>2
      <4> QED
        BY <4>1
    <3> HIDE DEF Old
    <3>3. \A j \in 1 .. n : j < q \/ j = q \/ j > q
      OBVIOUS
    <3> QED
      BY <3>1, <3>2, <3>3
  <2> HIDE DEF Old
  <2>9. \A i \in 1 .. (n - 1) : /\ new[i] \in S /\ new[i] # x
                                /\ Gone(k, new[i]) <=> Gone(k - 1, row[Old(i)])
    <3> TAKE i \in 1 .. (n - 1)
    <3>1. new[i] = row[Old(i)] /\ Old(i) \in 1 .. n /\ Old(i) # q
      BY <2>5, <2>6
    <3>2. new[i] \in S /\ new[i] # x
      BY <1>1, <2>3, <3>1
    <3> HIDE DEF S, x
    <3> QED
      BY <1>3, <3>1, <3>2
  <2>11. \A i \in 1 .. n : \E j \in 1 .. n : new[j] = <<bare[i], i>>
    <3> TAKE i \in 1 .. n
    <3>1. PICK l \in 1 .. n : row[l] = <<bare[i], i>>
      BY DEF Parting
    <3>2. CASE l = q
      BY <2>1, <2>5, <3>1, <3>2
    <3>3. CASE l # q
      <4>1. PICK j \in 1 .. (n - 1) : Old(j) = l
        BY <2>8, <3>3
      <4>2. new[j] = <<bare[i], i>> /\ j \in 1 .. n
        BY <2>5, <3>1, <4>1
      <4> QED
        BY <4>2
    <3> QED
      BY <3>2, <3>3
  <2>12. ASSUME NEW i \in 1 .. n, NEW j \in 1 .. n, i < j
         PROVE  \/ ~Gone(k, new[i]) /\ Gone(k, new[j])
                \/ (Gone(k, new[i]) <=> Gone(k, new[j])) /\ new[i][2] < new[j][2]
    <3>1. CASE j < n
      <4>1. i \in 1 .. (n - 1) /\ j \in 1 .. (n - 1)
        BY <2>12, <3>1
      <4>2. Old(i) < Old(j) /\ Old(i) \in 1 .. n /\ Old(j) \in 1 .. n
        BY <2>6, <2>7, <2>12, <4>1
      <4>3. \/ ~Gone(k - 1, row[Old(i)]) /\ Gone(k - 1, row[Old(j)])
            \/ /\ Gone(k - 1, row[Old(i)]) <=> Gone(k - 1, row[Old(j)])
               /\ row[Old(i)][2] < row[Old(j)][2]
        BY <4>2 DEF Parting
      <4> QED
        BY <2>5, <2>9, <4>1, <4>3
    <3>2. CASE j = n
      <4>1. i \in 1 .. (n - 1)
        BY <2>12, <3>2
      <4>2. x[1] = bare[k] /\ x[2] = k
        OBVIOUS
      <4>3. Gone(k, new[j])
        <5>1. new[j][1] = bare[k] /\ new[j][2] = k
          BY <2>5, <3>2, <4>2
        <5> QED
          BY <1>5, <5>1 DEF Gone
      <4>4. PICK l \in 1 .. n : new[i] = <<bare[l], l>>
        BY <2>9, <4>1
      <4>5. new[i][2] = l /\ l # k
        BY <2>9, <4>1, <4>4
      <4>6. Gone(k, new[i]) => new[i][2] < k
        BY <4>5 DEF Gone
      <4> QED
        BY <2>5, <3>2, <4>2, <4>3, <4>6
    <3> QED
      BY <3>1, <3>2
  <2> QED
    BY <2>4, <2>11, <2>12 DEF Parting, new
<1> QED
  BY <1>4, <1>5

\* The lists that the movies go through.
Moves(k, lists) ==
    lists = [i \in 0 .. k |-> IF i = 0 THEN movies
                              ELSE IF movies[i][1] THEN Photos!ToBottom(lists[i - 1], movies[i])
                              ELSE lists[i - 1]]

\* There are such lists.
LEMMA MovesGo == ASSUME NEW n \in Nat PROVE \E lists : Moves(n, lists)
<1> DEFINE Bad == {k \in 0 .. n : ~ \E lists : Moves(k, lists)}
           Then(i, row) == IF movies[i][1] THEN Photos!ToBottom(row, movies[i]) ELSE row
<1>1. ASSUME NEW k \in Nat, NEW lists
      PROVE  Moves(k, lists) <=>
                /\ lists = [i \in 0 .. k |-> lists[i]]
                /\ \A i \in 0 .. k : lists[i] = IF i = 0 THEN movies ELSE Then(i, lists[i - 1])
  <2> DEFINE again == [i \in 0 .. k |-> IF i = 0 THEN movies ELSE Then(i, lists[i - 1])]
  <2>1. Moves(k, lists) <=> lists = again
    BY DEF Moves
  <2>2. /\ again = [i \in 0 .. k |-> again[i]]
        /\ \A i \in 0 .. k : again[i] = IF i = 0 THEN movies ELSE Then(i, lists[i - 1])
    OBVIOUS
  <2> HIDE DEF again, Then
  <2> QED
    BY <2>1, <2>2
<1> HIDE DEF Then
<1>2. ASSUME NEW k \in Bad, \A j \in Bad : k <= j PROVE FALSE
  <2>1. CASE k = 0
    <3>1. Moves(0, [i \in 0 .. 0 |-> movies])
      <4> DEFINE one == [i \in 0 .. 0 |-> movies]
      <4>1. one = [i \in 0 .. 0 |-> one[i]] /\ \A i \in 0 .. 0 : i = 0 /\ one[i] = movies
        OBVIOUS
      <4> HIDE DEF one
      <4>2. Moves(0, one)
        BY <1>1, <4>1
      <4> QED
        BY <4>2 DEF one
    <3> QED
      BY <1>2, <2>1, <3>1
  <2>2. CASE k > 0
    <3>1. k \in Nat /\ k >= 1 /\ k - 1 \in 0 .. n /\ k - 1 \in Nat /\ k - 1 \notin Bad
      BY <1>2, <2>2
    <3>2. PICK lists : Moves(k - 1, lists)
      BY <3>1
    <3>3. \A i \in 0 .. (k - 1) : lists[i] = IF i = 0 THEN movies ELSE Then(i, lists[i - 1])
      BY <1>1, <3>1, <3>2
    <3> DEFINE next == [i \in 0 .. k |-> IF i < k THEN lists[i] ELSE Then(k, lists[k - 1])]
    <3>4. \A i \in 0 .. k : next[i] = IF i = 0 THEN movies ELSE Then(i, next[i - 1])
      <4>1. next[k - 1] = lists[k - 1]
        BY <3>1
      <4>2. next[k] = Then(k, next[k - 1])
        BY <3>1, <4>1
      <4>3. ASSUME NEW i \in 0 .. (k - 1)
            PROVE  next[i] = lists[i] /\ (i # 0 => next[i - 1] = lists[i - 1])
        BY <3>1
      <4> HIDE DEF next
      <4>4. ASSUME NEW i \in 0 .. (k - 1)
            PROVE  next[i] = IF i = 0 THEN movies ELSE Then(i, next[i - 1])
        BY <3>3, <4>3
      <4> QED
        BY <3>1, <4>2, <4>4
    <3>5. next = [i \in 0 .. k |-> next[i]]
      BY <3>1
    <3>6. Moves(k, next)
      <4> HIDE DEF next
      <4> QED
        BY <1>1, <3>1, <3>4, <3>5
    <3> QED
      BY <1>2, <3>6
  <2> QED
    BY <1>2, <2>1, <2>2
<1>3. Bad = {}
  <2>1. Bad \in SUBSET Nat
    OBVIOUS
  <2> HIDE DEF Bad
  <2> QED
    BY <1>2, <2>1, Least
<1> QED
  BY <1>3

\* When all turns are over, those that are gone are those without a poster.
LEMMA BottomHolds == PhotosInv => Photos!BottomRight
<1> SUFFICES ASSUME PhotosInv PROVE Photos!BottomRight
  OBVIOUS
<1> DEFINE n == length
<1>1. n \in Nat
  BY DEF PhotosInv
<1>2. PICK bare \in [1 .. n -> BOOLEAN] : movies = [i \in 1 .. n |-> <<bare[i], i>>]
  BY DEF PhotosInv
<1> DEFINE moved == CHOOSE lists : Moves(n, lists)
<1>3. Photos!MoveNoDataMoviesToBottom = moved[n]
  BY DEF Photos!MoveNoDataMoviesToBottom, Moves
<1>4. Moves(n, moved)
  BY <1>1, MovesGo
<1> HIDE DEF moved
<1>5. /\ moved[0] = movies
      /\ \A i \in 1 .. n : moved[i] = IF movies[i][1] THEN Photos!ToBottom(moved[i - 1], movies[i])
                                      ELSE moved[i - 1]
  <2>1. moved = [i \in 0 .. n |-> IF i = 0 THEN movies
                              ELSE IF movies[i][1] THEN Photos!ToBottom(moved[i - 1], movies[i])
                              ELSE moved[i - 1]]
    BY <1>4 DEF Moves
  <2> QED
    BY <1>1, <2>1
<1> HIDE DEF n
<1> DEFINE Bad == {k \in 0 .. n : ~Parting(n, bare, k, moved[k])}
<1>6. ASSUME NEW k \in Bad, \A j \in Bad : k <= j PROVE FALSE
  <2>1. CASE k = 0
    <3> DEFINE S == {<<bare[i], i>> : i \in 1 .. n}
    <3>1. movies \in [1 .. n -> S] /\ \A i \in 1 .. n : movies[i] = <<bare[i], i>>
      BY <1>2
    <3>2. \A i \in 1 .. n : ~Gone(0, movies[i]) /\ movies[i][2] = i
      BY <1>1, <3>1 DEF Gone
    <3>3. Parting(n, bare, 0, movies)
      BY <1>1, <3>1, <3>2 DEF Parting
    <3> QED
      BY <1>5, <1>6, <2>1, <3>3
  <2>2. CASE k > 0
    <3>1. k \in 1 .. n /\ k - 1 \in 0 .. n /\ k - 1 \notin Bad
      BY <1>1, <1>6, <2>2
    <3>2. Parting(n, bare, k - 1, moved[k - 1])
      BY <3>1
    <3>3. movies[k] = <<bare[k], k>> /\ movies[k][1] = bare[k]
      BY <1>2, <3>1
    <3>4. moved[k] = IF bare[k] THEN Photos!ToBottom(moved[k - 1], <<bare[k], k>>) ELSE moved[k - 1]
      BY <1>5, <3>1, <3>3
    <3>5. /\ bare[k] => Parting(n, bare, k, Photos!ToBottom(moved[k - 1], <<bare[k], k>>))
          /\ ~bare[k] => Parting(n, bare, k, moved[k - 1])
      BY <1>1, <3>1, <3>2, PartingGoes
    <3>6. Parting(n, bare, k, moved[k])
      BY <3>4, <3>5
    <3> QED
      BY <1>6, <3>6
  <2> QED
    BY <1>1, <1>6, <2>1, <2>2
<1>7. Bad = {}
  <2>1. Bad \in SUBSET Nat
    OBVIOUS
  <2> HIDE DEF Bad
  <2> QED
    BY <1>6, <2>1, Least
<1> DEFINE last == moved[n]
           S == {<<bare[i], i>> : i \in 1 .. n}
<1>8. Parting(n, bare, n, last)
  BY <1>1, <1>7
<1> HIDE DEF last
<1>9. last \in [1 .. n -> S] /\ \A i \in 1 .. n : \E j \in 1 .. n : last[j] = <<bare[i], i>>
  BY <1>8 DEF Parting
<1>10. Len(last) = n /\ DOMAIN last = 1 .. n
  BY <1>1, <1>9
<1>11. Photos!ToSet(last) = S
  <2>1. ASSUME NEW y \in S PROVE \E j \in 1 .. n : last[j] = y
    BY <1>9
  <2> HIDE DEF S
  <2> QED
    BY <1>9, <1>10, <2>1 DEF Photos!ToSet
<1>12. Photos!ToSet(movies) = S
  BY <1>2 DEF Photos!ToSet
<1>13. \A i \in 1 .. n : last[i][1] \in BOOLEAN /\ (Gone(n, last[i]) <=> last[i][1])
  <2> TAKE i \in 1 .. n
  <2>1. PICK l \in 1 .. n : last[i] = <<bare[l], l>>
    <3>1. last[i] \in S
      BY <1>9
    <3> QED
      BY <3>1
  <2>2. last[i][1] = bare[l] /\ last[i][2] = l /\ l <= n /\ bare[l] \in BOOLEAN
    BY <1>1, <2>1
  <2> QED
    BY <2>2 DEF Gone
<1>14. \A i, j \in 1 .. n : i < j =>
          \/ ~last[i][1] /\ last[j][1]
          \/ last[i][1] = last[j][1] /\ last[i][2] < last[j][2]
  <2> TAKE i, j \in 1 .. n
  <2> HAVE i < j
  <2>1. \/ ~Gone(n, last[i]) /\ Gone(n, last[j])
        \/ (Gone(n, last[i]) <=> Gone(n, last[j])) /\ last[i][2] < last[j][2]
    BY <1>8 DEF Parting
  <2> QED
    BY <1>13, <2>1
<1> HIDE DEF S
<1> QED
  BY <1>3, <1>10, <1>11, <1>12, <1>14 DEF Photos!BottomRight, n, last

LEMMA PhotosHold == PhotosInv => PhotosRight
BY ShuffleHolds, SliceHolds, BottomHolds DEF PhotosRight, Photos!PhotosRight

\* Every order of the photos comes from draws of its own, and neither list loses or
\* repeats anything, however long the lists are.
THEOREM PhotosTheorem == Photos!Spec => []PhotosRight
BY PhotosInit, PhotosNext, PhotosHold, PTL DEF Photos!Spec

-----------------------------------------------------------------------------
\* The parts together.

\* A behaviour of the whole is one of each part.
LEMMA PartSpecs ==
    FairPart => Spec /\ DomViews!Spec /\ Player!Spec /\ Session!Spec /\ Photos!Spec
<1>1. InitPart => Init /\ DomViews!Init /\ Player!Init /\ Session!Init /\ Photos!Init
  BY DEF InitPart
<1>2. [NextPart]_<<subject, vars, viewsVars, playerVars, sessionVars, photosVars>> =>
        /\ [Next]_vars /\ [DomViews!Next]_(DomViews!vars)
        /\ [Player!Next]_(Player!vars) /\ [Session!Next]_(Session!vars)
        /\ [Photos!Next]_(Photos!vars)
  BY DEF NextPart, vars, viewsVars, playerVars, sessionVars, photosVars, DomViews!vars,
     Session!vars, Player!vars, Photos!vars,
         Player!session, Player!logging, Player!playlist, Player!history
<1> QED
  BY <1>1, <1>2, PTL DEF FairPart, Spec, DomViews!Spec, Player!Spec, Session!Spec,
     Photos!Spec

\* Everything above holds of the scripts together.
THEOREM AppTheorem ==
    FairPart => /\ [](StuckHasCause /\ ViewsOwn /\ PlaybackOwn /\ PhotosRight)
                /\ KeepsPromise /\ Session!LoggedOut
BY PartSpecs, StuckTheorem, PromiseTheorem, ViewsTheorem, PlaybackTheorem,
   LoggedOutTheorem, PhotosTheorem, PTL

-----------------------------------------------------------------------------
\* The showtimes.

Calling == 0 .. MaxParts

ShowType ==
    /\ list \in {"root", "list", "movie"} /\ location \in BOOLEAN
    /\ handled \in [Calls -> Showtimes!Kinds \union {Nothing}]
    /\ entry \in Calls \union {Nothing} /\ starting \in Calls \union {Nothing}
    /\ navigated \in Calls \union {Nothing}
    /\ aborting \subseteq Calls \X Calling /\ tracked \subseteq Calls \X Calling
    /\ req \in [Calls -> [Calling -> {"none", "sent", "done"}]]
    /\ number \in Nat /\ succeeded \in Nat /\ complete \in [Calls -> Nat]
    /\ shows \in [Calls -> 0 .. 2] /\ spinner \in BOOLEAN
    /\ shaken \subseteq Calls /\ puzzled \subseteq Calls /\ hurt \subseteq Calls /\ byId \subseteq Calls

\* A navigation is aborting what came before it.
Cancelling == starting # Nothing /\ handled[starting] = "nav"

\* A handler is one of its page, and asks for nothing before it starts.
Untouched(c) == shows[c] = 0 /\ complete[c] = 0 /\ \A i \in Calling : req[c][i] = "none"
Begun ==
    /\ \A c \in Calls : handled[c] \in Showtimes!Handlers[list] \union {Nothing}
    /\ \A c \in Calls : handled[c] = Nothing \/ starting = c \/ entry = c => Untouched(c)
    /\ entry = Nothing \/ starting = Nothing
    /\ entry # Nothing => handled[entry] \notin {Nothing, "nav"}
    /\ starting # Nothing => handled[starting] # Nothing
    /\ navigated # Nothing => handled[navigated] = "nav"

\* What is tracked is known to the handler that aborts; a movie's own request has
\* no later one that could have taken its place.
Aborts ==
    /\ aborting # {} => Cancelling
    /\ \A c \in Calls, i \in Calling : <<c, i>> \in aborting => req[c][i] = "sent"
    /\ Cancelling => tracked = {}
    /\ \A c \in Calls : req[c][0] = "sent" => <<c, 0>> \in tracked \union aborting
    /\ \A c \in Calls, i \in Calling :
          handled[c] = "nav" /\ c # navigated /\ req[c][i] = "sent" => <<c, i>> \notin tracked

\* Whose counters nobody else uses.
Meets ==
    \A c, d \in Calls :
        c # d /\ Showtimes!InFlight(c) /\ Showtimes!InFlight(d) /\ Showtimes!Shares(c, d)
            => c \in shaken

Before(c) == Showtimes!Sent(c) = {0} /\ complete[c] = 0
Parted(c) == 0 \notin Showtimes!Sent(c)
Open(c)   == complete[c] + Cardinality(Showtimes!Sent(c))

\* ... counts its replies right, and is not shown before the last one.
Counts ==
    \A c \in Calls : Showtimes!InFlight(c) =>
        IF handled[c] \in Showtimes!Movies
        THEN c \notin shaken => shows[c] = 0 /\ (Before(c) \/ (Parted(c) /\ Open(c) <= number))
        ELSE shows[c] = 0 /\ Showtimes!Sent(c) = {1}

\* Spinners.
Spins ==
    /\ navigated # Nothing /\ ~Cancelling /\ navigated \notin shaken =>
          /\ Showtimes!InFlight(navigated) => Before(navigated) \/ Open(navigated) = number
          /\ Showtimes!InFlight(navigated) /\ navigated \notin hurt => spinner
          /\ ~Showtimes!InFlight(navigated) /\ navigated \notin puzzled => ~spinner
    /\ list = "list" /\ (\A c \in Calls : handled[c] = "change" => c \notin shaken) =>
          (spinner <=> \E c \in Calls : handled[c] = "change" /\ Showtimes!InFlight(c))

ShowInv == ShowType /\ Begun /\ Aborts /\ Meets /\ Counts /\ Spins

HIDE AppAssumption DEF AppAssumption, DomViews!NamesAssumption, Player!PlayerAssumption

\* The constants are what the lemmas below assume of them.
LEMMA ShowtimesAssumed == Showtimes!PartsAssumption /\ Showtimes!CallsAssumption
BY PagesAssumption

USE ShowtimesAssumed DEF Showtimes!PartsAssumption, Showtimes!CallsAssumption, Calling

-----------------------------------------------------------------------------
\* What the parts of an action do.

\* The handlers of each page.
LEMMA HandlersAre ==
    /\ Showtimes!Handlers["root"] = {"browse", "default"}
    /\ Showtimes!Handlers["list"] = {"open", "change"}
    /\ Showtimes!Handlers["movie"] = {"nav", "swap"}
    /\ Showtimes!Kinds = {"browse", "default", "open", "change", "nav", "swap"}
    /\ Nothing \notin Showtimes!Kinds \union Calls
    /\ \A p : p \in {"root", "list", "movie"} => Showtimes!Handlers[p] \subseteq Showtimes!Kinds
    /\ MaxParts \in Nat \ {0} /\ Showtimes!Movies = {"nav", "open", "swap"}
<1>1. /\ DOMAIN Showtimes!Handlers = {"root", "list", "movie"}
      /\ Showtimes!Handlers["root"] = {"browse", "default"}
      /\ Showtimes!Handlers["list"] = {"open", "change"}
      /\ Showtimes!Handlers["movie"] = {"nav", "swap"}
  BY DEF Showtimes!Handlers
<1>2. Showtimes!Kinds = {"browse", "default", "open", "change", "nav", "swap"}
  BY <1>1 DEF Showtimes!Kinds
<1> QED
  BY <1>1, <1>2 DEF Showtimes!Movies

\* Requests are counted.
LEMMA SentFinite ==
    ASSUME ShowType, NEW c \in Calls
    PROVE  /\ Showtimes!Sent(c) \subseteq Calling /\ IsFiniteSet(Showtimes!Sent(c))
           /\ Cardinality(Showtimes!Sent(c)) \in Nat
<1>1. Showtimes!Sent(c) \subseteq Calling
  BY DEF Showtimes!Sent
<1>2. IsFiniteSet(Calling)
  <2>1. 0 \in Int /\ MaxParts \in Int
    BY HandlersAre
  <2> QED
    BY <2>1, FS_Interval
<1> HIDE DEF Calling
<1>3. IsFiniteSet(Showtimes!Sent(c))
  BY <1>1, <1>2, FS_Subset
<1> QED
  BY <1>1, <1>3, FS_CardinalityType

\* A request that is answered or given up is one less.
LEMMA DoneMoves ==
    ASSUME ShowType, NEW c \in Calls, NEW i \in Calling, Showtimes!Done(c, i), req[c][i] = "sent"
    PROVE  /\ req' \in [Calls -> [Calling -> {"none", "sent", "done"}]] /\ tracked' = tracked
           /\ \A d \in Calls \ {c} : req'[d] = req[d]
           /\ \A j \in Calling : req'[c][j] = "sent" <=> req[c][j] = "sent" /\ j # i
           /\ \A d \in Calls \ {c} : Showtimes!Sent(d)' = Showtimes!Sent(d)
           /\ Showtimes!Sent(c)' = Showtimes!Sent(c) \ {i} /\ i \in Showtimes!Sent(c)
           /\ Cardinality(Showtimes!Sent(c)') = Cardinality(Showtimes!Sent(c)) - 1
<1>1. req' = [req EXCEPT ![c] = [req[c] EXCEPT ![i] = "done"]] /\ tracked' = tracked
  BY DEF Showtimes!Done
<1>2. /\ req' \in [Calls -> [Calling -> {"none", "sent", "done"}]]
      /\ \A d \in Calls \ {c} : req'[d] = req[d]
      /\ \A j \in Calling : req'[c][j] = IF j = i THEN "done" ELSE req[c][j]
  BY <1>1 DEF ShowType
<1>3. /\ \A d \in Calls \ {c} : Showtimes!Sent(d)' = Showtimes!Sent(d)
      /\ Showtimes!Sent(c)' = Showtimes!Sent(c) \ {i} /\ i \in Showtimes!Sent(c)
  BY <1>2 DEF Showtimes!Sent
<1>4. Cardinality(Showtimes!Sent(c) \ {i}) = Cardinality(Showtimes!Sent(c)) - 1
  BY <1>3, SentFinite, FS_RemoveElement
<1> QED
  BY <1>1, <1>2, <1>3, <1>4

\* A handler's requests are those that are sent after it.
LEMMA SendMoves ==
    ASSUME ShowType, NEW c \in Calls, NEW parts \in SUBSET Calling, Showtimes!Send(c, parts)
    PROVE  /\ req' \in [Calls -> [Calling -> {"none", "sent", "done"}]]
           /\ \A d \in Calls \ {c} : req'[d] = req[d]
           /\ \A d \in Calls \ {c} : Showtimes!Sent(d)' = Showtimes!Sent(d)
           /\ Showtimes!Sent(c)' = parts
           /\ tracked \subseteq tracked' /\ tracked' \subseteq tracked \union ({c} \X parts)
           /\ 0 \in parts /\ parts = {0} => <<c, 0>> \in tracked'
<1>1. /\ req' = [req EXCEPT ![c] = [j \in Calling |-> IF j \in parts THEN "sent"
                                       ELSE IF req[c][j] = "sent" THEN "done" ELSE req[c][j]]]
  BY DEF Showtimes!Send
<1>2. PICK lost \in SUBSET parts :
        /\ \A j \in lost : \E k \in parts : j < k
        /\ tracked' = tracked \union ({c} \X (parts \ lost))
  BY DEF Showtimes!Send
<1>3. /\ req' \in [Calls -> [Calling -> {"none", "sent", "done"}]]
      /\ \A d \in Calls \ {c} : req'[d] = req[d]
      /\ \A j \in Calling : req'[c][j] = "sent" <=> j \in parts
  BY <1>1 DEF ShowType
<1>4. /\ \A d \in Calls \ {c} : Showtimes!Sent(d)' = Showtimes!Sent(d)
      /\ Showtimes!Sent(c)' = parts
  BY <1>3 DEF Showtimes!Sent
<1>5. ASSUME parts = {0} PROVE <<c, 0>> \in tracked'
  <2>1. 0 \notin lost
    BY <1>2, <1>5
  <2> QED
    BY <1>2, <1>5, <2>1
<1> QED
  BY <1>2, <1>3, <1>4, <1>5

\* What the end of a call does to the spinner, and that it is shown.
Ends(c) ==
    /\ shows' \in [Calls -> 0 .. 2] /\ \A d \in Calls \ {c} : shows'[d] = shows[d]
    /\ spinner' \in BOOLEAN
    /\ handled[c] \notin {"nav", "change"} => spinner' = spinner
    /\ handled[c] = "nav" => ~spinner'
    /\ handled[c] = "change" /\ spinner => ~spinner'

LEMMA FailedEnds ==
    ASSUME ShowType, NEW c \in Calls, Showtimes!Failed(c)
    PROVE  Ends(c) /\ shows' = shows
<1>1. shows' = shows /\ spinner' = Showtimes!StopSpinner(c)
  BY DEF Showtimes!Failed
<1>2. /\ handled[c] = "nav" => Showtimes!StopSpinner(c) = FALSE
      /\ handled[c] = "change" => Showtimes!StopSpinner(c) = ~spinner
      /\ handled[c] \notin {"nav", "change"} => Showtimes!StopSpinner(c) = spinner
  BY DEF Showtimes!StopSpinner, Showtimes!Toggled
<1> QED
  BY <1>1, <1>2 DEF Ends, ShowType

LEMMA ShownEnds ==
    ASSUME ShowType, NEW c \in Calls, Showtimes!Shown(c) \/ Showtimes!ShownNowhere(c)
    PROVE  Ends(c)
<1>1. shows' \in [Calls -> 0 .. 2] /\ \A d \in Calls \ {c} : shows'[d] = shows[d]
  <2>1. shows \in [Calls -> 0 .. 2] /\ shows[c] \in 0 .. 2
    BY DEF ShowType
  <2>2. PICK n \in 0 .. 2 : shows' = [shows EXCEPT ![c] = n]
    BY <2>1 DEF Showtimes!Shown, Showtimes!ShownNowhere
  <2> QED
    BY <2>1, <2>2
<1>2. \/ spinner' = (spinner /\ handled[c] \notin {"nav", "change"})
      \/ spinner' = spinner /\ handled[c] \in {"open", "swap"}
  BY DEF Showtimes!Shown, Showtimes!ShownNowhere, Showtimes!Proxied
<1> QED
  BY <1>1, <1>2 DEF Ends, ShowType

LEMMA SuccessEnds ==
    ASSUME ShowType, NEW c \in Calls, Showtimes!Success(c)
    PROVE  \/ Ends(c) /\ puzzled' = puzzled
           \/ /\ puzzled' = puzzled \union {c} /\ handled[c] = "browse"
              /\ shows' = shows /\ spinner' = spinner
BY FailedEnds, ShownEnds DEF Showtimes!Success, Showtimes!ui

-----------------------------------------------------------------------------
\* Each action keeps the invariant.

\* A request that is on its way belongs to a call that has started.
LEMMA Flying ==
    ASSUME ShowInv, NEW c \in Calls, NEW i \in Calling, req[c][i] = "sent"
    PROVE  /\ handled[c] \in Showtimes!Handlers[list] /\ handled[c] \in Showtimes!Kinds
           /\ starting # c /\ entry # c
           /\ Showtimes!InFlight(c) /\ i \in Showtimes!Sent(c)
<1>1. ~Untouched(c) /\ i \in Showtimes!Sent(c)
  BY DEF Untouched, Showtimes!Sent
<1>2. handled[c] # Nothing /\ starting # c /\ entry # c
  BY <1>1 DEF ShowInv, Begun
<1> QED
  BY <1>1, <1>2, HandlersAre DEF ShowInv, Begun, ShowType, Showtimes!InFlight

\* Where a navigation was asked for, every call is one of a movie's page.
LEMMA OnMovie ==
    ASSUME ShowInv, navigated # Nothing \/ Cancelling
    PROVE  /\ list = "movie"
           /\ \A c \in Calls : handled[c] \in {"nav", "swap", Nothing}
<1>1. \E c \in Calls : handled[c] = "nav"
  BY DEF ShowInv, ShowType, Begun, Cancelling
<1> QED
  BY <1>1, HandlersAre DEF ShowInv, ShowType, Begun

\* The viewer calls a handler.
LEMMA CallStep ==
    ASSUME ShowInv, NEW c \in Calls, NEW k, Showtimes!Call(c, k),
           \/ k # "nav" /\ starting' = c /\ entry' = entry /\ UNCHANGED <<aborting, tracked>>
           \/ k # "nav" /\ entry' = c /\ starting' = starting /\ UNCHANGED <<aborting, tracked>>
           \/ /\ k = "nav" /\ starting' = c /\ entry' = entry /\ tracked' = {}
              /\ aborting' = {r \in tracked : req[r[1]][r[2]] = "sent"}
    PROVE  ShowInv'
<1>1. /\ entry = Nothing /\ starting = Nothing /\ handled[c] = Nothing
      /\ k \in Showtimes!Handlers[list] /\ handled' = [handled EXCEPT ![c] = k]
      /\ UNCHANGED <<list, location, byId, navigated, req, number, succeeded, complete, shows,
                     spinner, shaken, puzzled, hurt>>
  BY DEF Showtimes!Call, Showtimes!counts, Showtimes!history
<1>2. /\ k \in Showtimes!Kinds /\ k # Nothing /\ c # Nothing
      /\ handled'[c] = k /\ \A d \in Calls \ {c} : handled'[d] = handled[d]
  BY <1>1, HandlersAre DEF ShowInv, ShowType
<1>3. ~Cancelling /\ aborting = {}
  BY <1>1 DEF Cancelling, ShowInv, Aborts
<1>4. /\ \A d \in Calls : Showtimes!Sent(d)' = Showtimes!Sent(d)
      /\ \A d \in Calls : Showtimes!InFlight(d)' = Showtimes!InFlight(d)
      /\ ~Showtimes!InFlight(c) /\ c # navigated
  <2>1. Untouched(c) /\ c # navigated
    BY <1>1, <1>2, HandlersAre DEF ShowInv, Begun
  <2> QED
    BY <1>1, <2>1 DEF Showtimes!Sent, Showtimes!InFlight, Untouched, Calling
<1>5. ShowType'
  BY <1>1, <1>2 DEF ShowInv, ShowType
<1>6. Begun'
  BY <1>1, <1>2, <1>4 DEF ShowInv, ShowType, Begun, Untouched
<1>7. Aborts'
  <2>1. CASE k # "nav"
    <3>1. ~Cancelling'
      BY <1>1, <1>2, <2>1 DEF Cancelling
    <3> QED
      BY <1>1, <1>2, <1>3, <2>1, <3>1 DEF ShowInv, Aborts
  <2>2. CASE k = "nav"
    <3>1. Cancelling' /\ tracked' = {} /\ aborting' = {r \in tracked : req[r[1]][r[2]] = "sent"}
      BY <1>2, <2>2 DEF Cancelling
    <3> QED
      BY <1>1, <1>3, <3>1 DEF ShowInv, ShowType, Aborts
  <2> QED
    BY <2>1, <2>2
<1>8. Meets'
  BY <1>1, <1>2, <1>4 DEF ShowInv, Meets, Showtimes!Shares
<1>9. Counts'
  BY <1>1, <1>2, <1>4 DEF ShowInv, Counts, Before, Parted, Open
<1>10. Spins'
  <2>1. navigated # Nothing /\ ~Cancelling' /\ navigated \notin shaken =>
          /\ Showtimes!InFlight(navigated) => Before(navigated) \/ Open(navigated) = number
          /\ Showtimes!InFlight(navigated) /\ navigated \notin hurt => spinner
          /\ ~Showtimes!InFlight(navigated) /\ navigated \notin puzzled => ~spinner
    BY <1>3 DEF ShowInv, Spins
  <2>2. /\ navigated # Nothing => (Before(navigated)' <=> Before(navigated)) /\ Open(navigated)' = Open(navigated)
        /\ navigated # Nothing => Showtimes!InFlight(navigated)' = Showtimes!InFlight(navigated)
    BY <1>1, <1>4 DEF Before, Open, ShowInv, ShowType
  <2>3. list = "list" /\ (\A d \in Calls : handled'[d] = "change" => d \notin shaken) =>
          (spinner <=> \E d \in Calls : handled'[d] = "change" /\ Showtimes!InFlight(d))
    BY <1>1, <1>2, <1>4, HandlersAre DEF ShowInv, Spins
  <2> QED
    BY <1>1, <1>4, <2>1, <2>2, <2>3 DEF Spins
<1> QED
  BY <1>5, <1>6, <1>7, <1>8, <1>9, <1>10 DEF ShowInv

\* What a step leaves of the invariant when it changes no request and no count.
Same == UNCHANGED <<list, handled, navigated, aborting, tracked, req, number, succeeded, complete,
                    shaken, hurt>>

LEMMA SameStep ==
    ASSUME ShowInv, Same, ShowType', Begun', (Cancelling' <=> Cancelling), spinner' = spinner,
           puzzled \subseteq puzzled',
           \A d \in Calls : Showtimes!InFlight(d) => shows'[d] = shows[d]
    PROVE  ShowInv'
<1>1. /\ \A d \in Calls : Showtimes!Sent(d)' = Showtimes!Sent(d)
      /\ \A d \in Calls : Showtimes!InFlight(d)' = Showtimes!InFlight(d)
  BY DEF Showtimes!Sent, Showtimes!InFlight, Same
<1>2. Aborts' /\ Meets'
  BY <1>1 DEF ShowInv, Same, Aborts, Meets, Showtimes!Shares
<1>3. Counts'
  BY <1>1 DEF ShowInv, Same, Counts, Before, Parted, Open
<1>4. Spins'
  <2>1. navigated # Nothing => /\ Showtimes!InFlight(navigated)' = Showtimes!InFlight(navigated)
                               /\ Before(navigated)' = Before(navigated)
                               /\ Open(navigated)' = Open(navigated)
    BY <1>1 DEF Same, ShowInv, ShowType, Before, Open
  <2> QED
    BY <1>1, <2>1 DEF ShowInv, Same, Spins
<1> QED
  BY <1>2, <1>3, <1>4 DEF ShowInv

\* A viewer who gives no location is shown a page, or nothing; spinners stay.
LEMMA NoLocationMoves ==
    ASSUME ShowInv, NEW c \in Calls, entry = c, Showtimes!NoLocation(c)
    PROVE  /\ shows' \in [Calls -> 0 .. 2] /\ \A d \in Calls \ {c} : shows'[d] = shows[d]
           /\ shows'[c] # shows[c] => handled[c] = "browse"
           /\ spinner' = spinner /\ puzzled \subseteq puzzled' /\ puzzled' \subseteq Calls
           /\ UNCHANGED <<location, starting, byId>>
<1>1. handled[c] \notin {"nav", Nothing} /\ ShowType
  BY HandlersAre DEF ShowInv, Begun
<1>2. CASE handled[c] = "browse"
  <2>1. Showtimes!Success(c)
    BY <1>2 DEF Showtimes!NoLocation
  <2> QED
    BY <1>1, <1>2, <2>1, SuccessEnds DEF Showtimes!NoLocation, Ends, ShowType
<1>3. CASE handled[c] = "change"
  BY <1>1, <1>3 DEF Showtimes!NoLocation, Showtimes!ui, ShowType
<1>4. CASE handled[c] \notin {"browse", "change"}
  <2>1. Showtimes!Failed(c) /\ puzzled' = puzzled
    BY <1>4 DEF Showtimes!NoLocation
  <2> QED
    BY <1>1, <1>4, <2>1, FailedEnds DEF Showtimes!NoLocation, Ends, ShowType
<1> QED
  BY <1>2, <1>3, <1>4

\* A text entry ends.
LEMMA EntryStep ==
    ASSUME ShowInv, NEW c \in Calls, Showtimes!EnterZip(c) \/ Showtimes!CancelEntry(c)
    PROVE  ShowInv'
<1>1. /\ entry = c /\ entry' = Nothing /\ Same
      /\ \/ /\ starting' = c /\ UNCHANGED <<shows, spinner, puzzled>>
            /\ location' \in BOOLEAN /\ byId' \subseteq Calls
         \/ Showtimes!NoLocation(c)
  <2>1. CASE Showtimes!EnterZip(c)
    BY <2>1 DEF Showtimes!EnterZip, Showtimes!net, Showtimes!counts, Showtimes!ui, Same, ShowInv, ShowType
  <2>2. CASE Showtimes!CancelEntry(c)
    BY <2>2 DEF Showtimes!CancelEntry, Showtimes!net, Showtimes!counts, Showtimes!ui, Same, ShowInv, ShowType
  <2> QED
    BY <2>1, <2>2
<1>2. c # Nothing /\ starting = Nothing /\ handled[c] \notin {Nothing, "nav"}
  BY <1>1, HandlersAre DEF ShowInv, Begun
<1>3. ~Cancelling /\ Untouched(c)
  BY <1>1, <1>2 DEF Cancelling, ShowInv, Begun
<1>4. ~Showtimes!InFlight(c)
  BY <1>3 DEF Untouched, Showtimes!InFlight, Showtimes!Sent, Calling
<1>5. CASE starting' = c /\ location' \in BOOLEAN /\ byId' \subseteq Calls /\ UNCHANGED <<shows, spinner, puzzled>>
  <2>1. ShowType' /\ ~Cancelling'
    BY <1>1, <1>2, <1>5 DEF Same, ShowInv, ShowType, Cancelling
  <2>2. Begun'
    BY <1>1, <1>2, <1>3, <1>5 DEF Same, ShowInv, Begun, Untouched
  <2> QED
    BY <1>1, <1>3, <1>5, <2>1, <2>2, SameStep
<1>6. CASE Showtimes!NoLocation(c)
  <2>1. /\ shows' \in [Calls -> 0 .. 2] /\ \A d \in Calls \ {c} : shows'[d] = shows[d]
        /\ spinner' = spinner /\ puzzled \subseteq puzzled' /\ puzzled' \subseteq Calls
        /\ UNCHANGED <<location, starting, byId>>
    BY <1>1, <1>6, NoLocationMoves
  <2>2. ShowType' /\ ~Cancelling'
    BY <1>1, <1>2, <2>1 DEF Same, ShowInv, ShowType, Cancelling
  <2>3. Begun'
    BY <1>1, <1>2, <2>1 DEF Same, ShowInv, Begun, Untouched
  <2> QED
    BY <1>1, <1>3, <1>4, <2>1, <2>2, <2>3, SameStep
<1> QED
  BY <1>1, <1>5, <1>6

\* The viewer dismisses a proxy.
LEMMA DismissStep ==
    ASSUME ShowInv, NEW c \in Calls, Showtimes!Dismiss(c)
    PROVE  ShowInv'
<1>1. Same /\ UNCHANGED <<location, entry, starting, byId, shows, spinner, puzzled>>
  BY DEF Showtimes!Dismiss, Showtimes!control, Showtimes!net, Showtimes!counts, Showtimes!history, Same
<1>2. ShowType' /\ Begun' /\ (Cancelling' <=> Cancelling)
  BY <1>1 DEF Same, ShowInv, ShowType, Begun, Untouched, Cancelling
<1> QED
  BY <1>1, <1>2, SameStep

\* What the rest of a handler sends, and whom it makes share its counters.
CallGoes(c, parts) ==
    /\ Showtimes!Send(c, parts) /\ parts \in {{0}, {1}} /\ entry' = entry
    /\ shaken' = IF Showtimes!Others(c) = {} THEN shaken
                 ELSE shaken \union Showtimes!Others(c) \union {c}
    /\ spinner' = Showtimes!StartSpinner(c)
    /\ IF handled[c] \in Showtimes!Movies THEN number' = (IF parts = {0} THEN 0 ELSE 1) /\ succeeded' = 0
       ELSE parts = {1} /\ UNCHANGED <<number, succeeded>>

\* The rest of a handler.
LEMMA StartStep ==
    ASSUME ShowInv, NEW c \in Calls, Showtimes!Start(c)
    PROVE  ShowInv'
<1> DEFINE k == handled[c]
<1>1. /\ starting = c /\ starting' = Nothing /\ aborting = {} /\ aborting' = {}
      /\ navigated' = IF k = "nav" THEN c ELSE navigated
      /\ UNCHANGED <<list, location, handled, byId, complete, shows, puzzled, hurt>>
      /\ \/ /\ k \notin {"nav", Nothing} /\ entry' = c
            /\ UNCHANGED <<req, tracked, number, succeeded, spinner, shaken>>
         \/ \E parts \in SUBSET Calling : CallGoes(c, parts)
  <2>1. /\ starting = c /\ starting' = Nothing /\ aborting = {} /\ aborting' = {}
        /\ navigated' = IF k = "nav" THEN c ELSE navigated
        /\ UNCHANGED <<list, location, handled, byId, shows, puzzled, hurt>>
    BY DEF Showtimes!Start
  <2>2. CASE k \in Showtimes!Asking /\ ~location
    BY <2>1, <2>2, HandlersAre
    DEF Showtimes!Start, Showtimes!net, Showtimes!counts, Showtimes!Asking
  <2>3. CASE ~(k \in Showtimes!Asking /\ ~location) /\ k \in Showtimes!Movies
    <3>1. \/ number' = 0 /\ Showtimes!Send(c, {0})
          \/ number' = 1 /\ Showtimes!Send(c, {1})
      BY <2>3 DEF Showtimes!Start, Showtimes!LoadMovieShowtimeData
    <3>2. /\ entry' = entry /\ succeeded' = 0 /\ complete' = complete
          /\ shaken' = IF Showtimes!Others(c) = {} THEN shaken
                       ELSE shaken \union Showtimes!Others(c) \union {c}
          /\ spinner' = Showtimes!StartSpinner(c)
      BY <2>3 DEF Showtimes!Start, Showtimes!LoadMovieShowtimeData
    <3>3. {0} \in SUBSET Calling /\ {1} \in SUBSET Calling /\ {0} # {1}
      BY HandlersAre
    <3> QED
      BY <2>1, <2>3, <3>1, <3>2, <3>3 DEF CallGoes
  <2>4. CASE ~(k \in Showtimes!Asking /\ ~location) /\ k \notin Showtimes!Movies
    <3>1. /\ Showtimes!Send(c, {1}) /\ UNCHANGED <<number, succeeded, complete>>
          /\ entry' = entry
          /\ shaken' = IF Showtimes!Others(c) = {} THEN shaken
                       ELSE shaken \union Showtimes!Others(c) \union {c}
          /\ spinner' = Showtimes!StartSpinner(c)
      BY <2>4 DEF Showtimes!Start, Showtimes!counts
    <3>2. {1} \in SUBSET Calling
      BY HandlersAre
    <3> QED
      BY <2>1, <2>4, <3>1, <3>2 DEF CallGoes
  <2> QED
    BY <2>2, <2>3, <2>4
<1>2. /\ c # Nothing /\ entry = Nothing /\ Untouched(c) /\ k # Nothing /\ k \in Showtimes!Kinds
      /\ k \in Showtimes!Handlers[list]
  BY <1>1, HandlersAre DEF ShowInv, Begun, ShowType
<1>3. ~Cancelling' /\ (Cancelling <=> k = "nav") /\ ~Showtimes!InFlight(c)
  BY <1>1, <1>2 DEF Cancelling, Untouched, Showtimes!InFlight, Showtimes!Sent, Calling
<1>4. CASE k \notin {"nav", Nothing} /\ entry' = c /\ UNCHANGED <<req, tracked, number, succeeded, spinner, shaken>>
  <2>1. Same /\ UNCHANGED <<puzzled, shows>>
    BY <1>1, <1>4 DEF Same
  <2>2. ShowType'
    BY <1>1, <1>2, <1>4, <2>1 DEF Same, ShowInv, ShowType
  <2>3. Begun'
    BY <1>1, <1>2, <1>4, <2>1 DEF Same, ShowInv, Begun, Untouched
  <2> QED
    BY <1>3, <1>4, <2>1, <2>2, <2>3, SameStep
<1>5. ASSUME NEW parts \in SUBSET Calling, CallGoes(c, parts) PROVE ShowInv'
  <2>0. /\ Showtimes!Send(c, parts) /\ parts \in {{0}, {1}} /\ parts # {} /\ entry' = Nothing
        /\ spinner' = Showtimes!StartSpinner(c)
        /\ (k \in Showtimes!Movies => number' = (IF parts = {0} THEN 0 ELSE 1) /\ succeeded' = 0)
        /\ (k \notin Showtimes!Movies => parts = {1} /\ UNCHANGED <<number, succeeded>>)
    BY <1>2, <1>5 DEF CallGoes
  <2>1. /\ req' \in [Calls -> [Calling -> {"none", "sent", "done"}]]
        /\ \A d \in Calls \ {c} : req'[d] = req[d]
        /\ \A d \in Calls \ {c} : Showtimes!Sent(d)' = Showtimes!Sent(d)
        /\ Showtimes!Sent(c)' = parts
        /\ tracked \subseteq tracked' /\ tracked' \subseteq tracked \union ({c} \X parts)
        /\ 0 \in parts /\ parts = {0} => <<c, 0>> \in tracked'
    BY <2>0, SendMoves DEF ShowInv
  <2>2. /\ \A d \in Calls \ {c} : Showtimes!InFlight(d)' = Showtimes!InFlight(d)
        /\ Showtimes!InFlight(c)'
    BY <2>0, <2>1 DEF Showtimes!InFlight
  <2>3. /\ shaken \subseteq shaken' /\ shaken' \subseteq Calls
        /\ \A d \in Calls \ {c} : Showtimes!InFlight(d) /\ Showtimes!Shares(c, d)
                                    => d \in shaken' /\ c \in shaken'
        /\ \A d \in Calls : Showtimes!Shares(c, d) <=> Showtimes!Shares(d, c)
    BY <1>5 DEF CallGoes, Showtimes!Others, Showtimes!Shares, ShowInv, ShowType
  <2>4. /\ spinner' \in BOOLEAN
        /\ k = "nav" => spinner'
        /\ k = "change" => spinner' = ~spinner
        /\ k \notin {"nav", "change"} => (spinner' <=> spinner)
    BY <2>0 DEF Showtimes!StartSpinner, Showtimes!Toggled, ShowInv, ShowType
  <2>5. ShowType'
    <3>1. tracked' \subseteq Calls \X Calling
      BY <2>1 DEF ShowInv, ShowType
    <3>2. number' \in Nat /\ succeeded' \in Nat
      BY <2>0 DEF ShowInv, ShowType
    <3> QED
      BY <1>1, <2>0, <2>1, <2>3, <2>4, <3>1, <3>2 DEF ShowInv, ShowType
  <2>6. Begun'
    BY <1>1, <1>2, <2>0, <2>1 DEF ShowInv, Begun, Untouched
  <2>7. Aborts'
    <3>1. \A d \in Calls : req'[d][0] = "sent" => <<d, 0>> \in tracked'
      <4>1. req'[c][0] = "sent" => parts = {0} /\ 0 \in parts
        BY <2>0, <2>1 DEF Showtimes!Sent, Calling
      <4>2. \A d \in Calls \ {c} : req'[d][0] = "sent" => <<d, 0>> \in tracked
        BY <1>1, <2>1 DEF ShowInv, Aborts
      <4> QED
        BY <2>1, <4>1, <4>2
    <3>2. ASSUME NEW d \in Calls, NEW i \in Calling, handled[d] = "nav", d # navigated',
                 req'[d][i] = "sent"
          PROVE  <<d, i>> \notin tracked'
      <4>1. d # c
        BY <1>1, <3>2
      <4>2. <<d, i>> \notin tracked
        BY <1>1, <1>3, <2>1, <3>2, <4>1 DEF ShowInv, Aborts
      <4> QED
        BY <2>1, <4>1, <4>2
    <3> QED
      BY <1>1, <1>3, <3>1, <3>2 DEF Aborts
  <2>8. Meets'
    BY <1>1, <2>2, <2>3 DEF ShowInv, Meets, Showtimes!Shares
  <2>9. Counts'
    <3>1. ASSUME NEW d \in Calls \ {c}, Showtimes!InFlight(d)
          PROVE  IF handled[d] \in Showtimes!Movies
                 THEN d \notin shaken' => shows[d] = 0 /\ (Before(d) \/ (Parted(d) /\ Open(d) <= number'))
                 ELSE shows[d] = 0 /\ Showtimes!Sent(d) = {1}
      <4>1. handled[d] \in Showtimes!Movies /\ d \notin shaken' => number' = number
        BY <2>0, <2>3, <3>1 DEF Showtimes!Shares
      <4> QED
        BY <2>3, <3>1, <4>1 DEF ShowInv, Counts
    <3>2. \A d \in Calls \ {c} : /\ Before(d)' <=> Before(d)
                                 /\ Parted(d)' <=> Parted(d)
                                 /\ Open(d)' = Open(d)
      BY <1>1, <2>1 DEF Before, Parted, Open
    <3>3. Cardinality({1}) = 1
      BY FS_Singleton
    <3>4. shows[c] = 0 /\ complete[c] = 0
      BY <1>2 DEF Untouched
    <3>5. handled[c] \in Showtimes!Movies => Before(c)' \/ (Parted(c)' /\ Open(c)' <= number')
      <4>1. complete'[c] = 0 /\ Cardinality({1}) = 1
        BY <1>1, <3>3, <3>4
      <4>2. CASE parts = {0}
        BY <2>1, <4>1, <4>2 DEF Before
      <4>3. CASE parts = {1} /\ k \in Showtimes!Movies
        <5>1. Showtimes!Sent(c)' = {1} /\ number' = 1
          BY <2>0, <2>1, <4>3
        <5>2. Parted(c)'
          BY <5>1 DEF Parted
        <5>3. Open(c)' = complete'[c] + Cardinality({1})
          BY <5>1 DEF Open
        <5> QED
          BY <4>1, <5>1, <5>2, <5>3
      <4>4. parts = {0} \/ (parts = {1} /\ (handled[c] \in Showtimes!Movies => k \in Showtimes!Movies))
        BY <2>0
      <4> QED
        BY <4>2, <4>3, <4>4
    <3>6. handled[c] \notin Showtimes!Movies => Showtimes!Sent(c)' = {1}
      BY <2>0, <2>1
    <3> QED
      BY <1>1, <2>1, <2>2, <3>1, <3>2, <3>4, <3>5, <3>6 DEF Counts
  <2>10. Spins'
    <3>1. ASSUME k = "nav", navigated' = c
          PROVE  (Before(c)' \/ Open(c)' = number') /\ spinner'
      <4>1. Cardinality({1}) = 1 /\ complete[c] = 0 /\ k \in Showtimes!Movies
        BY <1>2, <3>1, FS_Singleton, HandlersAre DEF Untouched
      <4>2. complete'[c] = 0 /\ spinner'
        BY <1>1, <2>4, <3>1, <4>1
      <4>3. CASE parts = {0}
        BY <2>1, <4>2, <4>3 DEF Before
      <4>4. CASE parts = {1}
        BY <2>0, <2>1, <4>1, <4>2, <4>4 DEF Open
      <4>5. parts = {0} \/ parts = {1}
        BY <2>0
      <4> QED
        BY <4>2, <4>3, <4>4, <4>5
    <3>2. ASSUME k # "nav", navigated' = navigated, navigated # Nothing, navigated \notin shaken'
          PROVE  /\ ~Showtimes!InFlight(navigated)'
                 /\ navigated \notin puzzled => ~spinner'
      <4>1. k = "swap" /\ handled[navigated] = "nav" /\ navigated \in Calls /\ navigated # c
        BY <1>2, <3>2, OnMovie DEF ShowInv, Begun, ShowType
      <4>2. Showtimes!Shares(c, navigated)
        BY <4>1, HandlersAre DEF Showtimes!Shares
      <4>3. ~Showtimes!InFlight(navigated)
        BY <2>3, <3>2, <4>1, <4>2
      <4>4. navigated \notin puzzled => ~spinner
        BY <1>3, <2>3, <3>2, <4>3 DEF ShowInv, Spins
      <4> QED
        BY <2>2, <2>4, <3>2, <4>1, <4>3, <4>4
    <3>3. ASSUME list = "list", \A d \in Calls : handled[d] = "change" => d \notin shaken'
          PROVE  spinner' <=> \E d \in Calls : handled[d] = "change" /\ Showtimes!InFlight(d)'
      <4>1. spinner <=> \E d \in Calls : handled[d] = "change" /\ Showtimes!InFlight(d)
        BY <2>3, <3>3 DEF ShowInv, Spins
      <4>2. CASE k = "open"
        BY <2>2, <2>4, <4>1, <4>2
      <4>3. CASE k = "change"
        <5>1. \A d \in Calls \ {c} : handled[d] = "change" => ~Showtimes!InFlight(d)
          BY <2>3, <3>3, <4>3 DEF Showtimes!Shares
        <5>2. ~spinner
          BY <1>3, <4>1, <5>1
        <5> QED
          BY <2>2, <2>4, <4>3, <5>2
      <4> QED
        BY <1>2, <3>3, <4>2, <4>3, HandlersAre
    <3>4. \/ k = "nav" /\ navigated' = c
          \/ k # "nav" /\ navigated' = navigated
      BY <1>1
    <3>5. CASE k = "nav" /\ navigated' = c
      BY <1>1, <2>2, <3>1, <3>3, <3>5 DEF Spins
    <3>6. CASE k # "nav" /\ navigated' = navigated
      BY <1>1, <2>2, <3>2, <3>3, <3>6 DEF Spins
    <3> QED
      BY <3>4, <3>5, <3>6
  <2> QED
    BY <2>5, <2>6, <2>7, <2>8, <2>9, <2>10 DEF ShowInv
<1> QED
  BY <1>1, <1>4, <1>5

\* The last reply of a call that has its counters to itself is the last request.
LEMMA LastReply ==
    ASSUME ShowInv, NEW c \in Calls, NEW i \in 1 .. MaxParts, req[c][i] = "sent",
           handled[c] \in Showtimes!Movies, c \notin shaken
    PROVE  /\ shows[c] = 0 /\ Parted(c) /\ Open(c) <= number
           /\ complete[c] + 1 = number => Showtimes!Sent(c) = {i}
<1>1. i \in Calling /\ i # 0
  BY HandlersAre
<1>2. i \in Showtimes!Sent(c) /\ Showtimes!InFlight(c)
  BY <1>1, Flying
<1>3. shows[c] = 0 /\ Parted(c) /\ Open(c) <= number
  BY <1>1, <1>2 DEF ShowInv, Counts, Before
<1>4. ASSUME complete[c] + 1 = number PROVE Showtimes!Sent(c) = {i}
  <2>1. /\ IsFiniteSet(Showtimes!Sent(c)) /\ Cardinality(Showtimes!Sent(c)) \in Nat
        /\ complete[c] \in Nat /\ number \in Nat
    BY SentFinite DEF ShowInv, ShowType
  <2>2. /\ IsFiniteSet(Showtimes!Sent(c) \ {i})
        /\ Cardinality(Showtimes!Sent(c) \ {i}) = Cardinality(Showtimes!Sent(c)) - 1
        /\ Cardinality(Showtimes!Sent(c) \ {i}) \in Nat
    BY <1>2, <2>1, FS_RemoveElement, FS_CardinalityType
  <2>3. Cardinality(Showtimes!Sent(c) \ {i}) = 0
    BY <1>3, <1>4, <2>1, <2>2 DEF Open
  <2> QED
    BY <1>2, <2>2, <2>3, FS_EmptySet
<1> QED
  BY <1>3, <1>4

\* What the end of a request does to what it does not count.
Ending(c, i) ==
    /\ Showtimes!Done(c, i) /\ aborting' = aborting \ {<<c, i>>}
    /\ UNCHANGED <<list, location, handled, entry, starting, byId, navigated, shaken>>

LEMMA EndingStep ==
    ASSUME ShowInv, NEW c \in Calls, NEW i \in Calling, req[c][i] = "sent", Ending(c, i),
           succeeded' \in Nat, puzzled' \subseteq Calls, hurt' \subseteq Calls,
           complete' \in [Calls -> Nat], shows' \in [Calls -> 0 .. 2], spinner' \in BOOLEAN,
           number' = number,
           \A d \in Calls \ {c} : complete'[d] = complete[d] /\ shows'[d] = shows[d]
    PROVE  ShowType' /\ Begun' /\ Aborts' /\ Meets'
<1>1. /\ req' \in [Calls -> [Calling -> {"none", "sent", "done"}]] /\ tracked' = tracked
      /\ \A d \in Calls \ {c} : req'[d] = req[d]
      /\ \A j \in Calling : req'[c][j] = "sent" <=> req[c][j] = "sent" /\ j # i
      /\ \A d \in Calls : Showtimes!Sent(d)' \subseteq Showtimes!Sent(d)
  <2>1. Showtimes!Done(c, i) /\ ShowType
    BY DEF Ending, ShowInv
  <2>2. /\ req' \in [Calls -> [Calling -> {"none", "sent", "done"}]] /\ tracked' = tracked
        /\ \A d \in Calls \ {c} : req'[d] = req[d]
        /\ \A j \in Calling : req'[c][j] = "sent" <=> req[c][j] = "sent" /\ j # i
        /\ \A d \in Calls \ {c} : Showtimes!Sent(d)' = Showtimes!Sent(d)
        /\ Showtimes!Sent(c)' = Showtimes!Sent(c) \ {i}
    BY <2>1, DoneMoves
  <2> QED
    BY <2>2
<1>2. handled[c] # Nothing /\ starting # c /\ entry # c
  BY Flying, HandlersAre
<1>3. ShowType'
  BY <1>1 DEF Ending, ShowInv, ShowType
<1>4. Begun'
  <2>1. \A d \in Calls : handled[d] = Nothing \/ starting = d \/ entry = d
                            => Untouched(d) /\ d # c
    BY <1>2 DEF ShowInv, Begun
  <2>2. \A d \in Calls \ {c} : Untouched(d) => Untouched(d)'
    BY <1>1 DEF Untouched
  <2> QED
    BY <2>1, <2>2 DEF Ending, ShowInv, Begun
<1>5. Aborts'
  <2>1. Cancelling' <=> Cancelling
    BY DEF Ending, Cancelling
  <2>2. \A d \in Calls, j \in Calling :
           req'[d][j] = "sent" <=> req[d][j] = "sent" /\ <<d, j>> # <<c, i>>
    BY <1>1
  <2>3. 0 \in Calling
    BY HandlersAre
  <2> QED
    BY <1>1, <2>1, <2>2, <2>3 DEF Ending, ShowInv, Aborts
<1>6. Meets'
  <2>1. \A d \in Calls : Showtimes!InFlight(d)' => Showtimes!InFlight(d)
    BY <1>1 DEF Showtimes!InFlight
  <2> QED
    BY <2>1 DEF Ending, ShowInv, Meets, Showtimes!Shares
<1> QED
  BY <1>3, <1>4, <1>5, <1>6

LEMMA CountsEnd ==
    ASSUME ShowInv, NEW c \in Calls, NEW i \in Calling, req[c][i] = "sent", Ending(c, i),
           number' = number, complete' \in [Calls -> Nat],
           \A d \in Calls \ {c} : complete'[d] = complete[d] /\ shows'[d] = shows[d],
           complete'[c] <= complete[c] + 1,
           /\ c \notin shaken /\ handled[c] \in Showtimes!Movies /\ Showtimes!Sent(c) # {i}
                => shows'[c] = shows[c]
    PROVE  Counts'
<1>1. /\ \A d \in Calls \ {c} : Showtimes!Sent(d)' = Showtimes!Sent(d)
      /\ Showtimes!Sent(c)' = Showtimes!Sent(c) \ {i} /\ i \in Showtimes!Sent(c)
      /\ Cardinality(Showtimes!Sent(c)') = Cardinality(Showtimes!Sent(c)) - 1
  <2>1. Showtimes!Done(c, i) /\ ShowType
    BY DEF Ending, ShowInv
  <2> QED
    BY <2>1, DoneMoves
<1>2. handled' = handled /\ shaken' = shaken
  BY DEF Ending
<1>3. ASSUME NEW d \in Calls \ {c}, Showtimes!InFlight(d)'
      PROVE  IF handled[d] \in Showtimes!Movies
             THEN d \notin shaken => shows'[d] = 0 /\ (Before(d)' \/ (Parted(d)' /\ Open(d)' <= number'))
             ELSE shows'[d] = 0 /\ Showtimes!Sent(d)' = {1}
  <2>1. Showtimes!InFlight(d)
    BY <1>1, <1>3 DEF Showtimes!InFlight
  <2>2. (Before(d)' <=> Before(d)) /\ (Parted(d)' <=> Parted(d)) /\ Open(d)' = Open(d)
    BY <1>1 DEF Before, Parted, Open
  <2> QED
    BY <1>1, <2>1, <2>2 DEF ShowInv, Counts
<1>4. ASSUME Showtimes!InFlight(c)'
      PROVE  IF handled[c] \in Showtimes!Movies
             THEN c \notin shaken => shows'[c] = 0 /\ (Before(c)' \/ (Parted(c)' /\ Open(c)' <= number'))
             ELSE shows'[c] = 0 /\ Showtimes!Sent(c)' = {1}
  <2>1. Showtimes!InFlight(c) /\ Showtimes!Sent(c) # {i}
    BY <1>1, <1>4 DEF Showtimes!InFlight
  <2>2. handled[c] \in Showtimes!Movies
    BY <1>1, <2>1 DEF ShowInv, Counts
  <2>3. ASSUME c \notin shaken
        PROVE  shows'[c] = 0 /\ Parted(c)' /\ Open(c)' <= number'
    <3>1. shows[c] = 0 /\ Parted(c) /\ Open(c) <= number
      BY <1>1, <2>1, <2>2, <2>3 DEF ShowInv, Counts, Before
    <3>2. /\ complete[c] \in Nat /\ number \in Nat /\ Cardinality(Showtimes!Sent(c)) \in Nat
          /\ complete'[c] \in Nat
      BY SentFinite DEF ShowInv, ShowType
    <3> QED
      BY <1>1, <2>1, <2>2, <2>3, <3>1, <3>2 DEF Parted, Open
  <2> QED
    BY <2>2, <2>3
<1> QED
  BY <1>2, <1>3, <1>4 DEF Counts

LEMMA SpinsEnd ==
    ASSUME ShowInv, NEW c \in Calls, NEW i \in Calling, req[c][i] = "sent", Ending(c, i),
           number' = number, complete' \in [Calls -> Nat],
           \A d \in Calls \ {c} : complete'[d] = complete[d],
           puzzled \subseteq puzzled', hurt \subseteq hurt',
           handled[c] = "nav" => (spinner' <=> spinner) \/ ~spinner',
           handled[c] \notin {"nav", "change"} => (spinner' <=> spinner),
           handled[c] = "change" /\ spinner => ~spinner',
           /\ c = navigated /\ c \notin shaken /\ ~Cancelling =>
                 /\ Showtimes!Sent(c) # {i} => /\ complete'[c] = complete[c] + 1
                                               /\ c \notin hurt' => (spinner' <=> spinner)
                 /\ Showtimes!Sent(c) = {i} /\ c \notin puzzled' => ~spinner'
    PROVE  Spins'
<1>1. /\ \A d \in Calls \ {c} : Showtimes!Sent(d)' = Showtimes!Sent(d)
      /\ Showtimes!Sent(c)' = Showtimes!Sent(c) \ {i} /\ i \in Showtimes!Sent(c)
      /\ Cardinality(Showtimes!Sent(c)') = Cardinality(Showtimes!Sent(c)) - 1
  <2>1. Showtimes!Done(c, i) /\ ShowType
    BY DEF Ending, ShowInv
  <2> QED
    BY <2>1, DoneMoves
<1>2. /\ UNCHANGED <<list, handled, navigated, shaken, starting>>
      /\ Cancelling' <=> Cancelling
      /\ \A d \in Calls \ {c} : Showtimes!InFlight(d)' = Showtimes!InFlight(d)
      /\ Showtimes!InFlight(c)' <=> Showtimes!Sent(c) # {i}
      /\ Showtimes!InFlight(c)
  BY <1>1 DEF Ending, Cancelling, Showtimes!InFlight
<1>3. ASSUME navigated # Nothing, ~Cancelling, navigated \notin shaken
      PROVE  /\ Showtimes!InFlight(navigated)' => Before(navigated)' \/ Open(navigated)' = number'
             /\ Showtimes!InFlight(navigated)' /\ navigated \notin hurt' => spinner'
             /\ ~Showtimes!InFlight(navigated)' /\ navigated \notin puzzled' => ~spinner'
  <2>1. /\ Showtimes!InFlight(navigated) => Before(navigated) \/ Open(navigated) = number
        /\ Showtimes!InFlight(navigated) /\ navigated \notin hurt => spinner
        /\ ~Showtimes!InFlight(navigated) /\ navigated \notin puzzled => ~spinner
        /\ navigated \in Calls /\ handled[navigated] = "nav"
    BY <1>3 DEF ShowInv, Spins, ShowType, Begun
  <2>2. CASE navigated = c
    <3>1. Showtimes!Sent(c) # {i} => ~Before(c) /\ Open(c)' = Open(c)
      <4>1. complete[c] \in Nat /\ Cardinality(Showtimes!Sent(c)) \in Nat
        BY SentFinite DEF ShowInv, ShowType
      <4> QED
        BY <1>1, <1>3, <2>2, <4>1 DEF Before, Open
    <3> QED
      BY <1>2, <1>3, <2>1, <2>2, <3>1 DEF Open
  <2>3. CASE navigated # c
    <3>1. handled[c] \in {"nav", "swap"}
      BY <1>3, OnMovie, Flying, HandlersAre
    <3>2. ~Showtimes!InFlight(navigated)
      BY <1>2, <1>3, <2>1, <2>3, <3>1, HandlersAre DEF ShowInv, Meets, Showtimes!Shares
    <3>3. Showtimes!InFlight(navigated)' = Showtimes!InFlight(navigated)
      BY <1>2, <2>1, <2>3
    <3> QED
      BY <2>1, <3>1, <3>2, <3>3
  <2> QED
    BY <2>2, <2>3
<1>4. ASSUME list = "list", \A d \in Calls : handled[d] = "change" => d \notin shaken
      PROVE  spinner' <=> \E d \in Calls : handled[d] = "change" /\ Showtimes!InFlight(d)'
  <2>1. spinner <=> \E d \in Calls : handled[d] = "change" /\ Showtimes!InFlight(d)
    BY <1>4 DEF ShowInv, Spins
  <2>2. handled[c] \in {"open", "change"}
    BY <1>4, Flying, HandlersAre
  <2>3. CASE handled[c] = "open"
    BY <1>2, <2>1, <2>3
  <2>4. CASE handled[c] = "change"
    <3>1. \A d \in Calls \ {c} : handled[d] = "change" => ~Showtimes!InFlight(d)
      BY <1>2, <1>4, <2>4 DEF ShowInv, Meets, Showtimes!Shares
    <3>2. Showtimes!Sent(c) = {1} /\ 1 = i
      BY <1>1, <1>2, <2>4, HandlersAre DEF ShowInv, Counts
    <3> QED
      BY <1>2, <2>1, <2>4, <3>1, <3>2
  <2> QED
    BY <2>2, <2>3, <2>4
<1> QED
  BY <1>2, <1>3, <1>4 DEF Spins

\* What a reply of a part does to the counters and to what is seen.
PartEnds(c, ok) ==
    \/ complete[c] + 1 = number /\ Ends(c) /\ puzzled' = puzzled
    \/ /\ complete[c] + 1 = number /\ puzzled' = puzzled \union {c}
       /\ shows' = shows /\ spinner' = spinner
    \/ /\ complete[c] + 1 # number /\ ok
       /\ puzzled' = puzzled /\ shows' = shows /\ spinner' = spinner
    \/ ~ok /\ Ends(c) /\ shows' = shows /\ puzzled' = puzzled

LEMMA PartMoves ==
    ASSUME ShowType, NEW c \in Calls, NEW i, NEW ok \in BOOLEAN, Showtimes!PartReply(c, i, ok)
    PROVE  /\ PartEnds(c, ok) /\ Showtimes!Done(c, i) /\ UNCHANGED <<number, shaken>>
           /\ complete' = [complete EXCEPT ![c] = complete[c] + 1]
           /\ succeeded' \in Nat
           /\ hurt' = IF ok THEN hurt ELSE hurt \union {c}
<1> DEFINE right == IF ok THEN succeeded + 1 ELSE succeeded
<1>1. /\ Showtimes!Done(c, i) /\ UNCHANGED <<number, shaken>>
      /\ complete' = [complete EXCEPT ![c] = complete[c] + 1]
      /\ succeeded' = right /\ right \in Nat /\ (ok => right > 0)
      /\ hurt' = IF ok THEN hurt ELSE hurt \union {c}
      /\ IF complete[c] + 1 = number /\ right > 0 THEN Showtimes!LoadFinished(c)
         ELSE /\ IF ok THEN UNCHANGED Showtimes!ui ELSE Showtimes!Failed(c)
              /\ UNCHANGED puzzled
  BY DEF Showtimes!PartReply, ShowType
<1> HIDE DEF right
<1>2. CASE complete[c] + 1 = number /\ right > 0
  <2>0. complete[c] + 1 = number
    BY <1>2
  <2>1. \/ Showtimes!Success(c)
        \/ puzzled' = puzzled \union {c} /\ shows' = shows /\ spinner' = spinner
    BY <1>1, <1>2 DEF Showtimes!LoadFinished, Showtimes!ui
  <2>2. Showtimes!Success(c) => PartEnds(c, ok)
    BY <2>0, SuccessEnds DEF PartEnds
  <2> QED
    BY <1>1, <2>0, <2>1, <2>2 DEF PartEnds
<1>3. CASE ~(complete[c] + 1 = number /\ right > 0) /\ ok
  BY <1>1, <1>3 DEF PartEnds, Showtimes!ui
<1>4. CASE ~(complete[c] + 1 = number /\ right > 0) /\ ~ok
  BY <1>1, <1>4, FailedEnds DEF PartEnds
<1> QED
  BY <1>1, <1>2, <1>3, <1>4

\* A part is answered, or its request is aborted.
LEMMA PartStep ==
    ASSUME ShowInv, NEW c \in Calls, NEW i \in 1 .. MaxParts, NEW ok \in BOOLEAN,
           req[c][i] = "sent", handled[c] \in Showtimes!Movies,
           Showtimes!PartReply(c, i, ok), Ending(c, i)
    PROVE  ShowInv'
<1>1. /\ PartEnds(c, ok) /\ number' = number /\ succeeded' \in Nat
      /\ complete' = [complete EXCEPT ![c] = complete[c] + 1]
      /\ hurt' = IF ok THEN hurt ELSE hurt \union {c}
  BY PartMoves DEF ShowInv
<1>2. /\ i \in Calling /\ i # 0 /\ complete[c] \in Nat /\ handled[c] # "change"
      /\ complete' \in [Calls -> Nat] /\ complete'[c] = complete[c] + 1
      /\ \A d \in Calls \ {c} : complete'[d] = complete[d]
      /\ hurt' \subseteq Calls /\ hurt \subseteq hurt'
  BY <1>1, HandlersAre DEF ShowInv, ShowType
<1>3. /\ shows' \in [Calls -> 0 .. 2] /\ \A d \in Calls \ {c} : shows'[d] = shows[d]
      /\ spinner' \in BOOLEAN /\ puzzled \subseteq puzzled' /\ puzzled' \subseteq Calls
      /\ handled[c] = "nav" => (spinner' <=> spinner) \/ ~spinner'
      /\ handled[c] \notin {"nav", "change"} => (spinner' <=> spinner)
  BY <1>1 DEF PartEnds, Ends, ShowInv, ShowType
<1>4. ShowType' /\ Begun' /\ Aborts' /\ Meets'
  BY <1>1, <1>2, <1>3, EndingStep
<1>5. c \notin shaken /\ Showtimes!Sent(c) # {i} => shows'[c] = shows[c] /\ complete[c] + 1 # number
  BY <1>1, LastReply DEF PartEnds
<1>6. Counts'
  BY <1>1, <1>2, <1>3, <1>5, CountsEnd
<1>7. Spins'
  <2>1. ASSUME c = navigated, c \notin shaken, ~Cancelling
        PROVE  /\ Showtimes!Sent(c) # {i} => (c \notin hurt' => (spinner' <=> spinner))
               /\ Showtimes!Sent(c) = {i} /\ c \notin puzzled' => ~spinner'
    <3>1. handled[c] = "nav" /\ c # Nothing
      BY <2>1, HandlersAre DEF ShowInv, Begun
    <3>2. ~ok => c \in hurt'
      BY <1>1
    <3>3. ASSUME Showtimes!Sent(c) = {i} PROVE complete[c] + 1 = number
      <4>1. Cardinality(Showtimes!Sent(c)) = 1 /\ number \in Nat
        BY <3>3, FS_Singleton DEF ShowInv, ShowType
      <4>2. Showtimes!InFlight(c) /\ ~Before(c)
        BY <1>2, <3>3 DEF Showtimes!InFlight, Before
      <4>3. Open(c) = number
        BY <2>1, <3>1, <4>2 DEF ShowInv, Spins
      <4> QED
        BY <4>1, <4>3 DEF Open
    <3>4. Showtimes!Sent(c) # {i} /\ ok => (spinner' <=> spinner)
      BY <1>1, <1>5, <2>1 DEF PartEnds
    <3>5. complete[c] + 1 = number /\ c \notin puzzled' => ~spinner'
      BY <1>1, <3>1 DEF PartEnds, Ends
    <3> QED
      BY <3>2, <3>3, <3>4, <3>5
  <2> QED
    BY <1>1, <1>2, <1>3, <2>1, SpinsEnd
<1> QED
  BY <1>4, <1>6, <1>7 DEF ShowInv

\* The one request of the other handlers is answered.
LEMMA TheatreStep ==
    ASSUME ShowInv, NEW c \in Calls, NEW i \in Calling, NEW ok \in BOOLEAN, req[c][i] = "sent",
           handled[c] \notin Showtimes!Movies, Showtimes!TheatreReply(c, ok),
           aborting' = aborting \ {<<c, i>>},
           UNCHANGED <<list, location, handled, entry, starting, byId, navigated>>
    PROVE  ShowInv'
<1>1. i = 1 /\ Showtimes!Sent(c) = {i}
  BY Flying DEF ShowInv, Counts
<1>2. /\ Ending(c, i) /\ UNCHANGED <<number, succeeded, complete>>
      /\ hurt' = IF ok THEN hurt ELSE hurt \union {c}
      /\ \/ Showtimes!Failed(c) /\ puzzled' = puzzled
         \/ Showtimes!Shown(c) /\ puzzled' = puzzled
         \/ Showtimes!Success(c)
  BY <1>1 DEF Showtimes!TheatreReply, Ending, Showtimes!counts
<1>3. \/ Ends(c) /\ puzzled' = puzzled
      \/ /\ puzzled' = puzzled \union {c} /\ handled[c] = "browse"
         /\ shows' = shows /\ spinner' = spinner
  BY <1>2, FailedEnds, ShownEnds, SuccessEnds DEF ShowInv
<1>4. handled[c] # "nav"
  BY HandlersAre
<1>5. /\ shows' \in [Calls -> 0 .. 2] /\ \A d \in Calls \ {c} : shows'[d] = shows[d]
      /\ spinner' \in BOOLEAN /\ puzzled \subseteq puzzled' /\ puzzled' \subseteq Calls
      /\ handled[c] \notin {"nav", "change"} => (spinner' <=> spinner)
      /\ handled[c] = "change" /\ spinner => ~spinner'
  BY <1>3 DEF Ends, ShowInv, ShowType
<1>6. /\ complete' \in [Calls -> Nat] /\ succeeded' \in Nat /\ hurt' \subseteq Calls /\ hurt \subseteq hurt'
      /\ \A d \in Calls : complete'[d] = complete[d]
      /\ complete'[c] <= complete[c] + 1
  BY <1>2 DEF ShowInv, ShowType
<1>7. ShowType' /\ Begun' /\ Aborts' /\ Meets'
  BY <1>2, <1>5, <1>6, EndingStep
<1>8. Counts'
  BY <1>1, <1>2, <1>5, <1>6, CountsEnd
<1>9. Spins'
  <2>1. c = navigated => handled[c] = "nav"
    BY HandlersAre DEF ShowInv, Begun
  <2> QED
    BY <1>1, <1>2, <1>4, <1>5, <1>6, <2>1, SpinsEnd
<1> QED
  BY <1>7, <1>8, <1>9 DEF ShowInv

\* A request ends that is not counted: the movie's own fails, or cannot be read,
\* or one is aborted.
LEMMA UncountedStep ==
    ASSUME ShowInv, NEW c \in Calls, NEW i \in Calling, req[c][i] = "sent", Ending(c, i),
           UNCHANGED <<number, succeeded, complete>>,
           hurt \subseteq hurt', hurt' \subseteq Calls,
           \/ Showtimes!Failed(c) /\ puzzled' = puzzled /\ (i = 0 \/ Cancelling)
           \/ puzzled' = puzzled \union {c} /\ UNCHANGED <<shows, spinner>> /\ i = 0
           \/ UNCHANGED <<puzzled, shows, spinner>> /\ Cancelling,
           handled[c] \in Showtimes!Movies
    PROVE  ShowInv'
<1>1. \/ Ends(c) /\ shows' = shows /\ puzzled' = puzzled /\ (i = 0 \/ Cancelling)
      \/ puzzled' = puzzled \union {c} /\ UNCHANGED <<shows, spinner>> /\ i = 0
      \/ UNCHANGED <<puzzled, shows, spinner>> /\ Cancelling
  BY FailedEnds DEF ShowInv
<1>2. /\ shows' \in [Calls -> 0 .. 2] /\ \A d \in Calls : shows'[d] = shows[d]
      /\ spinner' \in BOOLEAN /\ puzzled \subseteq puzzled' /\ puzzled' \subseteq Calls
      /\ handled[c] = "nav" => (spinner' <=> spinner) \/ ~spinner'
      /\ handled[c] \notin {"nav", "change"} => (spinner' <=> spinner)
  BY <1>1 DEF Ends, ShowInv, ShowType
<1>3. /\ complete' \in [Calls -> Nat] /\ succeeded' \in Nat /\ handled[c] # "change"
      /\ \A d \in Calls : complete'[d] = complete[d]
      /\ complete'[c] <= complete[c] + 1
  BY HandlersAre DEF ShowInv, ShowType
<1>4. ShowType' /\ Begun' /\ Aborts' /\ Meets'
  BY <1>2, <1>3, EndingStep
<1>5. Counts'
  BY <1>2, <1>3, CountsEnd
<1>6. Spins'
  <2>1. ASSUME c = navigated, c \notin shaken, ~Cancelling
        PROVE  Showtimes!Sent(c) = {i} /\ (c \notin puzzled' => ~spinner')
    <3>1. i = 0 /\ handled[c] = "nav" /\ 0 \in Showtimes!Sent(c)
      BY <1>1, <2>1, HandlersAre, Flying DEF ShowInv, Begun
    <3>2. Showtimes!Sent(c) = {0}
      BY <2>1, <3>1 DEF ShowInv, Counts, Showtimes!InFlight, Before, Parted
    <3> QED
      BY <1>1, <2>1, <3>1, <3>2 DEF Ends
  <2> QED
    BY <1>2, <1>3, <2>1, SpinsEnd
<1> QED
  BY <1>4, <1>5, <1>6 DEF ShowInv

\* The movie's file is read, and its parts are asked for.
LEMMA MovieAsks ==
    ASSUME ShowInv, NEW c \in Calls, req[c][0] = "sent", handled[c] \in Showtimes!Movies,
           starting = Nothing, NEW n \in 1 .. MaxParts, Showtimes!Send(c, 1 .. n), number' = n,
           UNCHANGED <<succeeded, complete, shows, spinner, list, location, handled, entry, starting,
                       aborting, byId, navigated, shaken, puzzled, hurt>>
    PROVE  ShowInv'
<1>0. 0 \in Calling /\ 1 .. n \in SUBSET Calling /\ 0 \notin 1 .. n /\ 1 .. n # {}
  <2>1. MaxParts \in Nat /\ n \in Nat /\ 1 <= n /\ n <= MaxParts
    BY HandlersAre
  <2>2. 1 \in 1 .. n /\ 0 \notin 1 .. n /\ 0 \in 0 .. MaxParts
    BY <2>1
  <2>3. \A i \in 1 .. n : i \in 0 .. MaxParts
    BY <2>1
  <2> QED
    BY <2>2, <2>3
<1>1. /\ req' \in [Calls -> [Calling -> {"none", "sent", "done"}]]
      /\ \A d \in Calls \ {c} : req'[d] = req[d]
      /\ \A d \in Calls \ {c} : Showtimes!Sent(d)' = Showtimes!Sent(d)
      /\ Showtimes!Sent(c)' = 1 .. n
      /\ tracked \subseteq tracked' /\ tracked' \subseteq tracked \union ({c} \X (1 .. n))
  <2>1. ShowType
    BY DEF ShowInv
  <2> QED
    BY <1>0, <2>1, SendMoves
<1>2. /\ handled[c] # Nothing /\ starting # c /\ entry # c /\ Showtimes!InFlight(c)
      /\ 0 \in Showtimes!Sent(c)
  BY <1>0, Flying, HandlersAre
<1>3. ~Cancelling /\ ~Cancelling' /\ aborting = {} /\ aborting' = {}
  BY DEF Cancelling, ShowInv, Aborts
<1>4. handled[c] = "nav" => c = navigated
  BY <1>0, <1>3 DEF ShowInv, Aborts
<1>5. /\ \A d \in Calls \ {c} : Showtimes!InFlight(d)' = Showtimes!InFlight(d)
      /\ Showtimes!InFlight(c)'
  BY <1>0, <1>1 DEF Showtimes!InFlight
<1>6. ShowType'
  <2>1. tracked' \subseteq Calls \X Calling
    BY <1>0, <1>1 DEF ShowInv, ShowType
  <2> QED
    BY <1>1, <1>3, <2>1 DEF ShowInv, ShowType
<1>7. Begun'
  <2>1. \A d \in Calls : handled[d] = Nothing \/ starting = d \/ entry = d
                            => Untouched(d) /\ d # c
    BY <1>2 DEF ShowInv, Begun
  <2>2. \A d \in Calls \ {c} : Untouched(d) => Untouched(d)'
    BY <1>1 DEF Untouched
  <2> QED
    BY <2>1, <2>2 DEF ShowInv, Begun
<1>8. Aborts'
  <2>1. req'[c][0] # "sent"
    BY <1>0, <1>1 DEF Showtimes!Sent
  <2>2. \A d \in Calls : req'[d][0] = "sent" => <<d, 0>> \in tracked'
    BY <1>1, <1>3, <2>1 DEF ShowInv, Aborts
  <2>3. \A d \in Calls \ {c}, j \in Calling : <<d, j>> \in tracked' => <<d, j>> \in tracked
    BY <1>1
  <2>4. \A d \in Calls, j \in Calling :
           handled[d] = "nav" /\ d # navigated /\ req'[d][j] = "sent" => <<d, j>> \notin tracked'
    BY <1>1, <1>4, <2>3 DEF ShowInv, Aborts
  <2> QED
    BY <1>3, <2>2, <2>4 DEF Aborts
<1>9. Meets'
  BY <1>2, <1>5 DEF ShowInv, Meets, Showtimes!Shares
<1>10. \A d \in Calls \ {c} : handled[d] \in Showtimes!Movies /\ Showtimes!InFlight(d) => d \in shaken
  BY <1>2 DEF ShowInv, Meets, Showtimes!Shares
<1>11. c \notin shaken => Before(c) /\ shows[c] = 0
  BY <1>2 DEF ShowInv, Counts, Parted
<1>12. Cardinality(1 .. n) = n /\ n \in Nat
  BY FS_Interval, HandlersAre
<1>13. c \notin shaken => Parted(c)' /\ Open(c)' = number'
  BY <1>0, <1>1, <1>11, <1>12 DEF Parted, Open, Before
<1>14. Counts'
  <2>1. \A d \in Calls \ {c} : handled[d] \notin Showtimes!Movies /\ Showtimes!InFlight(d)
                                 => shows[d] = 0 /\ Showtimes!Sent(d) = {1}
    BY DEF ShowInv, Counts
  <2>2. Open(c)' = number' => Open(c)' <= number'
    BY <1>12
  <2> QED
    BY <1>1, <1>5, <1>10, <1>11, <1>13, <2>1, <2>2 DEF Counts
<1>15. Spins'
  <2>1. ASSUME navigated # Nothing, navigated \notin shaken
        PROVE  /\ Showtimes!InFlight(navigated)' => Before(navigated)' \/ Open(navigated)' = number'
               /\ Showtimes!InFlight(navigated)' /\ navigated \notin hurt => spinner
               /\ ~Showtimes!InFlight(navigated)' /\ navigated \notin puzzled => ~spinner
    <3>1. /\ Showtimes!InFlight(navigated) /\ navigated \notin hurt => spinner
          /\ ~Showtimes!InFlight(navigated) /\ navigated \notin puzzled => ~spinner
          /\ navigated \in Calls /\ handled[navigated] = "nav"
      BY <1>3, <2>1 DEF ShowInv, Spins, ShowType, Begun
    <3>2. CASE navigated = c
      BY <1>2, <1>5, <1>13, <2>1, <3>1, <3>2
    <3>3. CASE navigated # c
      <4>1. ~Showtimes!InFlight(navigated) /\ navigated' = navigated
        BY <1>10, <2>1, <3>1, <3>3, HandlersAre
      <4> QED
        BY <1>5, <3>1, <3>3, <4>1
    <3> QED
      BY <3>2, <3>3
  <2>2. ASSUME list = "list", \A d \in Calls : handled[d] = "change" => d \notin shaken
        PROVE  spinner <=> \E d \in Calls : handled[d] = "change" /\ Showtimes!InFlight(d)'
    BY <1>5, <2>2, HandlersAre DEF ShowInv, Spins
  <2> QED
    BY <2>1, <2>2 DEF Spins
<1> QED
  BY <1>6, <1>7, <1>8, <1>9, <1>14, <1>15 DEF ShowInv

\* A request is aborted.
LEMMA AbortStep ==
    ASSUME ShowInv, NEW c \in Calls, NEW i \in Calling, Showtimes!Abort(c, i)
    PROVE  ShowInv'
<1>1. /\ <<c, i>> \in aborting /\ aborting' = aborting \ {<<c, i>>}
      /\ UNCHANGED <<list, location, handled, entry, starting, byId, navigated>>
  BY DEF Showtimes!Abort
<1>2. Cancelling /\ req[c][i] = "sent"
  BY <1>1 DEF ShowInv, Aborts
<1>3. handled[c] \in Showtimes!Movies
  BY <1>2, OnMovie, Flying, HandlersAre
<1>4. CASE i > 0 /\ Showtimes!PartReply(c, i, FALSE)
  <2>1. Showtimes!Done(c, i) /\ shaken' = shaken
    BY <1>4 DEF Showtimes!PartReply
  <2>2. i \in 1 .. MaxParts /\ FALSE \in BOOLEAN
    BY <1>4, HandlersAre
  <2> QED
    BY <1>1, <1>2, <1>3, <1>4, <2>1, <2>2, PartStep DEF Ending
<1>5. CASE i = 0 /\ Showtimes!Failed(c) /\ Showtimes!Done(c, i) /\ hurt' = hurt \union {c}
           /\ UNCHANGED <<number, succeeded, complete, shaken, puzzled>>
  <2>1. Ending(c, i) /\ hurt \subseteq hurt' /\ hurt' \subseteq Calls
    BY <1>1, <1>5 DEF Ending, ShowInv, ShowType
  <2> QED
    BY <1>2, <1>3, <1>5, <2>1, UncountedStep
<1>6. CASE Showtimes!Done(c, i) /\ UNCHANGED <<number, succeeded, complete, shaken, puzzled, hurt, shows, spinner>>
  <2>1. Ending(c, i) /\ hurt \subseteq hurt' /\ hurt' \subseteq Calls
    BY <1>1, <1>6 DEF Ending, ShowInv, ShowType
  <2> QED
    BY <1>2, <1>3, <1>6, <2>1, UncountedStep
<1> QED
  BY <1>4, <1>5, <1>6 DEF Showtimes!Abort, Showtimes!counts, Showtimes!ui, Showtimes!history

\* A request is answered, well or not.
LEMMA ReplyStep ==
    ASSUME ShowInv, NEW c \in Calls, NEW i \in Calling, Showtimes!Reply(c, i)
    PROVE  ShowInv'
<1>1. /\ starting = Nothing /\ req[c][i] = "sent"
      /\ UNCHANGED <<list, location, handled, entry, starting, aborting, byId, navigated>>
  BY DEF Showtimes!Reply, Showtimes!control
<1>2. aborting = {} /\ aborting' = aborting \ {<<c, i>>}
  BY <1>1 DEF ShowInv, Aborts, Cancelling
<1>3. ASSUME handled[c] \notin Showtimes!Movies, NEW ok \in BOOLEAN, Showtimes!TheatreReply(c, ok)
      PROVE  ShowInv'
  BY <1>1, <1>2, <1>3, TheatreStep
<1>4. ASSUME handled[c] \in Showtimes!Movies, i # 0, NEW ok \in BOOLEAN, Showtimes!PartReply(c, i, ok)
      PROVE  ShowInv'
  <2>1. Showtimes!Done(c, i) /\ shaken' = shaken
    BY <1>4 DEF Showtimes!PartReply
  <2>2. i \in 1 .. MaxParts
    BY <1>4, HandlersAre
  <2> QED
    BY <1>1, <1>2, <1>4, <2>1, <2>2, PartStep DEF Ending
<1>5. ASSUME handled[c] \in Showtimes!Movies, i = 0, Showtimes!MovieReply(c)
      PROVE  ShowInv'
  <2>1. \/ \E n \in 1 .. MaxParts :
             /\ number' = n /\ Showtimes!Send(c, 1 .. n)
             /\ UNCHANGED <<succeeded, complete, shows, spinner, shaken, puzzled, hurt>>
        \/ /\ hurt' = hurt \union {c} /\ Showtimes!Done(c, 0) /\ Showtimes!Failed(c)
           /\ UNCHANGED <<number, succeeded, complete, shaken, puzzled>>
        \/ /\ puzzled' = puzzled \union {c} /\ Showtimes!Done(c, 0)
           /\ UNCHANGED <<number, succeeded, complete, shows, spinner, shaken, hurt>>
    BY <1>5 DEF Showtimes!MovieReply, Showtimes!counts, Showtimes!ui, Showtimes!history
  <2>2. ASSUME NEW n \in 1 .. MaxParts, number' = n, Showtimes!Send(c, 1 .. n),
               UNCHANGED <<succeeded, complete, shows, spinner, shaken, puzzled, hurt>>
        PROVE  ShowInv'
    BY <1>1, <1>5, <2>2, MovieAsks
  <2>3. CASE hurt' = hurt \union {c} /\ Showtimes!Done(c, 0) /\ Showtimes!Failed(c)
             /\ UNCHANGED <<number, succeeded, complete, shaken, puzzled>>
    <3>1. Ending(c, i) /\ hurt \subseteq hurt' /\ hurt' \subseteq Calls
      BY <1>1, <1>2, <1>5, <2>3 DEF Ending, ShowInv, ShowType
    <3> QED
      BY <1>1, <1>5, <2>3, <3>1, UncountedStep
  <2>4. CASE puzzled' = puzzled \union {c} /\ Showtimes!Done(c, 0)
             /\ UNCHANGED <<number, succeeded, complete, shows, spinner, shaken, hurt>>
    <3>1. Ending(c, i) /\ hurt \subseteq hurt' /\ hurt' \subseteq Calls
      BY <1>1, <1>2, <1>5, <2>4 DEF Ending, ShowInv, ShowType
    <3> QED
      BY <1>1, <1>5, <2>4, <3>1, UncountedStep
  <2> QED
    BY <2>1, <2>2, <2>3, <2>4
<1> QED
  BY <1>3, <1>4, <1>5 DEF Showtimes!Reply

\* Every step keeps the invariant.
LEMMA ShowNext == ShowInv /\ [Showtimes!Next]_(Showtimes!vars) => ShowInv'
<1> SUFFICES ASSUME ShowInv, [Showtimes!Next]_(Showtimes!vars) PROVE ShowInv'
  OBVIOUS
<1>1. CASE UNCHANGED Showtimes!vars
  <2>1. Same /\ UNCHANGED <<location, entry, starting, byId, shows, spinner, puzzled>>
    BY <1>1 DEF Showtimes!vars, Showtimes!control, Showtimes!net, Showtimes!counts, Showtimes!ui,
                Showtimes!history, Same
  <2>2. ShowType' /\ Begun' /\ (Cancelling' <=> Cancelling)
    BY <2>1 DEF Same, ShowInv, ShowType, Begun, Untouched, Cancelling
  <2> QED
    BY <2>1, <2>2, SameStep
<1>2. ASSUME NEW c \in Calls, Showtimes!ViewerCalls(c) PROVE ShowInv'
  <2>1. CASE Showtimes!LoadShowtimes(c)
    BY <2>1, CallStep DEF Showtimes!LoadShowtimes, Showtimes!Begins
  <2>2. CASE Showtimes!DefaultNavigation(c)
    BY <2>2, CallStep DEF Showtimes!DefaultNavigation, Showtimes!Begins
  <2>3. CASE Showtimes!LoadMovieShowtimes(c)
    BY <2>3, CallStep DEF Showtimes!LoadMovieShowtimes, Showtimes!Begins
  <2>4. CASE Showtimes!GetNewLocation(c)
    BY <2>4, CallStep DEF Showtimes!GetNewLocation
  <2>5. CASE Showtimes!MovieShowtimesHandler(c)
    BY <2>5, CallStep DEF Showtimes!MovieShowtimesHandler
  <2> QED
    BY <1>2, <2>1, <2>2, <2>3, <2>4, <2>5 DEF Showtimes!ViewerCalls
<1>3. ASSUME NEW c \in Calls, Showtimes!Device(c) PROVE ShowInv'
  BY <1>3, StartStep, AbortStep, ReplyStep DEF Showtimes!Device
<1> QED
  BY <1>1, <1>2, <1>3, EntryStep, DismissStep DEF Showtimes!Next

\* The invariant holds on a page that was just loaded.
LEMMA ShowInit == Showtimes!Init => ShowInv
<1> SUFFICES ASSUME Showtimes!Init PROVE ShowInv
  OBVIOUS
<1>1. DOMAIN Showtimes!Handlers = {"root", "list", "movie"}
  BY DEF Showtimes!Handlers
<1>2. ShowType /\ ~Cancelling
  <2>1. /\ req = [c \in Calls |-> [i \in Calling |-> "none"]] /\ list \in {"root", "list", "movie"}
        /\ handled = [c \in Calls |-> Nothing] /\ complete = [c \in Calls |-> 0]
        /\ shows = [c \in Calls |-> 0] /\ starting = Nothing /\ entry = Nothing /\ navigated = Nothing
        /\ aborting = {} /\ tracked = {} /\ byId = {} /\ shaken = {} /\ puzzled = {} /\ hurt = {}
        /\ number = 0 /\ succeeded = 0 /\ spinner = FALSE /\ location \in BOOLEAN
    BY <1>1 DEF Showtimes!Init
  <2>2. req \in [Calls -> [Calling -> {"none", "sent", "done"}]]
    BY <2>1
  <2>3. handled \in [Calls -> Showtimes!Kinds \union {Nothing}]
    BY <2>1
  <2>4. complete \in [Calls -> Nat] /\ shows \in [Calls -> 0 .. 2]
    BY <2>1
  <2>5. ~Cancelling
    BY <2>1 DEF Cancelling
  <2> QED
    BY <2>1, <2>2, <2>3, <2>4, <2>5 DEF ShowType
<1>3. \A c \in Calls : Untouched(c) /\ ~Showtimes!InFlight(c)
  BY DEF Showtimes!Init, Untouched, Showtimes!InFlight, Showtimes!Sent
<1>4. Begun /\ Aborts
  BY <1>2, <1>3, HandlersAre DEF Showtimes!Init, Begun, Aborts, Untouched
<1>5. Meets /\ Counts /\ Spins
  BY <1>2, <1>3 DEF Showtimes!Init, Meets, Counts, Spins
<1> QED
  BY <1>2, <1>4, <1>5 DEF ShowInv

\* What is shown of a call is shown at a reply of it, the last it counts; or at a
\* text entry without a location, before anything was asked for.
LEMMA WhoIsShown ==
    ASSUME ShowInv, [Showtimes!Next]_(Showtimes!vars), NEW c \in Calls, shows'[c] # shows[c]
    PROVE  \/ entry = c /\ handled[c] = "browse" /\ req' = req
           \/ \E i \in Calling :
                 /\ req[c][i] = "sent" /\ Showtimes!Done(c, i)
                 /\ handled[c] \in Showtimes!Movies => i # 0 /\ complete[c] + 1 = number
<1>1. PICK d \in Calls :
         \/ Showtimes!ViewerCalls(d) \/ Showtimes!EnterZip(d) \/ Showtimes!CancelEntry(d)
         \/ Showtimes!Dismiss(d) \/ Showtimes!Device(d)
  BY DEF Showtimes!Next, Showtimes!vars, Showtimes!ui
<1>2. ~Showtimes!ViewerCalls(d) /\ ~Showtimes!Dismiss(d) /\ ~Showtimes!Start(d)
  BY DEF Showtimes!ViewerCalls, Showtimes!LoadShowtimes, Showtimes!DefaultNavigation,
         Showtimes!LoadMovieShowtimes, Showtimes!GetNewLocation, Showtimes!MovieShowtimesHandler,
         Showtimes!Call, Showtimes!Dismiss, Showtimes!Start
<1>3. CASE Showtimes!EnterZip(d) \/ Showtimes!CancelEntry(d)
  <2>1. entry = d /\ req' = req /\ Showtimes!NoLocation(d)
    BY <1>3 DEF Showtimes!EnterZip, Showtimes!CancelEntry, Showtimes!net, Showtimes!ui
  <2> QED
    BY <2>1, NoLocationMoves
<1>4. ASSUME NEW i \in Calling, req[d][i] = "sent", i # 0, NEW ok \in BOOLEAN, Showtimes!PartReply(d, i, ok)
      PROVE  d = c /\ complete[c] + 1 = number /\ Showtimes!Done(c, i)
  <2>1. PartEnds(d, ok) /\ Showtimes!Done(d, i)
    BY <1>4, PartMoves DEF ShowInv
  <2> QED
    BY <2>1 DEF PartEnds, Ends
<1>5. ASSUME NEW i \in Calling, Showtimes!Abort(d, i)
      PROVE  req[d][i] = "sent" /\ i # 0 /\ Showtimes!PartReply(d, i, FALSE)
  <2>1. req[d][i] = "sent"
    BY <1>5 DEF Showtimes!Abort, ShowInv, Aborts
  <2>2. ~Showtimes!Failed(d) /\ ~UNCHANGED Showtimes!ui
    BY DEF Showtimes!Failed, Showtimes!ui
  <2>3. i > 0 /\ Showtimes!PartReply(d, i, FALSE)
    BY <1>5, <2>2 DEF Showtimes!Abort
  <2>4. i # 0
    BY <2>3, HandlersAre
  <2> QED
    BY <2>1, <2>3, <2>4
<1>6. ASSUME NEW i \in Calling, Showtimes!Reply(d, i)
      PROVE  /\ req[d][i] = "sent" /\ d = c /\ Showtimes!Done(c, i)
             /\ handled[c] \in Showtimes!Movies => i # 0 /\ complete[c] + 1 = number
  <2>1. req[d][i] = "sent"
    BY <1>6 DEF Showtimes!Reply
  <2>2. ASSUME handled[d] \notin Showtimes!Movies, NEW ok \in BOOLEAN, Showtimes!TheatreReply(d, ok)
        PROVE  d = c /\ Showtimes!Done(c, i)
    <3>1. i = 1 /\ Showtimes!Done(d, 1)
      BY <2>1, <2>2, Flying DEF ShowInv, Counts, Showtimes!TheatreReply
    <3>2. Showtimes!Failed(d) \/ Showtimes!Shown(d) \/ Showtimes!Success(d)
      BY <2>2 DEF Showtimes!TheatreReply
    <3>3. \A b \in Calls \ {d} : shows'[b] = shows[b]
      BY <3>2, FailedEnds, ShownEnds, SuccessEnds DEF ShowInv, Ends
    <3> QED
      BY <3>1, <3>3
  <2>3. ~Showtimes!MovieReply(d)
    BY DEF Showtimes!MovieReply, Showtimes!Failed, Showtimes!ui
  <2> QED
    BY <1>4, <1>6, <2>1, <2>2, <2>3 DEF Showtimes!Reply
<1> QED
  BY <1>1, <1>2, <1>3, <1>4, <1>5, <1>6 DEF Showtimes!Device

\* One whose counters are its own is shown once, with nothing left to come.
LEMMA AloneStep ==
    ASSUME ShowInv, [Showtimes!Next]_(Showtimes!vars), NEW c \in Calls,
           shows'[c] # shows[c], c \notin shaken
    PROVE  shows[c] = 0 /\ \A i \in Calling : req'[c][i] # "sent"
<1>1. CASE entry = c /\ handled[c] = "browse" /\ req' = req
  BY <1>1 DEF ShowInv, Begun, Untouched
<1>2. ASSUME NEW i \in Calling, req[c][i] = "sent", Showtimes!Done(c, i),
             handled[c] \in Showtimes!Movies => i # 0 /\ complete[c] + 1 = number
      PROVE  shows[c] = 0 /\ \A j \in Calling : req'[c][j] # "sent"
  <2>1. shows[c] = 0 /\ Showtimes!Sent(c) = {i}
    <3>1. CASE handled[c] \in Showtimes!Movies
      <4>1. i \in 1 .. MaxParts
        BY <1>2, <3>1, HandlersAre
      <4> QED
        BY <1>2, <3>1, <4>1, LastReply
    <3>2. CASE handled[c] \notin Showtimes!Movies
      BY <1>2, <3>2, Flying DEF ShowInv, Counts
    <3> QED
      BY <3>1, <3>2
  <2>2. \A j \in Calling : req'[c][j] = "sent" <=> req[c][j] = "sent" /\ j # i
    BY <1>2, DoneMoves DEF ShowInv
  <2> QED
    BY <2>1, <2>2 DEF Showtimes!Sent
<1> QED
  BY <1>1, <1>2, WhoIsShown

\* An older date is shown by a request that was not tracked.
LEMMA LatestStep ==
    ASSUME ShowInv, [Showtimes!Next]_(Showtimes!vars), NEW c \in Calls,
           handled[c] = "nav", shows'[c] # shows[c], c # navigated
    PROVE  \E i \in Showtimes!Sent(c) : <<c, i>> \notin tracked
<1>1. PICK i \in Calling : req[c][i] = "sent"
  BY WhoIsShown
<1> QED
  BY <1>1 DEF ShowInv, Aborts, Showtimes!Sent

\* However many calls, parts and requests of one millisecond: a call that has the
\* counters to itself is shown once, with all replies in; and an older date's times
\* take the place of a newer one's only by a request that was not tracked.
THEOREM ShowtimesTheorem == Showtimes!Spec => Showtimes!AloneIsWhole /\ Showtimes!LatestShown
<1>1. ShowInv /\ [Showtimes!Next]_(Showtimes!vars) =>
        [\A c \in Calls : shows'[c] # shows[c] /\ c \notin shaken
            => shows[c] = 0 /\ \A i \in 0 .. MaxParts : req'[c][i] # "sent"]_(Showtimes!vars)
  BY AloneStep
<1>2. ShowInv /\ [Showtimes!Next]_(Showtimes!vars) =>
        [\A c \in Calls : handled[c] = "nav" /\ shows'[c] # shows[c] /\ c # navigated
            => \E i \in Showtimes!Sent(c) : <<c, i>> \notin tracked]_(Showtimes!vars)
  BY LatestStep
<1> QED
  BY <1>1, <1>2, ShowInit, ShowNext, PTL
  DEF Showtimes!Spec, Showtimes!AloneIsWhole, Showtimes!LatestShown

\* The spinner covers the times while they are loading, and not after, for any
\* calls and parts.
THEOREM SpinnerTheorem == Showtimes!Spec => []Showtimes!SpinnerHonest
<1>1. ShowInv => Showtimes!SpinnerHonest
  BY DEF ShowInv, Spins, Cancelling, Showtimes!SpinnerHonest
<1> QED
  BY <1>1, ShowInit, ShowNext, PTL DEF Showtimes!Spec

-----------------------------------------------------------------------------
\* The dates.

\* The bar's items are a day of 24 hours apart.
LEMMA Navigation ==
    ASSUME NEW date \in Int
    PROVE  Dates!DateNavigation(date) = [i \in 1 .. 8 |-> date + 24 * (i - 2)]
<1> DEFINE Bar(d) == d = [i \in 1 .. 8 |-> IF i = 1 THEN Dates!PrevDay(date) ELSE Dates!NextDay(d[i - 1])]
           days == [i \in 1 .. 8 |-> date + 24 * (i - 2)]
<1>1. Dates!DateNavigation(date) = CHOOSE d : Bar(d)
  BY DEF Dates!DateNavigation
<1>2. Bar(days)
  BY DEF Dates!PrevDay, Dates!NextDay
<1>3. ASSUME NEW d, Bar(d) PROVE d = days
  <2> HIDE DEF days
  <2> USE DEF Dates!PrevDay, Dates!NextDay
  <2>1. d[1] = date - 24 /\ d[2] = date
    BY <1>3
  <2>2. d[3] = date + 24 /\ d[4] = date + 48
    BY <1>3, <2>1
  <2>3. d[5] = date + 72 /\ d[6] = date + 96
    BY <1>3, <2>2
  <2>4. d[7] = date + 120 /\ d[8] = date + 144
    BY <1>3, <2>3
  <2>5. \A i \in 1 .. 8 : d[i] = date + 24 * (i - 2)
    BY <2>1, <2>2, <2>3, <2>4
  <2>6. d = [i \in 1 .. 8 |-> d[i]]
    BY <1>3
  <2> QED
    BY <2>5, <2>6 DEF days
<1> HIDE DEF days, Bar
<1>4. Bar(CHOOSE d : Bar(d))
  BY <1>2
<1> QED
  BY <1>1, <1>3, <1>4 DEF days

\* The day never goes back, and a day of 24 hours is a day of the clock's unless
\* the clock is changed in it.
LEMMA DaysGoOn ==
    ASSUME change \in Int, shift \in {-1, 1}, NEW t \in Int
    PROVE  /\ Dates!DayOf(t) \in Int
           /\ Dates!DayOf(t) <= Dates!DayOf(t + 1)
           /\ \/ Dates!DayOf(t + 24) = Dates!DayOf(t) + 1
              \/ /\ t < change /\ change <= t + 24
                 /\ Dates!HourOf(t) = (IF shift > 0 THEN 23 ELSE 0)
BY DEF Dates!DayOf, Dates!HourOf, Dates!Local

\* A page whose template was not processed twice has the times of the day it was
\* made on, or of the earlier day of the list it comes from.
DatesInv ==
    /\ clock \in Int /\ change \in Int /\ shift \in {-1, 1}
    /\ listed \in Int /\ listed <= Dates!Today
    /\ moviePage # Nothing =>
          /\ moviePage \in [date : Int, item : 1 .. 8, times : Int, nearby : Int,
                           chosen : BOOLEAN, missed : BOOLEAN, twice : BOOLEAN]
          /\ moviePage.nearby \in listed .. Dates!Today
    /\ Dates!TimesOfItem

LEMMA DatesInit == Dates!Init => DatesInv
<1> SUFFICES ASSUME Dates!Init PROVE DatesInv
  OBVIOUS
<1>1. clock \in Int /\ change \in Int /\ shift \in {-1, 1}
  BY PagesAssumption DEF Dates!Init, Dates!StartsAssumption
<1>2. Dates!Today \in Int
  BY <1>1, DaysGoOn DEF Dates!Today
<1> QED
  BY <1>1, <1>2 DEF Dates!Init, DatesInv, Dates!TimesOfItem

\* A page that is made of a day between that of the list and today.
LEMMA PageMade ==
    ASSUME DatesInv, NEW date \in Int, NEW day \in listed .. Dates!Today, NEW again \in BOOLEAN,
           moviePage' = Dates!ProcessTemplate(date, day, again),
           again \/ date = clock,
           UNCHANGED <<clock, change, shift, listed>>
    PROVE  DatesInv'
<1>1. /\ moviePage'.date = date /\ moviePage'.item = 2 /\ moviePage'.times = day
      /\ moviePage'.nearby = day /\ moviePage'.chosen = FALSE
      /\ moviePage'.missed = FALSE /\ moviePage'.twice = again
  BY DEF Dates!ProcessTemplate, Dates!Current
<1>2. Dates!Today' = Dates!Today /\ Dates!Today \in Int
  BY DaysGoOn DEF DatesInv, Dates!Today, Dates!DayOf, Dates!Local
<1>3. Dates!DateNavigation(date)[2] = date
  BY Navigation
<1>4. Dates!TimesOfItem'
  <2>1. Dates!DayOf(date)' = Dates!DayOf(date)
    BY DEF Dates!DayOf, Dates!Local
  <2>2. CASE again
    BY <1>1, <2>2 DEF Dates!TimesOfItem
  <2>3. CASE ~again
    BY <1>1, <1>2, <1>3, <2>1, <2>3 DEF Dates!TimesOfItem, Dates!Today, DatesInv
  <2> QED
    BY <2>2, <2>3
<1>5. moviePage' \in [date : Int, item : 1 .. 8, times : Int, nearby : Int,
                      chosen : BOOLEAN, missed : BOOLEAN, twice : BOOLEAN]
  BY <1>2 DEF Dates!ProcessTemplate, Dates!Current, DatesInv
<1> QED
  BY <1>1, <1>2, <1>4, <1>5 DEF DatesInv

LEMMA DatesNext == DatesInv /\ [Dates!Next]_(Dates!vars) => DatesInv'
<1> SUFFICES ASSUME DatesInv, [Dates!Next]_(Dates!vars) PROVE DatesInv'
  OBVIOUS
<1>0. Dates!Today \in Int /\ listed \in listed .. Dates!Today /\ Dates!Today \in listed .. Dates!Today
  BY DaysGoOn DEF DatesInv, Dates!Today
<1>1. CASE UNCHANGED Dates!vars
  BY <1>1 DEF DatesInv, Dates!vars, Dates!TimesOfItem, Dates!Today, Dates!DayOf, Dates!Local
<1>2. CASE Dates!LoadShowtimes
  <2>1. Dates!Today' = Dates!Today
    BY <1>2 DEF Dates!LoadShowtimes, Dates!Today, Dates!DayOf, Dates!Local
  <2> QED
    BY <1>0, <1>2, <2>1 DEF Dates!LoadShowtimes, DatesInv, Dates!TimesOfItem
<1>3. ASSUME NEW day \in listed .. Dates!Today, Dates!Load(day) PROVE DatesInv'
  BY <1>3, PageMade DEF Dates!Load, DatesInv
<1>4. CASE Dates!LoadMovieShowtimes
  BY <1>0, <1>3, <1>4 DEF Dates!LoadMovieShowtimes
<1>5. CASE Dates!NewTheatre
  BY <1>3, <1>5 DEF Dates!NewTheatre, DatesInv
<1>6. CASE Dates!SuccessAgain
  <2>1. moviePage.date \in Int /\ moviePage.nearby \in listed .. Dates!Today
    BY <1>6 DEF Dates!SuccessAgain, DatesInv
  <2>2. Dates!DateNavigation(moviePage.date) = [i \in 1 .. 8 |-> moviePage.date + 24 * (i - 2)]
    BY <2>1, Navigation
  <2>3. Dates!DateNavigation(moviePage.date)[8] \in Int
    BY <2>1, <2>2
  <2> QED
    BY <1>6, <2>1, <2>3, PageMade DEF Dates!SuccessAgain
<1>7. ASSUME NEW i \in 1 .. 8, Dates!MovieShowtimesHandler(i) PROVE DatesInv'
  <2> USE <1>7 DEF Dates!MovieShowtimesHandler
  <2> DEFINE day == Dates!DayOf(Dates!DateNavigation(moviePage.date)[i])
  <2>0. day \in Int
    BY Navigation, DaysGoOn DEF DatesInv
  <2>1. /\ moviePage' \in [date : Int, item : 1 .. 8, times : Int, nearby : Int,
                           chosen : BOOLEAN, missed : BOOLEAN, twice : BOOLEAN]
        /\ moviePage'.date = moviePage.date /\ moviePage'.item = i
        /\ moviePage'.nearby = moviePage.nearby
        /\ moviePage'.chosen \in {TRUE, moviePage.chosen}
        /\ moviePage'.missed \in BOOLEAN /\ moviePage'.twice = moviePage.twice
        /\ \/ moviePage'.missed
           \/ moviePage'.chosen /\ moviePage'.times = day
    <3> HIDE DEF day
    <3>1. \/ moviePage' = [moviePage EXCEPT !.item = i, !.times = day, !.chosen = TRUE, !.missed = FALSE]
          \/ moviePage' = [moviePage EXCEPT !.item = i, !.missed = TRUE]
      BY DEF day
    <3> QED
      BY <2>0, <3>1 DEF DatesInv
  <2>2. Dates!Today' = Dates!Today
    BY DEF Dates!Today, Dates!DayOf, Dates!Local
  <2>3. Dates!TimesOfItem'
    BY <2>1 DEF Dates!TimesOfItem, Dates!DayOf, Dates!Local
  <2> QED
    BY <2>1, <2>2, <2>3 DEF DatesInv
<1>8. CASE Dates!Tick
  <2>1. Dates!Today <= Dates!Today' /\ Dates!Today' \in Int
    BY <1>8, DaysGoOn DEF Dates!Tick, Dates!Today, DatesInv, Dates!DayOf, Dates!Local
  <2> QED
    BY <1>0, <1>8, <2>1 DEF Dates!Tick, DatesInv, Dates!TimesOfItem, Dates!DayOf, Dates!Local
<1> QED
  BY <1>1, <1>2, <1>4, <1>5, <1>6, <1>7, <1>8 DEF Dates!Next

LEMMA DatesHold == DatesInv => Dates!DatesRight
<1> SUFFICES ASSUME DatesInv PROVE Dates!DatesRight
  OBVIOUS
<1>1. ASSUME moviePage # Nothing PROVE Dates!BarRight
  <2> DEFINE bar == Dates!DateNavigation(moviePage.date)
  <2>1. moviePage.date \in Int /\ bar = [i \in 1 .. 8 |-> moviePage.date + 24 * (i - 2)]
    BY <1>1, Navigation DEF DatesInv
  <2>2. bar[2] = moviePage.date
    BY <2>1
  <2>3. \A i \in 1 .. 7 : bar[i] \in Int /\ bar[i + 1] = bar[i] + 24
    BY <2>1
  <2> HIDE DEF bar
  <2>4. ASSUME NEW i \in 1 .. 7
        PROVE  \/ Dates!DayOf(bar[i + 1]) = Dates!DayOf(bar[i]) + 1
               \/ /\ bar[i] < change /\ change <= bar[i + 1]
                  /\ Dates!HourOf(bar[i]) = (IF shift > 0 THEN 23 ELSE 0)
    <3>1. bar[i] \in Int /\ bar[i + 1] = bar[i] + 24
      BY <2>3
    <3>2. change \in Int /\ shift \in {-1, 1}
      BY DEF DatesInv
    <3>3. \/ Dates!DayOf(bar[i] + 24) = Dates!DayOf(bar[i]) + 1
          \/ /\ bar[i] < change /\ change <= bar[i] + 24
             /\ Dates!HourOf(bar[i]) = (IF shift > 0 THEN 23 ELSE 0)
      BY <3>1, <3>2, DaysGoOn
    <3> QED
      BY <3>1, <3>3
  <2> QED
    BY <2>2, <2>4 DEF bar, Dates!BarRight, Dates!Current
<1> QED
  BY <1>1 DEF Dates!DatesRight, DatesInv, Dates!BarRight

\* The day that is marked is the day of the times, and the bar goes on by a day at
\* every item but where the clock is changed, for any starts and changes.
THEOREM DatesTheorem == Dates!Spec => []Dates!DatesRight
BY DatesInit, DatesNext, DatesHold, PTL DEF Dates!Spec

-----------------------------------------------------------------------------
\* The templates.

HIDE ShowtimesAssumed DEF Showtimes!PartsAssumption, Showtimes!CallsAssumption, Calling

LEMMA TemplatesCount == \A S : Templates!Cardinality(S) = Cardinality(S)
BY Zenon DEF Templates!Cardinality, Cardinality

\* What FlattenSeq has joined, one sequence after another.
Joins(k, s, f) == f = [i \in 1 .. k |-> IF i = 1 THEN s[i] ELSE f[i - 1] \o s[i]]
Joined(s) == CHOOSE f : Joins(Len(s), s, f)

LEMMA JoinedIs ==
    ASSUME NEW U, NEW s \in Seq(Seq(U)), s # <<>>
    PROVE  /\ Templates!FlattenSeq(s) = Joined(s)[Len(s)]
           /\ Joined(s)[1] = s[1]
           /\ \A i \in 2 .. Len(s) : Joined(s)[i] = Joined(s)[i - 1] \o s[i]
           /\ \A i \in 1 .. Len(s) : Joined(s)[i] \in Seq(U)
<1> DEFINE n == Len(s)
           Bad == {k \in 1 .. n : ~ \E f : Joins(k, s, f)}
<1>0. n \in Nat \ {0}
  OBVIOUS
<1>n. n = Len(s)
  OBVIOUS
<1> HIDE DEF n
<1>1. ASSUME NEW k \in Bad, \A j \in Bad : k <= j PROVE FALSE
  <2>1. CASE k = 1
    <3>1. Joins(1, s, [i \in 1 .. 1 |-> s[1]])
      BY DEF Joins
    <3> QED
      BY <2>1, <3>1, <1>1
  <2>2. CASE k > 1
    <3>1. k - 1 \in 1 .. n /\ k - 1 \notin Bad
      BY <1>0, <1>1, <2>2
    <3>2. PICK f : Joins(k - 1, s, f)
      BY <3>1
    <3> DEFINE g == [i \in 1 .. k |-> IF i < k THEN f[i] ELSE f[k - 1] \o s[k]]
    <3>3. \A i \in 1 .. (k - 1) : f[i] = IF i = 1 THEN s[i] ELSE f[i - 1] \o s[i]
      BY <3>2 DEF Joins
    <3>4. \A i \in 1 .. k : g[i] = IF i = 1 THEN s[i] ELSE g[i - 1] \o s[i]
      <4>1. g[k] = g[k - 1] \o s[k] /\ k \in Nat
        <5>1. k \in Nat /\ k \in 1 .. k /\ k - 1 \in 1 .. k /\ ~(k < k) /\ k - 1 < k
          BY <1>0, <2>2, <1>1
        <5>2. g[k] = f[k - 1] \o s[k] /\ g[k - 1] = f[k - 1]
          BY <5>1
        <5> HIDE DEF g
        <5> QED
          BY <5>1, <5>2
      <4>2. ASSUME NEW i \in 1 .. (k - 1) PROVE g[i] = f[i] /\ (i # 1 => g[i - 1] = f[i - 1])
        BY <1>1
      <4> HIDE DEF g
      <4>3. ASSUME NEW i \in 1 .. (k - 1) PROVE g[i] = IF i = 1 THEN s[i] ELSE g[i - 1] \o s[i]
        BY <3>3, <4>2
      <4>4. k # 1
        BY <2>2
      <4>5. \A i \in 1 .. k : i = k \/ i \in 1 .. (k - 1)
        BY <4>1
      <4> QED
        BY <4>1, <4>3, <4>4, <4>5
    <3>5. g = [i \in 1 .. k |-> g[i]]
      OBVIOUS
    <3>6. Joins(k, s, g)
      <4> HIDE DEF g
      <4> QED
        BY <3>4, <3>5 DEF Joins
    <3> QED
      BY <1>1, <3>6
  <2> QED
    BY <2>1, <2>2, <1>1
<1>2. Bad = {}
  <2>1. Bad \in SUBSET Nat
    BY <1>0
  <2> HIDE DEF Bad
  <2> QED
    BY <1>1, <2>1, Least
<1>3. Joins(n, s, Joined(s))
  <2>1. \E f : Joins(n, s, f)
    <3>1. n \in 1 .. n
      BY <1>0
    <3> QED
      BY <1>2, <3>1
  <2> QED
    BY <2>1, <1>n DEF Joined
<1>4. Templates!FlattenSeq(s) = Joined(s)[n]
  BY <1>0, <1>n DEF Templates!FlattenSeq, Joined, Joins
<1> DEFINE o == Joined(s)
<1>5. \A i \in 1 .. n : o[i] = IF i = 1 THEN s[i] ELSE o[i - 1] \o s[i]
  <2> HIDE DEF o
  <2>1. Joins(n, s, o)
    BY <1>3 DEF o
  <2>2. o = [i \in 1 .. n |-> IF i = 1 THEN s[i] ELSE o[i - 1] \o s[i]]
    BY <2>1 DEF Joins
  <2> QED
    BY <2>2
<1> DEFINE Odd == {k \in 1 .. n : o[k] \notin Seq(U)}
<1>6. ASSUME NEW k \in Odd, \A j \in Odd : k <= j PROVE FALSE
  <2> HIDE DEF o
  <2>1. CASE k = 1
    BY <1>5, <1>6, <2>1
  <2>2. CASE k # 1
    <3>1. k - 1 \in 1 .. n /\ k - 1 \notin Odd /\ k \in 1 .. n
      BY <1>0, <1>6, <2>2
    <3>2. o[k - 1] \in Seq(U) /\ s[k] \in Seq(U)
      BY <3>1, <1>n
    <3>3. o[k] = o[k - 1] \o s[k]
      BY <1>5, <3>1, <2>2
    <3>4. o[k - 1] \o s[k] \in Seq(U)
      BY <3>2
    <3> QED
      BY <1>6, <3>3, <3>4
  <2> QED
    BY <2>1, <2>2
<1>7. Odd = {}
  <2>1. Odd \in SUBSET Nat
    BY <1>0
  <2> HIDE DEF Odd
  <2> QED
    BY <1>6, <2>1, Least
<1>8. 1 \in 1 .. n /\ \A i \in 2 .. n : i \in 1 .. n /\ i # 1
  BY <1>0
<1> HIDE DEF o
<1>9. /\ o[1] = s[1] /\ \A i \in 2 .. n : o[i] = o[i - 1] \o s[i]
      /\ \A i \in 1 .. n : o[i] \in Seq(U)
  BY <1>5, <1>7, <1>8
<1> QED
  BY <1>4, <1>9, <1>n DEF o

\* FlattenSeq, from the back.
LEMMA FlattenAppend ==
    ASSUME NEW U, NEW s \in Seq(Seq(U)), NEW x \in Seq(U)
    PROVE  /\ Templates!FlattenSeq(<<>>) = <<>>
           /\ Templates!FlattenSeq(s) \in Seq(U)
           /\ Templates!FlattenSeq(Append(s, x)) = Templates!FlattenSeq(s) \o x
<1>1. Templates!FlattenSeq(<<>>) = <<>>
  BY DEF Templates!FlattenSeq
<1>2. Templates!FlattenSeq(s) \in Seq(U)
  <2>1. CASE s = <<>>
    <3>1. <<>> \in Seq(U)
      OBVIOUS
    <3> QED
      BY <1>1, <2>1, <3>1
  <2>2. CASE s # <<>>
    <3>1. Len(s) \in 1 .. Len(s)
      BY <2>2
    <3> QED
      BY <2>2, <3>1, JoinedIs
  <2> QED
    BY <2>1, <2>2
<1> DEFINE t == Append(s, x)
<1>3. t \in Seq(Seq(U)) /\ t # <<>> /\ Len(t) = Len(s) + 1 /\ t[Len(s) + 1] = x
      /\ \A i \in 1 .. Len(s) : t[i] = s[i]
  <2>1. t \in Seq(Seq(U)) /\ Len(t) = Len(s) + 1
    OBVIOUS
  <2>2. t[Len(s) + 1] = x /\ \A i \in 1 .. Len(s) : t[i] = s[i]
    OBVIOUS
  <2>3. t # <<>>
    <3>1. Len(t) # 0
      BY <2>1
    <3>2. Len(<<>>) = 0
      OBVIOUS
    <3> QED
      BY <3>1, <3>2, Zenon
  <2> QED
    BY <2>1, <2>2, <2>3
<1> HIDE DEF t
<1>4. CASE s = <<>>
  <2>1. Len(s) = 0 /\ Len(t) = 1 /\ t[1] = x
    BY <1>3, <1>4
  <2>2. Templates!FlattenSeq(t) = x
    BY <2>1, <1>3, JoinedIs
  <2>3. <<>> \o x = x
    OBVIOUS
  <2> QED
    BY <1>1, <1>2, <1>4, <2>2, <2>3 DEF t
<1>5. CASE s # <<>>
  <2> DEFINE f == Joined(s)
             g == Joined(t)
             n == Len(s)
  <2>1. /\ Templates!FlattenSeq(s) = f[n] /\ f[1] = s[1]
        /\ \A i \in 2 .. n : f[i] = f[i - 1] \o s[i]
    BY <1>5, JoinedIs
  <2>2. /\ Templates!FlattenSeq(t) = g[n + 1] /\ g[1] = t[1]
        /\ \A i \in 2 .. n + 1 : g[i] = g[i - 1] \o t[i]
    BY <1>3, JoinedIs
  <2>3. n \in Nat \ {0}
    BY <1>5
  <2> HIDE DEF f, g, n
  <2> DEFINE Bad == {k \in 1 .. n : f[k] # g[k]}
  <2>4. ASSUME NEW k \in Bad, \A j \in Bad : k <= j PROVE FALSE
    <3>1. k # 1
      BY <2>1, <2>2, <2>3, <2>4, <1>3 DEF n
    <3>2. k - 1 \in 1 .. n /\ k - 1 \notin Bad /\ k \in 2 .. n /\ k \in 2 .. n + 1
      <4>1. k \in 1 .. n /\ k \in Nat
        BY <2>3, <2>4
      <4>2. k - 1 \in 1 .. n /\ k - 1 < k
        BY <2>3, <3>1, <4>1
      <4>3. k - 1 \notin Bad
        BY <2>4, <4>1, <4>2
      <4> QED
        BY <2>3, <3>1, <4>1, <4>2, <4>3
    <3>3. f[k - 1] = g[k - 1] /\ s[k] = t[k]
      BY <3>2, <1>3 DEF n
    <3> QED
      BY <2>1, <2>2, <2>4, <3>2, <3>3
  <2>5. Bad = {}
    <3>1. Bad \in SUBSET Nat
      BY <2>3
    <3> HIDE DEF Bad
    <3> QED
      BY <2>4, <3>1, Least
  <2>6. f[n] = g[n] /\ n + 1 \in 2 .. n + 1 /\ (n + 1) - 1 = n
    BY <2>3, <2>5
  <2>7. g[n + 1] = g[n] \o t[n + 1]
    BY <2>2, <2>6
  <2> QED
    BY <1>1, <1>2, <1>3, <2>1, <2>2, <2>6, <2>7 DEF t, n
<1> QED
  BY <1>4, <1>5

\* A sequence that is not empty is one less, and its last.
LEMMA FrontLast ==
    ASSUME NEW U, NEW s \in Seq(U), s # <<>>
    PROVE  /\ Templates!Front(s) \in Seq(U) /\ Templates!Last(s) \in U /\ s = Append(Templates!Front(s), Templates!Last(s))
           /\ Len(Templates!Front(s)) = Len(s) - 1
           /\ \A i \in 1 .. Len(s) - 1 : Templates!Front(s)[i] = s[i]
<1>1. Len(s) \in Nat \ {0}
  OBVIOUS
<1>2. Templates!Front(s) = SubSeq(s, 1, Len(s) - 1)
  BY DEF Templates!Front
<1>3. Templates!Front(s) \in Seq(U) /\ Len(Templates!Front(s)) = Len(s) - 1
      /\ \A i \in 1 .. Len(s) - 1 : Templates!Front(s)[i] = s[i]
  <2>1. SubSeq(s, 1, Len(s) - 1) \in Seq(U)
    BY <1>1
  <2>2. Len(SubSeq(s, 1, Len(s) - 1)) = Len(s) - 1
    <3> DEFINE m == Len(s) - 1
    <3>1. m \in Nat /\ m <= Len(s)
      BY <1>1
    <3> HIDE DEF m
    <3>2. Len(SubSeq(s, 1, m)) = m
      BY <3>1
    <3> QED
      BY <3>2 DEF m
  <2>3. \A i \in 1 .. Len(s) - 1 : SubSeq(s, 1, Len(s) - 1)[i] = s[i]
    BY <1>1
  <2> QED
    BY <1>2, <2>1, <2>2, <2>3
<1>4. Templates!Last(s) = s[Len(s)] /\ Templates!Last(s) \in U
  BY <1>1 DEF Templates!Last
<1>5. s = Append(Templates!Front(s), Templates!Last(s))
  BY <1>1, <1>3, <1>4
<1> QED
  BY <1>3, <1>4, <1>5

\* Joining, and adding at the end.
LEMMA JoinAppend ==
    ASSUME NEW V, NEW w \in Seq(V), NEW u \in Seq(V), NEW y \in V
    PROVE  w \o Append(u, y) = Append(w \o u, y) /\ w \o u \in Seq(V)
  OBVIOUS

LEMMA JoinJoin ==
    ASSUME NEW V, NEW w \in Seq(V), NEW u \in Seq(V), NEW t \in Seq(V)
    PROVE  (w \o u) \o t = w \o (u \o t)
  OBVIOUS

LEMMA JoinFront ==
    ASSUME NEW V, NEW y \in V, NEW u \in Seq(V)
    PROVE  <<y>> \o u \in Seq(V) /\ Len(<<y>> \o u) = Len(u) + 1
  OBVIOUS

\* FlattenSeq, from the front.
LEMMA FlattenFront ==
    ASSUME NEW U, NEW s \in Seq(Seq(U)), NEW x \in Seq(U)
    PROVE  Templates!FlattenSeq(<<x>> \o s) = x \o Templates!FlattenSeq(s)
<1> DEFINE Bad == {k \in Nat : \E t \in Seq(Seq(U)) :
                      Len(t) = k /\ Templates!FlattenSeq(<<x>> \o t) # x \o Templates!FlattenSeq(t)}
<1>1. ASSUME NEW k \in Bad, \A j \in Bad : k <= j PROVE FALSE
  <2>1. PICK t \in Seq(Seq(U)) : Len(t) = k /\ Templates!FlattenSeq(<<x>> \o t) # x \o Templates!FlattenSeq(t)
    BY <1>1
  <2>2. CASE t = <<>>
    <3>1. <<x>> \o t = Append(<<>>, x) /\ <<>> \in Seq(Seq(U)) /\ <<>> \o x = x /\ x \o <<>> = x
      BY <2>2
    <3>2. Templates!FlattenSeq(Append(<<>>, x)) = Templates!FlattenSeq(<<>>) \o x /\ Templates!FlattenSeq(<<>>) = <<>>
      BY <3>1, FlattenAppend
    <3> QED
      BY <2>1, <2>2, <3>1, <3>2
  <2>3. CASE t # <<>>
    <3> DEFINE u == Templates!Front(t)
               y == Templates!Last(t)
    <3>1. u \in Seq(Seq(U)) /\ y \in Seq(U) /\ t = Append(u, y) /\ Len(u) = k - 1 /\ k - 1 \in Nat
      <4>1. Len(t) \in Nat \ {0}
        BY <2>3
      <4>2. /\ Templates!Front(t) \in Seq(Seq(U)) /\ Templates!Last(t) \in Seq(U) /\ t = Append(Templates!Front(t), Templates!Last(t))
            /\ Len(Templates!Front(t)) = Len(t) - 1
        BY <2>1, <2>3, FrontLast, Zenon
      <4> QED
        BY <2>1, <4>1, <4>2
    <3> HIDE DEF u, y
    <3>2. Templates!FlattenSeq(<<x>> \o u) = x \o Templates!FlattenSeq(u)
      <4>1. k - 1 \notin Bad
        <5>1. k \in Nat /\ ~(k <= k - 1)
          BY <1>1
        <5> QED
          BY <1>1, <5>1
      <4> QED
        BY <3>1, <4>1
    <3>3. <<x>> \o t = Append(<<x>> \o u, y) /\ <<x>> \o u \in Seq(Seq(U))
      <4>1. <<x>> \in Seq(Seq(U))
        OBVIOUS
      <4>2. ASSUME NEW w \in Seq(Seq(U)) PROVE w \o Append(u, y) = Append(w \o u, y) /\ w \o u \in Seq(Seq(U))
        <5> DEFINE V == Seq(U)
        <5>1. w \in Seq(V) /\ u \in Seq(V) /\ y \in V
          BY <3>1
        <5> HIDE DEF V
        <5>2. w \o Append(u, y) = Append(w \o u, y) /\ w \o u \in Seq(V)
          BY <5>1, JoinAppend
        <5> QED
          BY <5>2 DEF V
      <4> QED
        BY <3>1, <4>1, <4>2
    <3>4. Templates!FlattenSeq(<<x>> \o t) = Templates!FlattenSeq(<<x>> \o u) \o y
      BY <3>1, <3>3, FlattenAppend
    <3>5. Templates!FlattenSeq(t) = Templates!FlattenSeq(u) \o y /\ Templates!FlattenSeq(u) \in Seq(U)
      BY <3>1, FlattenAppend
    <3> DEFINE v == Templates!FlattenSeq(u)
    <3>6. (x \o v) \o y = x \o (v \o y)
      <4>1. v \in Seq(U)
        BY <3>5
      <4>2. y \in Seq(U)
        BY <3>1
      <4> HIDE DEF v
      <4> QED
        BY <4>1, <4>2, JoinJoin, SMTT(30)
    <3> QED
      BY <2>1, <3>2, <3>4, <3>5, <3>6
  <2> QED
    BY <2>2, <2>3
<1>2. Bad = {}
  <2>1. Bad \in SUBSET Nat
    OBVIOUS
  <2> HIDE DEF Bad
  <2> QED
    BY <1>1, <2>1, Least
<1>3. Len(s) \in Nat /\ Len(s) \notin Bad
  <2>1. Len(s) \in Nat
    OBVIOUS
  <2> HIDE DEF Bad
  <2> QED
    BY <1>2, <2>1
<1> QED
  BY <1>3

\* Sequences of one element each.
LEMMA FlattenOnes ==
    ASSUME NEW U, NEW s \in Seq(U)
    PROVE  Templates!FlattenSeq([i \in 1 .. Len(s) |-> <<s[i]>>]) = s
<1> DEFINE Ones(t) == [i \in 1 .. Len(t) |-> <<t[i]>>]
           Bad == {k \in Nat : \E t \in Seq(U) : Len(t) = k /\ Templates!FlattenSeq(Ones(t)) # t}
<1>1. ASSUME NEW k \in Bad, \A j \in Bad : k <= j PROVE FALSE
  <2>1. PICK t \in Seq(U) : Len(t) = k /\ Templates!FlattenSeq(Ones(t)) # t
    BY <1>1
  <2>2. CASE t = <<>>
    <3>1. Ones(t) = <<>>
      BY <2>2
    <3> QED
      BY <2>1, <2>2, <3>1 DEF Templates!FlattenSeq
  <2>3. CASE t # <<>>
    <3> DEFINE u == Templates!Front(t)
               y == Templates!Last(t)
    <3>1. u \in Seq(U) /\ y \in U /\ t = Append(u, y) /\ Len(u) = k - 1 /\ k - 1 \in Nat
      <4>1. Len(t) \in Nat \ {0}
        BY <2>3
      <4>2. /\ Templates!Front(t) \in Seq(U) /\ Templates!Last(t) \in U /\ t = Append(Templates!Front(t), Templates!Last(t))
            /\ Len(Templates!Front(t)) = Len(t) - 1
        BY <2>1, <2>3, FrontLast, Zenon
      <4> QED
        BY <2>1, <4>1, <4>2
    <3> HIDE DEF u, y
    <3>2. Templates!FlattenSeq(Ones(u)) = u
      <4>1. k - 1 \notin Bad
        <5>1. k \in Nat /\ ~(k <= k - 1)
          BY <1>1
        <5> QED
          BY <1>1, <5>1
      <4> QED
        BY <3>1, <4>1
    <3>3. Ones(u) \in Seq(Seq(U)) /\ <<y>> \in Seq(U) /\ Ones(t) = Append(Ones(u), <<y>>)
      BY <3>1
    <3> HIDE DEF Ones
    <3>4. Templates!FlattenSeq(Ones(t)) = Templates!FlattenSeq(Ones(u)) \o <<y>>
      BY <3>3, FlattenAppend
    <3>5. u \o <<y>> = t
      BY <3>1
    <3> QED
      BY <2>1, <3>2, <3>4, <3>5
  <2> QED
    BY <2>2, <2>3
<1>2. Bad = {}
  <2>1. Bad \in SUBSET Nat
    OBVIOUS
  <2> HIDE DEF Bad
  <2> QED
    BY <1>1, <2>1, Least
<1>3. Len(s) \in Nat /\ Len(s) \notin Bad
  BY <1>2
<1> QED
  BY <1>3

\* The words of tokens and commands, the commands, and what a run of them puts out.
Symbols  == Templates!Openers \union Templates!Words \union {"<%%", "%>", "%"}
Commands == [do : {"put", "run", "insert"}, of : Seq(Symbols)]
Outputs  == {"put", "run", "insert"} \X Seq(Symbols)
Pieces   == Templates!Texts \union Templates!Tags

\* The tokens of the pieces after the k-th, and what the first k mean.
Left(t, k) == Templates!FlattenSeq([i \in 1 .. Len(t) - k |-> Templates!Source(t[k + i])])
Said(t, k) == Templates!FlattenSeq([i \in 1 .. k |-> Templates!Meaning(t[i])])

\* What a line puts out, and lines, if nothing of them is a comment.
Whole(l)  == Templates!FlattenSeq([i \in 1 .. Len(l) |-> Templates!Puts(l[i])])
Pages(ls) == Templates!FlattenSeq([i \in 1 .. Len(ls) |-> Whole(ls[i])])

\* No command of an open line is a comment, but a run may be the last of a complete one.
OpenLine(l)  == \A i \in 1 .. Len(l) : l[i].do # "put" => ~Templates!Commented(l[i].of)
EndedLine(l) == \A i \in 1 .. Len(l) : /\ l[i].do = "insert" => ~Templates!Commented(l[i].of)
                                       /\ l[i].do = "run" /\ i # Len(l) => ~Templates!Commented(l[i].of)

\* Between two pieces, and after the j-th word of a tag's body.
Between(k) ==
    /\ stag = Nothing /\ tokens = Left(template, k)
    /\ (Pages(script) \o Whole(line)) \o Templates!Text(body) = Said(template, k)
Within(k, j) ==
    /\ k < Len(template) /\ template[k + 1].is \in Templates!Openers /\ stag = template[k + 1].is
    /\ tokens = (SubSeq(template[k + 1].body, j + 1, Len(template[k + 1].body)) \o <<"%>">>)
                \o Left(template, k + 1)
    /\ body = Templates!Unescaped(SubSeq(template[k + 1].body, 1, j))
    /\ Pages(script) \o Whole(line) = Said(template, k)

\* A careful template is scanned so far, and the script says what that means.
Compiled ==
    /\ line \in Seq(Commands) /\ script \in Seq(Seq(Commands)) /\ body \in Seq(Symbols)
    /\ OpenLine(line) /\ \A i \in 1 .. Len(script) : EndedLine(script[i])
    /\ \/ \E k \in 0 .. Len(template) : Between(k)
       \/ \E k \in 0 .. Len(template) - 1 : \E j \in 0 .. Len(template[k + 1].body) : Within(k, j)

TemplatesInv ==
    /\ type \in {"<", "["} /\ template \in Seq(Pieces)
    /\ Templates!Careful => Compiled

\* A sequence with one more element.
Longer(u, s, x) ==
    /\ u = [i \in 1 .. Len(s) + 1 |-> u[i]]
    /\ \A i \in 1 .. Len(s) : u[i] = s[i]
    /\ u[Len(s) + 1] = x
LEMMA AppendIs ==
    ASSUME NEW V, NEW s \in Seq(V), NEW x \in V, NEW u, Longer(u, s, x)
    PROVE  u = Append(s, x)
<1> DEFINE n == Len(s)
           v == Append(s, x)
<1>1. n \in Nat /\ Len(v) = n + 1 /\ v \in Seq(V)
  OBVIOUS
<1>2. v[n + 1] = x /\ \A i \in 1 .. n : v[i] = s[i]
  OBVIOUS
<1>4. u = [i \in 1 .. n + 1 |-> u[i]] /\ \A i \in 1 .. n : u[i] = s[i]
  BY DEF Longer
<1>5. u[n + 1] = x
  BY DEF Longer
<1> HIDE DEF n, v
<1>3. v = [i \in 1 .. Len(v) |-> v[i]]
  BY <1>1
<1>6. ASSUME NEW i \in 1 .. n + 1 PROVE u[i] = v[i]
  <2>1. i = n + 1 \/ i \in 1 .. n
    BY <1>1
  <2> QED
    BY <1>2, <1>4, <1>5, <2>1
<1>7. u = v
  BY <1>1, <1>3, <1>4, <1>6
<1> QED
  BY <1>7 DEF v

\* The three kinds of texts, and the tags.
LEMMA PieceIs ==
    ASSUME Templates!BodiesAssumption, NEW p \in Pieces
    PROVE  /\ p.is \in {"word", "\n", "<%%"} \/ p.is \in Templates!Openers
           /\ p.body \in Seq(Templates!Words)
           /\ p.is \notin Templates!Openers => Templates!Source(p) = <<p.is>> /\ p.body = <<>>
           /\ p.is \in Templates!Openers => Templates!Source(p) = (<<p.is>> \o p.body) \o <<"%>">>
           /\ Templates!Source(p) \in Seq(Symbols)
<1>1. CASE p \in Templates!Texts
  <2>1. PICK w \in {"word", "\n", "<%%"} : p = [is |-> w, body |-> <<>>]
    BY <1>1 DEF Templates!Texts
  <2>2. p.is = w /\ p.body = <<>> /\ w \notin Templates!Openers
    BY <2>1 DEF Templates!Openers
  <2>3. Templates!Source(p) = <<p.is>>
    BY <2>2 DEF Templates!Source
  <2>4. w \in Symbols
    BY DEF Symbols, Templates!Words
  <2> QED
    BY <2>2, <2>3, <2>4
<1>2. CASE p \in Templates!Tags
  <2>1. p.is \in Templates!Openers /\ p.body \in Bodies
    BY <1>2 DEF Templates!Tags
  <2>2. p.body \in Seq(Templates!Words)
    BY <2>1 DEF Templates!BodiesAssumption
  <2>3. Templates!Source(p) = (<<p.is>> \o p.body) \o <<"%>">>
    BY <2>1 DEF Templates!Source
  <2>4. Templates!Words \subseteq Symbols /\ p.is \in Symbols /\ "%>" \in Symbols
    BY <2>1 DEF Symbols
  <2> DEFINE b == p.body
             o == p.is
             e == "%>"
  <2>5. b \in Seq(Symbols) /\ o \in Symbols /\ e \in Symbols
    BY <2>2, <2>4
  <2> HIDE DEF b, o, e
  <2>6. (<<o>> \o b) \o <<e>> \in Seq(Symbols)
    BY <2>5
  <2> QED
    BY <2>1, <2>2, <2>3, <2>6 DEF b, o, e
<1> QED
  BY <1>1, <1>2 DEF Pieces

\* What is left of the template is the next piece, and what is left after it.
LEMMA LeftIs ==
    ASSUME Templates!BodiesAssumption, NEW t \in Seq(Pieces)
    PROVE  /\ Left(t, Len(t)) = <<>>
           /\ \A k \in 0 .. Len(t) : Left(t, k) \in Seq(Symbols)
           /\ \A k \in 0 .. Len(t) - 1 : Left(t, k) = Templates!Source(t[k + 1]) \o Left(t, k + 1)
<1> DEFINE s(k) == [i \in 1 .. Len(t) - k |-> Templates!Source(t[k + i])]
<1>1. Len(t) \in Nat
  OBVIOUS
<1>2. ASSUME NEW k \in 0 .. Len(t), NEW i \in 1 .. Len(t) - k
      PROVE  Templates!Source(t[k + i]) \in Seq(Symbols)
  <2>1. k + i \in 1 .. Len(t)
    BY <1>1
  <2>2. t[k + i] \in Pieces
    BY <2>1
  <2> QED
    BY <2>2, PieceIs
<1>3. ASSUME NEW k \in 0 .. Len(t) PROVE s(k) \in Seq(Seq(Symbols)) /\ Len(s(k)) = Len(t) - k
  <2> DEFINE m == Len(t) - k
  <2>0. m \in Nat
    BY <1>1
  <2>1. m \in Nat /\ \A i \in 1 .. m : Templates!Source(t[k + i]) \in Seq(Symbols)
    <3>1. ASSUME NEW i \in 1 .. m PROVE Templates!Source(t[k + i]) \in Seq(Symbols)
      BY <1>2
    <3> QED
      BY <2>0, <3>1
  <2> HIDE DEF m
  <2>2. /\ [i \in 1 .. m |-> Templates!Source(t[k + i])] \in Seq(Seq(Symbols))
        /\ Len([i \in 1 .. m |-> Templates!Source(t[k + i])]) = m
    BY <2>1
  <2> QED
    BY <2>2 DEF m
<1>4. ASSUME NEW k \in 0 .. Len(t) - 1 PROVE s(k) = <<Templates!Source(t[k + 1])>> \o s(k + 1)
  <2>1. k \in 0 .. Len(t) /\ k + 1 \in 0 .. Len(t) /\ 1 \in 1 .. Len(t) - k
    BY <1>1
  <2>2. /\ s(k) \in Seq(Seq(Symbols)) /\ Len(s(k)) = Len(t) - k
        /\ s(k + 1) \in Seq(Seq(Symbols)) /\ Len(s(k + 1)) = Len(t) - (k + 1)
    BY <1>3, <2>1
  <2>3. <<Templates!Source(t[k + 1])>> \in Seq(Seq(Symbols))
    BY <1>2, <2>1
  <2>4. s(k)[1] = Templates!Source(t[k + 1])
    BY <2>1
  <2>5. ASSUME NEW i \in 2 .. Len(t) - k PROVE s(k)[i] = s(k + 1)[i - 1]
    BY <1>1
  <2> DEFINE a == s(k)
             x == Templates!Source(t[k + 1])
             b == s(k + 1)
             l == Len(t)
  <2>6. /\ a \in Seq(Seq(Symbols)) /\ Len(a) = l - k /\ b \in Seq(Seq(Symbols)) /\ Len(b) = l - (k + 1)
        /\ <<x>> \in Seq(Seq(Symbols)) /\ a[1] = x /\ \A i \in 2 .. l - k : a[i] = b[i - 1]
        /\ l \in Nat /\ k \in 0 .. l - 1
    BY <2>2, <2>3, <2>4, <2>5
  <2> HIDE DEF a, x, b, l
  <2>7. <<x>> \o b \in Seq(Seq(Symbols)) /\ Len(<<x>> \o b) = l - k
    <3> DEFINE V == Seq(Symbols)
    <3>1. x \in V /\ b \in Seq(V) /\ Len(b) + 1 = l - k
      <4>1. x \in V
        BY <1>2, <2>1 DEF x
      <4> QED
        BY <2>6, <4>1
    <3> HIDE DEF V
    <3>2. <<x>> \o b \in Seq(V) /\ Len(<<x>> \o b) = l - k
      BY <3>1, JoinFront
    <3> QED
      BY <3>2 DEF V
  <2>8. ASSUME NEW i \in 1 .. l - k PROVE (<<x>> \o b)[i] = a[i]
    BY <2>6
  <2>9. a = <<x>> \o b
    BY <2>6, <2>7, <2>8
  <2> QED
    BY <2>9 DEF a, x, b
<1>5. Left(t, Len(t)) = <<>>
  <2>1. s(Len(t)) = <<>>
    BY <1>1
  <2> QED
    BY <2>1 DEF Left, Templates!FlattenSeq
<1> DEFINE U == Symbols
<1>6. ASSUME NEW k \in 0 .. Len(t) PROVE Left(t, k) \in Seq(Symbols)
  <2> HIDE DEF s
  <2>1. Templates!FlattenSeq(s(k)) \in Seq(Symbols)
    BY <1>3, FlattenAppend, <<>> \in Seq(Symbols)
  <2> QED
    BY <2>1 DEF Left, s
<1>7. ASSUME NEW k \in 0 .. Len(t) - 1 PROVE Left(t, k) = Templates!Source(t[k + 1]) \o Left(t, k + 1)
  <2>1. k + 1 \in 0 .. Len(t) /\ k \in 0 .. Len(t) /\ 1 \in 1 .. Len(t) - k
    BY <1>1
  <2> DEFINE x == Templates!Source(t[k + 1])
             b == s(k + 1)
  <2>2. x \in Seq(Symbols) /\ b \in Seq(Seq(Symbols)) /\ s(k) = <<x>> \o b
    BY <1>2, <1>3, <1>4, <2>1
  <2> HIDE DEF x, b, s
  <2>3. Templates!FlattenSeq(s(k)) = x \o Templates!FlattenSeq(b)
    BY <2>2, FlattenFront
  <2> QED
    BY <2>3 DEF x, b, Left, s
<1> QED
  BY <1>5, <1>6, <1>7

\* Commands put what they put, and texts word after word.
LEMMA TextIs ==
    ASSUME NEW c \in Seq(Symbols)
    PROVE  /\ Templates!Text(c) \in Seq(Outputs) /\ Templates!Text(<<>>) = <<>>
           /\ \A w \in Symbols : Templates!Text(Append(c, w)) = Templates!Text(c) \o Templates!Text(<<w>>)
<1>1. ASSUME NEW d \in Seq(Symbols)
      PROVE  /\ Templates!Text(d) \in Seq(Outputs) /\ Len(Templates!Text(d)) = Len(d)
             /\ \A i \in 1 .. Len(d) : Templates!Text(d)[i] = <<"put", <<d[i]>>>>
  <2>1. ASSUME NEW i \in 1 .. Len(d) PROVE <<"put", <<d[i]>>>> \in Outputs
    <3>1. <<d[i]>> \in Seq(Symbols)
      OBVIOUS
    <3> QED
      BY <3>1 DEF Outputs
  <2> QED
    BY <2>1 DEF Templates!Text
<1>2. Templates!Text(<<>>) = <<>>
  BY DEF Templates!Text
<1>3. ASSUME NEW w \in Symbols PROVE Templates!Text(Append(c, w)) = Templates!Text(c) \o Templates!Text(<<w>>)
  <2> DEFINE d == Append(c, w)
             e == <<w>>
  <2>1. d \in Seq(Symbols) /\ e \in Seq(Symbols) /\ Len(d) = Len(c) + 1 /\ Len(e) = 1 /\ e[1] = w
        /\ d[Len(c) + 1] = w /\ \A i \in 1 .. Len(c) : d[i] = c[i]
    OBVIOUS
  <2> HIDE DEF d, e
  <2>2. /\ Templates!Text(d) \in Seq(Outputs) /\ Len(Templates!Text(d)) = Len(c) + 1
        /\ \A i \in 1 .. Len(c) : Templates!Text(d)[i] = <<"put", <<c[i]>>>>
        /\ Templates!Text(d)[Len(c) + 1] = <<"put", <<w>>>>
    BY <1>1, <2>1
  <2>3. /\ Templates!Text(e) \in Seq(Outputs) /\ Len(Templates!Text(e)) = 1 /\ Templates!Text(e)[1] = <<"put", <<w>>>>
    BY <1>1, <2>1
  <2>4. /\ Templates!Text(c) \in Seq(Outputs) /\ Len(Templates!Text(c)) = Len(c)
        /\ \A i \in 1 .. Len(c) : Templates!Text(c)[i] = <<"put", <<c[i]>>>>
    BY <1>1
  <2> DEFINE x == Templates!Text(d)
             y == Templates!Text(c)
             z == Templates!Text(e)
             p == <<"put", <<w>>>>
  <2>5. x = [i \in 1 .. Len(c) + 1 |-> x[i]] /\ Len(y) = Len(c) /\ p \in Outputs
    <3>1. x = [i \in 1 .. Len(d) |-> x[i]]
      BY DEF Templates!Text
    <3>2. <<w>> \in Seq(Symbols)
      OBVIOUS
    <3> QED
      BY <2>1, <2>4, <3>1, <3>2 DEF Outputs
  <2>6. \A i \in 1 .. Len(y) : x[i] = y[i]
    BY <2>2, <2>4
  <2>7. x[Len(y) + 1] = p /\ x = [i \in 1 .. Len(y) + 1 |-> x[i]] /\ y \in Seq(Outputs) /\ p \in Outputs
    BY <2>2, <2>4, <2>5
  <2>8. z = <<p>>
    BY <2>1 DEF Templates!Text
  <2> HIDE DEF x, y, z, p
  <2>9. x = Append(y, p)
    <3>1. Longer(x, y, p)
      BY <2>6, <2>7 DEF Longer
    <3> QED
      BY <2>7, <3>1, AppendIs
  <2>10. x = y \o z
    <3> DEFINE V == Outputs
    <3>1. y \in Seq(V) /\ p \in V
      BY <2>7
    <3> HIDE DEF V
    <3>2. Append(y, p) = y \o <<p>>
      BY <3>1
    <3> QED
      BY <2>8, <2>9, <3>2
  <2> QED
    BY <2>10 DEF x, y, z, d, e
<1> QED
  BY <1>1, <1>2, <1>3

LEMMA PutsIs ==
    ASSUME NEW c \in Commands
    PROVE  Templates!Puts(c) \in Seq(Outputs)
<1>1. c.of \in Seq(Symbols) /\ c.do \in {"put", "run", "insert"}
  BY DEF Commands
<1>2. Templates!Text(c.of) \in Seq(Outputs)
  BY <1>1, TextIs
<1>3. <<c.do, c.of>> \in Outputs
  BY <1>1 DEF Outputs
<1>4. <<<<c.do, c.of>>>> \in Seq(Outputs)
  BY <1>3
<1> QED
  BY <1>2, <1>4 DEF Templates!Puts

\* A line with one more command, and one more line.
LEMMA WholeIs ==
    ASSUME NEW l \in Seq(Commands)
    PROVE  /\ Whole(<<>>) = <<>> /\ Whole(l) \in Seq(Outputs)
           /\ \A c \in Commands : Whole(Append(l, c)) = Whole(l) \o Templates!Puts(c)
<1>1. Whole(<<>>) = <<>>
  BY DEF Whole, Templates!FlattenSeq
<1> DEFINE s == [i \in 1 .. Len(l) |-> Templates!Puts(l[i])]
<1>2. s \in Seq(Seq(Outputs))
  BY PutsIs
<1>3. Whole(l) \in Seq(Outputs)
  <2> HIDE DEF s
  <2>1. Templates!FlattenSeq(s) \in Seq(Outputs)
    BY <1>2, FlattenAppend, <<>> \in Seq(Outputs)
  <2> QED
    BY <2>1 DEF Whole, s
<1>4. ASSUME NEW c \in Commands PROVE Whole(Append(l, c)) = Whole(l) \o Templates!Puts(c)
  <2>1. Templates!Puts(c) \in Seq(Outputs)
    BY PutsIs
  <2>2. [i \in 1 .. Len(Append(l, c)) |-> Templates!Puts(Append(l, c)[i])] = Append(s, Templates!Puts(c))
    <3> DEFINE m == Append(l, c)
    <3>1. Len(m) = Len(l) + 1 /\ m[Len(l) + 1] = c /\ \A i \in 1 .. Len(l) : m[i] = l[i]
      OBVIOUS
    <3>2. Len(l) \in Nat
      OBVIOUS
    <3> HIDE DEF m
    <3> DEFINE u == [i \in 1 .. Len(m) |-> Templates!Puts(m[i])]
               v == Append(s, Templates!Puts(c))
    <3>3. u = [i \in 1 .. Len(l) + 1 |-> u[i]]
      BY <3>1
    <3>4. \A i \in 1 .. Len(l) : u[i] = Templates!Puts(l[i])
      BY <3>1, <3>2
    <3>5. u[Len(l) + 1] = Templates!Puts(c)
      BY <3>1, <3>2
    <3>6. Len(s) = Len(l) /\ \A i \in 1 .. Len(l) : s[i] = Templates!Puts(l[i])
      OBVIOUS
    <3> DEFINE x == Templates!Puts(c)
               n == Len(l)
    <3>7. /\ x \in Seq(Outputs) /\ n \in Nat /\ u = [i \in 1 .. n + 1 |-> u[i]]
          /\ \A i \in 1 .. n : u[i] = s[i]
          /\ u[n + 1] = x /\ s \in Seq(Seq(Outputs)) /\ Len(s) = n
      BY <1>2, <2>1, <3>2, <3>3, <3>4, <3>5, <3>6
    <3> HIDE DEF u, s, x, n
    <3> DEFINE V == Seq(Outputs)
    <3>8. s \in Seq(V) /\ x \in V
      BY <3>7
    <3> HIDE DEF V
    <3>9. u = Append(s, x)
      <4>1. Longer(u, s, x)
        BY <3>7 DEF Longer
      <4> QED
        BY <3>8, <4>1, AppendIs
    <3> QED
      BY <3>9 DEF u, x, m
  <2> HIDE DEF s
  <2>3. Templates!FlattenSeq(Append(s, Templates!Puts(c))) = Templates!FlattenSeq(s) \o Templates!Puts(c)
    BY <1>2, <2>1, FlattenAppend
  <2> QED
    BY <2>2, <2>3 DEF Whole, s
<1> QED
  BY <1>1, <1>3, <1>4

LEMMA PagesIs ==
    ASSUME NEW ls \in Seq(Seq(Commands))
    PROVE  /\ Pages(<<>>) = <<>> /\ Pages(ls) \in Seq(Outputs)
           /\ \A l \in Seq(Commands) : Pages(Append(ls, l)) = Pages(ls) \o Whole(l)
<1>1. Pages(<<>>) = <<>>
  BY DEF Pages, Templates!FlattenSeq
<1> DEFINE s == [i \in 1 .. Len(ls) |-> Whole(ls[i])]
<1>2. s \in Seq(Seq(Outputs))
  BY WholeIs
<1>3. Pages(ls) \in Seq(Outputs)
  <2> HIDE DEF s
  <2>1. Templates!FlattenSeq(s) \in Seq(Outputs)
    BY <1>2, FlattenAppend, <<>> \in Seq(Outputs)
  <2> QED
    BY <2>1 DEF Pages, s
<1>4. ASSUME NEW l \in Seq(Commands) PROVE Pages(Append(ls, l)) = Pages(ls) \o Whole(l)
  <2>1. Whole(l) \in Seq(Outputs)
    BY WholeIs
  <2> DEFINE m == Append(ls, l)
             u == [i \in 1 .. Len(m) |-> Whole(m[i])]
             x == Whole(l)
             V == Seq(Outputs)
  <2>2. u = Append(s, x)
    <3> DEFINE C == Seq(Commands)
    <3>0. ls \in Seq(C) /\ l \in C
      OBVIOUS
    <3> HIDE DEF C
    <3>1. Len(m) = Len(ls) + 1 /\ m[Len(ls) + 1] = l /\ Len(ls) \in Nat
      BY <3>0
    <3>2. \A i \in 1 .. Len(ls) : m[i] = ls[i]
      BY <3>0
    <3> HIDE DEF m
    <3>3. Len(s) = Len(ls) /\ \A i \in 1 .. Len(ls) : s[i] = Whole(ls[i])
      BY <3>1
    <3>4. u = [i \in 1 .. Len(ls) + 1 |-> u[i]] /\ \A i \in 1 .. Len(ls) : u[i] = Whole(ls[i])
      BY <3>1, <3>2
    <3>5. u[Len(ls) + 1] = x
      BY <3>1
    <3> HIDE DEF u, s, x
    <3>6. Longer(u, s, x)
      BY <3>3, <3>4, <3>5 DEF Longer
    <3>7. s \in Seq(V) /\ x \in V
      BY <1>2, <2>1 DEF x
    <3> HIDE DEF V
    <3> QED
      BY <3>6, <3>7, AppendIs
  <2> HIDE DEF s
  <2>3. Templates!FlattenSeq(Append(s, x)) = Templates!FlattenSeq(s) \o x
    BY <1>2, <2>1, FlattenAppend
  <2> QED
    BY <2>2, <2>3 DEF Pages, s
<1> QED
  BY <1>1, <1>3, <1>4

\* A body without its escapes.
LEMMA UnescapedIs ==
    ASSUME NEW b \in Seq(Templates!Words)
    PROVE  /\ Templates!Unescaped(b) \in Seq(Symbols) /\ Len(Templates!Unescaped(b)) = Len(b)
           /\ \A i \in 1 .. Len(b) : Templates!Unescaped(b)[i] = IF b[i] = "%%>" THEN "%>" ELSE b[i]
           /\ Templates!Commented(Templates!Unescaped(b)) <=> Templates!Commented(b)
<1>1. \A i \in 1 .. Len(b) : b[i] \in Templates!Words
  OBVIOUS
<1>2. ASSUME NEW i \in 1 .. Len(b)
      PROVE  (IF b[i] = "%%>" THEN "%>" ELSE b[i]) \in Symbols
  BY <1>1 DEF Symbols
<1>3. /\ Templates!Unescaped(b) \in Seq(Symbols) /\ Len(Templates!Unescaped(b)) = Len(b)
      /\ \A i \in 1 .. Len(b) : Templates!Unescaped(b)[i] = IF b[i] = "%%>" THEN "%>" ELSE b[i]
  BY <1>2 DEF Templates!Unescaped
<1>4. \A i \in 1 .. Len(b) : /\ Templates!Unescaped(b)[i] = "//" <=> b[i] = "//"
                             /\ Templates!Unescaped(b)[i] = "\n" <=> b[i] = "\n"
  BY <1>3
<1>5. Templates!Commented(Templates!Unescaped(b)) <=> Templates!Commented(b)
  <2>1. \A i \in 1 .. Len(b) : \A j \in i .. Len(b) : j \in 1 .. Len(b)
    OBVIOUS
  <2> HIDE DEF Templates!Unescaped
  <2> QED
    BY <1>3, <1>4, <2>1 DEF Templates!Commented
<1> QED
  BY <1>3, <1>5

\* What the pieces mean.
LEMMA MeaningIs ==
    ASSUME Templates!BodiesAssumption, NEW p \in Pieces
    PROVE  /\ p.is = "<%%" => Templates!Meaning(p) = Templates!Text(<<"<%">>)
           /\ p.is \in {"word", "\n"} => Templates!Meaning(p) = Templates!Text(<<p.is>>)
           /\ p.is = "<%"  => Templates!Meaning(p) = <<<<"run", Templates!Chopped(Templates!Unescaped(p.body))>>>>
           /\ p.is = "<%=" => Templates!Meaning(p) = <<<<"insert", Templates!Unescaped(p.body)>>>>
           /\ p.is = "<%#" => Templates!Meaning(p) = <<>>
           /\ Templates!Meaning(p) \in Seq(Outputs)
<1>1. p.is \in {"word", "\n", "<%%", "<%", "<%=", "<%#"} /\ p.body \in Seq(Templates!Words)
  BY PieceIs DEF Templates!Openers
<1>2. /\ p.is = "<%%" => Templates!Meaning(p) = Templates!Text(<<"<%">>)
      /\ p.is \in {"word", "\n"} => Templates!Meaning(p) = Templates!Text(<<p.is>>)
      /\ p.is = "<%"  => Templates!Meaning(p) = <<<<"run", Templates!Chopped(Templates!Unescaped(p.body))>>>>
      /\ p.is = "<%=" => Templates!Meaning(p) = <<<<"insert", Templates!Unescaped(p.body)>>>>
      /\ p.is = "<%#" => Templates!Meaning(p) = <<>>
  BY DEF Templates!Meaning
<1>3. Templates!Unescaped(p.body) \in Seq(Symbols)
  BY <1>1, UnescapedIs
<1>4. Templates!Chopped(Templates!Unescaped(p.body)) \in Seq(Symbols)
  <2> DEFINE u == Templates!Unescaped(p.body)
  <2>1. u \in Seq(Symbols)
    BY <1>3
  <2> HIDE DEF u
  <2>2. u # <<>> => Templates!Front(u) \in Seq(Symbols)
    BY <2>1, FrontLast
  <2>3. Templates!Chopped(u) \in Seq(Symbols)
    BY <2>1, <2>2 DEF Templates!Chopped
  <2> QED
    BY <2>3 DEF u
<1>5. ASSUME NEW d \in {"run", "insert"}, NEW w \in Seq(Symbols) PROVE <<<<d, w>>>> \in Seq(Outputs)
  <2>1. <<d, w>> \in Outputs
    BY DEF Outputs
  <2> QED
    BY <2>1
<1>6. <<"<%">> \in Seq(Symbols) /\ <<"word">> \in Seq(Symbols) /\ <<"\n">> \in Seq(Symbols)
  BY DEF Symbols, Templates!Openers, Templates!Words
<1>7. /\ Templates!Text(<<"<%">>) \in Seq(Outputs) /\ Templates!Text(<<"word">>) \in Seq(Outputs)
      /\ Templates!Text(<<"\n">>) \in Seq(Outputs)
  BY <1>6, TextIs
<1>8. CASE p.is \in {"word", "\n", "<%%"}
  BY <1>2, <1>7, <1>8
<1>9. CASE p.is = "<%"
  BY <1>2, <1>4, <1>5, <1>9
<1>10. CASE p.is = "<%="
  BY <1>2, <1>3, <1>5, <1>10
<1>11. CASE p.is = "<%#"
  BY <1>2, <1>11
<1> QED
  BY <1>1, <1>2, <1>8, <1>9, <1>10, <1>11

LEMMA SaidIs ==
    ASSUME Templates!BodiesAssumption, NEW t \in Seq(Pieces)
    PROVE  /\ Said(t, 0) = <<>>
           /\ \A k \in 0 .. Len(t) : Said(t, k) \in Seq(Outputs)
           /\ \A k \in 0 .. Len(t) - 1 : Said(t, k + 1) = Said(t, k) \o Templates!Meaning(t[k + 1])
<1> DEFINE s(k) == [i \in 1 .. k |-> Templates!Meaning(t[i])]
<1>1. Len(t) \in Nat
  OBVIOUS
<1>2. ASSUME NEW k \in 0 .. Len(t) PROVE s(k) \in Seq(Seq(Outputs)) /\ Len(s(k)) = k
  <2>1. \A i \in 1 .. k : i \in 1 .. Len(t)
    BY <1>1
  <2>2. \A i \in 1 .. k : Templates!Meaning(t[i]) \in Seq(Outputs)
    <3>1. ASSUME NEW i \in 1 .. k PROVE Templates!Meaning(t[i]) \in Seq(Outputs)
      <4>1. t[i] \in Pieces
        BY <2>1
      <4> QED
        BY <4>1, MeaningIs
    <3> QED
      BY <3>1
  <2> QED
    BY <1>1, <2>2
<1>3. Said(t, 0) = <<>>
  BY DEF Said, Templates!FlattenSeq
<1>4. ASSUME NEW k \in 0 .. Len(t) PROVE Said(t, k) \in Seq(Outputs)
  <2>1. s(k) \in Seq(Seq(Outputs))
    BY <1>2
  <2> HIDE DEF s
  <2>2. Templates!FlattenSeq(s(k)) \in Seq(Outputs)
    BY <2>1, FlattenAppend, <<>> \in Seq(Outputs)
  <2> QED
    BY <2>2 DEF Said, s
<1>5. ASSUME NEW k \in 0 .. Len(t) - 1 PROVE Said(t, k + 1) = Said(t, k) \o Templates!Meaning(t[k + 1])
  <2> DEFINE x == Templates!Meaning(t[k + 1])
             V == Seq(Outputs)
             a == s(k)
             u == s(k + 1)
  <2>1. k \in 0 .. Len(t) /\ k + 1 \in 1 .. Len(t) /\ t[k + 1] \in Pieces
    BY <1>1
  <2>2. a \in Seq(V) /\ Len(a) = k /\ x \in V
    BY <1>2, <2>1, MeaningIs
  <2>3. u = [i \in 1 .. k + 1 |-> u[i]] /\ (\A i \in 1 .. k : u[i] = a[i]) /\ u[k + 1] = x
    BY <2>1
  <2> HIDE DEF a, u, x, s
  <2>4. Longer(u, a, x)
    BY <2>2, <2>3 DEF Longer
  <2>5. u = Append(a, x)
    <3> HIDE DEF V
    <3> QED
      BY <2>2, <2>4, AppendIs
  <2>6. Templates!FlattenSeq(u) = Templates!FlattenSeq(a) \o x
    BY <2>2, <2>5, FlattenAppend
  <2> QED
    BY <2>6 DEF Said, s, a, u, x
<1> QED
  BY <1>3, <1>4, <1>5

\* A complete line without comments but in the end does all it has.
LEMMA OutputIs ==
    ASSUME NEW l \in Seq(Commands), EndedLine(l)
    PROVE  ~Templates!Broken(l) /\ Templates!Output(l) = Whole(l)
<1>1. ~Templates!Broken(l)
  BY DEF Templates!Broken, EndedLine
<1>2. \A j \in 1 .. Len(l) : ~Templates!Cut(l, j)
  <2>1. ASSUME NEW j \in 1 .. Len(l), NEW i \in 1 .. j - 1, l[i].do = "run", Templates!Commented(l[i].of) PROVE FALSE
    <3>1. i \in 1 .. Len(l) /\ i # Len(l)
      OBVIOUS
    <3> QED
      BY <2>1, <3>1 DEF EndedLine
  <2> QED
    BY <2>1 DEF Templates!Cut
<1>3. {j \in 1 .. Len(l) : ~Templates!Cut(l, j)} = 1 .. Len(l)
  BY <1>2
<1>4. Templates!Cardinality(1 .. Len(l)) = Len(l)
  <2>1. Len(l) \in Nat /\ 1 \in Int
    OBVIOUS
  <2> QED
    BY <2>1, FS_Interval, TemplatesCount
<1>5. Templates!Executed(l) = l
  <2>1. Templates!Executed(l) = [i \in 1 .. Len(l) |-> l[i]]
    BY <1>3, <1>4 DEF Templates!Executed
  <2> QED
    BY <2>1
<1> QED
  BY <1>1, <1>5 DEF Templates!Output, Whole

LEMMA PageIs ==
    ASSUME NEW ls \in Seq(Seq(Commands)), \A i \in 1 .. Len(ls) : EndedLine(ls[i])
    PROVE  Templates!FlattenSeq([i \in 1 .. Len(ls) |-> Templates!Output(ls[i])]) = Pages(ls)
<1>1. \A i \in 1 .. Len(ls) : Templates!Output(ls[i]) = Whole(ls[i])
  BY OutputIs
<1>2. [i \in 1 .. Len(ls) |-> Templates!Output(ls[i])] = [i \in 1 .. Len(ls) |-> Whole(ls[i])]
  BY <1>1
<1> QED
  BY <1>2 DEF Pages

\* The first of what is left.
LEMMA HeadOf ==
    ASSUME NEW x \in Symbols, NEW c \in Seq(Symbols)
    PROVE  <<x>> \o c # <<>> /\ Head(<<x>> \o c) = x /\ Tail(<<x>> \o c) = c
<1> DEFINE s == <<x>> \o c
<1>1. s \in Seq(Symbols) /\ Len(s) = Len(c) + 1 /\ s[1] = x /\ Len(c) \in Nat
  OBVIOUS
<1>2. \A i \in 1 .. Len(c) : s[i + 1] = c[i]
  OBVIOUS
<1> HIDE DEF s
<1>3. s # <<>> /\ Head(s) = x /\ Tail(s) = c
  BY <1>1, <1>2
<1> QED
  BY <1>3 DEF s

LEMMA HeadOfTag ==
    ASSUME NEW x \in Symbols, NEW b \in Seq(Symbols), NEW e \in Seq(Symbols), NEW c \in Seq(Symbols)
    PROVE  ((<<x>> \o b) \o e) \o c = <<x>> \o ((b \o e) \o c)
  OBVIOUS

LEMMA HeadOfBody ==
    ASSUME NEW b \in Seq(Symbols), NEW e \in Seq(Symbols), NEW c \in Seq(Symbols), NEW j \in 0 .. Len(b) - 1
    PROVE  /\ (SubSeq(b, j + 1, Len(b)) \o e) \o c = <<b[j + 1]>> \o ((SubSeq(b, j + 2, Len(b)) \o e) \o c)
           /\ SubSeq(b, 1, j + 1) = Append(SubSeq(b, 1, j), b[j + 1])
           /\ b[j + 1] \in Symbols /\ SubSeq(b, j + 2, Len(b)) \in Seq(Symbols) /\ SubSeq(b, 1, j) \in Seq(Symbols)
<1>1. Len(b) \in Nat /\ j + 1 \in 1 .. Len(b) /\ b[j + 1] \in Symbols
  OBVIOUS
<1> DEFINE s == SubSeq(b, j + 1, Len(b))
           r == SubSeq(b, j + 2, Len(b))
           x == b[j + 1]
<1>2. s \in Seq(Symbols) /\ Len(s) = Len(b) - j /\ \A i \in 1 .. Len(b) - j : s[i] = b[j + i]
  <2>1. s \in Seq(Symbols)
    BY <1>1
  <2>2. Len(s) = Len(b) - j
    BY <1>1
  <2>3. \A i \in 1 .. Len(b) - j : s[i] = b[j + i]
    BY <1>1
  <2> QED
    BY <2>1, <2>2, <2>3
<1>3. r \in Seq(Symbols) /\ Len(r) = Len(b) - j - 1 /\ \A i \in 1 .. Len(b) - j - 1 : r[i] = b[j + 1 + i]
  BY <1>1
<1>4. s = <<x>> \o r
  <2> HIDE DEF s, r
  <2> DEFINE y == <<x>> \o r
  <2>1. y \in Seq(Symbols) /\ Len(y) = Len(b) - j
    BY <1>1, <1>3
  <2>2. y[1] = s[1]
    BY <1>1, <1>2, <1>3
  <2>3. ASSUME NEW i \in 2 .. Len(b) - j PROVE y[i] = s[i]
    <3>1. i - 1 \in 1 .. Len(b) - j - 1 /\ i \in 1 .. Len(b) - j /\ j + 1 + (i - 1) = j + i
      BY <1>1
    <3>2. y[i] = r[i - 1]
      BY <1>1, <1>3, <3>1
    <3> QED
      BY <1>2, <1>3, <3>1, <3>2
  <2> HIDE DEF y
  <2>4. \A i \in 1 .. Len(s) : y[i] = s[i]
    BY <1>1, <1>2, <2>2, <2>3
  <2>5. y = s
    <3>1. y \in Seq(Symbols) /\ s \in Seq(Symbols) /\ Len(y) = Len(s)
      BY <1>1, <1>2, <2>1
    <3>2. y = [i \in 1 .. Len(s) |-> y[i]] /\ s = [i \in 1 .. Len(s) |-> s[i]]
      BY <3>1
    <3>3. [i \in 1 .. Len(s) |-> y[i]] = [i \in 1 .. Len(s) |-> s[i]]
      BY <2>4
    <3> QED
      BY <3>2, <3>3
  <2> QED
    BY <2>5 DEF y
<1>5. (s \o e) \o c = <<x>> \o ((r \o e) \o c)
  <2> HIDE DEF s, r, x
  <2> QED
    <3>1. x \in Symbols
      BY <1>1 DEF x
    <3>2. ((<<x>> \o r) \o e) \o c = <<x>> \o ((r \o e) \o c)
      BY <1>3, <3>1
    <3> QED
      BY <1>4, <3>2
<1>6. SubSeq(b, 1, j) \in Seq(Symbols) /\ Len(SubSeq(b, 1, j)) = j /\ \A i \in 1 .. j : SubSeq(b, 1, j)[i] = b[i]
  BY <1>1
<1>7. SubSeq(b, 1, j + 1) = Append(SubSeq(b, 1, j), x)
  BY <1>1
<1> QED
  BY <1>1, <1>3, <1>5, <1>6, <1>7

\* The three commands.
LEMMA CommandIs ==
    ASSUME NEW w \in Seq(Symbols)
    PROVE  /\ Templates!Put(w) \in Commands /\ Templates!Run(w) \in Commands /\ Templates!Insert(w) \in Commands
           /\ Templates!Puts(Templates!Put(w)) = Templates!Text(w)
           /\ Templates!Puts(Templates!Run(w)) = <<<<"run", w>>>> /\ Templates!Puts(Templates!Insert(w)) = <<<<"insert", w>>>>
  BY DEF Templates!Put, Templates!Run, Templates!Insert, Commands, Templates!Puts

\* A command is added to the line: it goes on, or this was its last.
LEMMA AddCommand ==
    ASSUME NEW l \in Seq(Commands), OpenLine(l), NEW c \in Commands
    PROVE  /\ Append(l, c) \in Seq(Commands) /\ Whole(Append(l, c)) = Whole(l) \o Templates!Puts(c)
           /\ Whole(l) \in Seq(Outputs) /\ Templates!Puts(c) \in Seq(Outputs)
           /\ (c.do = "put" \/ ~Templates!Commented(c.of)) => OpenLine(Append(l, c))
           /\ (c.do # "insert" \/ ~Templates!Commented(c.of)) => EndedLine(Append(l, c))
<1>1. Append(l, c) \in Seq(Commands) /\ Whole(Append(l, c)) = Whole(l) \o Templates!Puts(c)
      /\ Whole(l) \in Seq(Outputs) /\ Templates!Puts(c) \in Seq(Outputs)
  BY WholeIs, PutsIs
<1> DEFINE m == Append(l, c)
<1>2. /\ Len(m) = Len(l) + 1 /\ m[Len(l) + 1] = c /\ Len(l) \in Nat
      /\ \A i \in 1 .. Len(l) : m[i] = l[i]
  OBVIOUS
<1> HIDE DEF m
<1>3. \A i \in 1 .. Len(m) : i = Len(m) \/ i \in 1 .. Len(l)
  BY <1>2
<1>4. (c.do = "put" \/ ~Templates!Commented(c.of)) => OpenLine(m)
  BY <1>2, <1>3 DEF OpenLine
<1>5. (c.do # "insert" \/ ~Templates!Commented(c.of)) => EndedLine(m)
  BY <1>2, <1>3 DEF OpenLine, EndedLine
<1> QED
  BY <1>1, <1>4, <1>5 DEF m

\* A complete line is added to the script.
LEMMA AddLine ==
    ASSUME NEW ls \in Seq(Seq(Commands)), \A i \in 1 .. Len(ls) : EndedLine(ls[i]),
           NEW l \in Seq(Commands), EndedLine(l)
    PROVE  /\ Append(ls, l) \in Seq(Seq(Commands)) /\ Pages(Append(ls, l)) = Pages(ls) \o Whole(l)
           /\ Pages(ls) \in Seq(Outputs)
           /\ \A i \in 1 .. Len(Append(ls, l)) : EndedLine(Append(ls, l)[i])
<1>1. Pages(Append(ls, l)) = Pages(ls) \o Whole(l) /\ Pages(ls) \in Seq(Outputs)
  BY PagesIs
<1> DEFINE C == Seq(Commands)
           m == Append(ls, l)
<1>0. ls \in Seq(C) /\ l \in C
  OBVIOUS
<1> HIDE DEF C
<1>2. /\ Len(m) = Len(ls) + 1 /\ m[Len(ls) + 1] = l /\ Len(ls) \in Nat /\ m \in Seq(C)
      /\ \A i \in 1 .. Len(ls) : m[i] = ls[i]
  BY <1>0
<1> HIDE DEF m
<1>3. \A i \in 1 .. Len(m) : i = Len(ls) + 1 \/ i \in 1 .. Len(ls)
  BY <1>2
<1>4. \A i \in 1 .. Len(m) : EndedLine(m[i])
  BY <1>2, <1>3
<1> QED
  BY <1>1, <1>2, <1>4 DEF m, C

\* Output after output.
LEMMA Follows ==
    ASSUME NEW a \in Seq(Outputs), NEW b \in Seq(Outputs), NEW c \in Seq(Outputs)
    PROVE  (a \o b) \o c = a \o (b \o c) /\ a \o <<>> = a /\ <<>> \o a = a /\ a \o b \in Seq(Outputs)
  OBVIOUS

\* The actions that a state between two pieces leaves open, by its next token; and
\* within a tag.
LEMMA NextBetween ==
    ASSUME Templates!StagAssumption, stag = Nothing, Templates!Next
    PROVE  /\ tokens # <<>> /\ tokens' = Tail(tokens) /\ UNCHANGED <<type, template>>
           /\ Head(tokens) = "\n" => Templates!Newline
           /\ Head(tokens) \in Templates!Openers => Templates!Opens
           /\ Head(tokens) = "<%%" => Templates!Escaped
           /\ Head(tokens) = "word" => Templates!Other
  BY DEF Templates!Next, Templates!Newline, Templates!Opens, Templates!Escaped, Templates!Closes,
         Templates!Other, Templates!Scanned, Templates!Token, Templates!Openers, Templates!StagAssumption

LEMMA NextWithin ==
    ASSUME Templates!StagAssumption, stag \in Templates!Openers, Templates!Next
    PROVE  /\ tokens # <<>> /\ tokens' = Tail(tokens) /\ UNCHANGED <<type, template>>
           /\ Head(tokens) = "%>" => Templates!Closes
           /\ Head(tokens) \in Templates!Words => UNCHANGED <<stag, line, script>>
           /\ Head(tokens) \in Templates!Words =>
                 body' = Append(body, IF Head(tokens) = "%%>" THEN "%>" ELSE Head(tokens))
  BY DEF Templates!Next, Templates!Newline, Templates!Opens, Templates!Escaped, Templates!Closes,
         Templates!Other, Templates!Scanned, Templates!Token, Templates!Openers, Templates!Words, Templates!StagAssumption

\* The next piece is a text.
LEMMA TextStep ==
    ASSUME Templates!BodiesAssumption, Templates!StagAssumption, template \in Seq(Pieces), Compiled,
           NEW k \in 0 .. Len(template) - 1, Between(k), template[k + 1].is \notin Templates!Openers, Templates!Next
    PROVE  Compiled'
<1> DEFINE p == template[k + 1]
           b == Left(template, k + 1)
<1>1. p \in Pieces /\ k + 1 \in 0 .. Len(template) /\ k + 1 \in Nat
  OBVIOUS
<1>2. p.is \in {"word", "\n", "<%%"} /\ Templates!Source(p) = <<p.is>> /\ p.is \in Symbols
  BY <1>1, PieceIs DEF Symbols, Templates!Words
<1>3. tokens = <<p.is>> \o b /\ b \in Seq(Symbols)
  BY <1>1, <1>2, LeftIs DEF Between
<1>4. Head(tokens) = p.is /\ Tail(tokens) = b
  <2> HIDE DEF p, b
  <2> QED
    BY <1>2, <1>3, HeadOf
<1>5. stag = Nothing /\ (Pages(script) \o Whole(line)) \o Templates!Text(body) = Said(template, k)
  BY DEF Between
<1>6. tokens' = b /\ template' = template
  BY <1>4, <1>5, NextBetween
<1>7. Said(template, k + 1) = Said(template, k) \o Templates!Meaning(p)
  BY SaidIs
<1>8. /\ line \in Seq(Commands) /\ script \in Seq(Seq(Commands)) /\ body \in Seq(Symbols)
      /\ OpenLine(line) /\ \A i \in 1 .. Len(script) : EndedLine(script[i])
  BY DEF Compiled
<1>9. Whole(line) \in Seq(Outputs) /\ Pages(script) \in Seq(Outputs) /\ Templates!Text(body) \in Seq(Outputs)
  BY <1>8, WholeIs, PagesIs, TextIs
<1> DEFINE w == IF p.is = "<%%" THEN "<%" ELSE p.is
<1>10. Templates!Meaning(p) = Templates!Text(<<w>>) /\ w \in Symbols
  BY <1>1, <1>2, MeaningIs DEF Symbols, Templates!Openers
<1>11. /\ Append(body, w) \in Seq(Symbols) /\ Templates!Text(Append(body, w)) = Templates!Text(body) \o Templates!Text(<<w>>)
       /\ Templates!Text(<<w>>) \in Seq(Outputs)
  <2> HIDE DEF w
  <2>1. <<w>> \in Seq(Symbols) /\ Append(body, w) \in Seq(Symbols)
    BY <1>8, <1>10
  <2>2. Templates!Text(Append(body, w)) = Templates!Text(body) \o Templates!Text(<<w>>)
    BY <1>8, <1>10, TextIs
  <2> QED
    BY <2>1, <2>2, TextIs
<1> HIDE DEF p, b, w
<1>12. ASSUME Between(k + 1)',
              line' \in Seq(Commands) /\ script' \in Seq(Seq(Commands)) /\ body' \in Seq(Symbols)
              /\ OpenLine(line') /\ \A i \in 1 .. Len(script') : EndedLine(script'[i])
       PROVE  Compiled'
  <2>1. \E h \in 0 .. Len(template') : Between(h)'
    BY <1>1, <1>6, <1>12
  <2> QED
    BY <1>12, <2>1 DEF Compiled
<1>13. Said(template', k + 1) = (Pages(script) \o Whole(line)) \o Templates!Text(Append(body, w))
  <2> DEFINE x == Pages(script)
             y == Whole(line)
             z == Templates!Text(body)
             v == Templates!Text(<<w>>)
  <2>1. x \in Seq(Outputs) /\ y \in Seq(Outputs) /\ z \in Seq(Outputs) /\ v \in Seq(Outputs)
    BY <1>9, <1>11
  <2>2. Said(template', k + 1) = ((x \o y) \o z) \o v
    BY <1>5, <1>6, <1>7, <1>10
  <2>3. Templates!Text(Append(body, w)) = z \o v
    BY <1>11
  <2> HIDE DEF x, y, z, v
  <2>4. ((x \o y) \o z) \o v = (x \o y) \o (z \o v)
    <3>1. x \o y \in Seq(Outputs)
      BY <2>1, Follows
    <3> DEFINE q == x \o y
    <3>2. q \in Seq(Outputs)
      BY <3>1
    <3> HIDE DEF q
    <3>3. (q \o z) \o v = q \o (z \o v)
      BY <2>1, <3>2, Follows, SMTT(30)
    <3> QED
      BY <3>3 DEF q
  <2> QED
    BY <2>2, <2>3, <2>4 DEF x, y
<1>14. CASE p.is = "\n"
  <2>1. Templates!Newline /\ w = "\n"
    BY <1>4, <1>5, <1>14, NextBetween DEF w
  <2> DEFINE c == Templates!Put(Append(body, w))
             l == Append(line, c)
  <2>2. stag' = Nothing /\ script' = Append(script, l) /\ line' = <<>> /\ body' = <<>>
    BY <1>5, <2>1 DEF Templates!Newline
  <2>3. c \in Commands /\ Templates!Puts(c) = Templates!Text(Append(body, w)) /\ c.do = "put"
    BY <1>11, CommandIs DEF Templates!Put
  <2> HIDE DEF c
  <2>4. l \in Seq(Commands) /\ EndedLine(l) /\ Whole(l) = Whole(line) \o Templates!Puts(c) /\ Templates!Puts(c) \in Seq(Outputs)
    BY <1>8, <2>3, AddCommand
  <2> HIDE DEF l
  <2>5. /\ script' \in Seq(Seq(Commands)) /\ Pages(script') = Pages(script) \o Whole(l)
        /\ \A i \in 1 .. Len(script') : EndedLine(script'[i])
    BY <1>8, <2>2, <2>4, AddLine
  <2>6. Whole(line') = <<>> /\ Templates!Text(body') = <<>> /\ OpenLine(line')
        /\ line' \in Seq(Commands) /\ body' \in Seq(Symbols)
    <3>1. Whole(<<>>) = <<>> /\ Templates!Text(<<>>) = <<>>
      BY <1>8, WholeIs, TextIs
    <3>2. OpenLine(<<>>) /\ <<>> \in Seq(Commands) /\ <<>> \in Seq(Symbols)
      BY DEF OpenLine
    <3> QED
      BY <2>2, <3>1, <3>2
  <2>7. (Pages(script') \o Whole(line')) \o Templates!Text(body') = Said(template', k + 1)
    <3> DEFINE x == Pages(script)
               y == Whole(line)
               z == Templates!Puts(c)
    <3>1. x \in Seq(Outputs) /\ y \in Seq(Outputs) /\ z \in Seq(Outputs)
      BY <1>9, <2>4
    <3>2. /\ Pages(script') = x \o (y \o z) /\ Said(template', k + 1) = (x \o y) \o z
          /\ Whole(line') = <<>> /\ Templates!Text(body') = <<>>
      BY <1>13, <2>3, <2>4, <2>5, <2>6
    <3> HIDE DEF x, y, z
    <3>3. (x \o y) \o z = x \o (y \o z) /\ x \o (y \o z) \in Seq(Outputs)
      BY <3>1, Follows
    <3> DEFINE q == x \o (y \o z)
    <3>4. q \in Seq(Outputs) /\ Pages(script') = q /\ Said(template', k + 1) = q
      BY <3>2, <3>3
    <3> HIDE DEF q
    <3>5. (q \o <<>>) \o <<>> = q
      BY <3>4
    <3> QED
      BY <3>2, <3>4, <3>5
  <2>8. Between(k + 1)'
    BY <1>6, <2>2, <2>7 DEF Between, b
  <2> QED
    BY <1>12, <2>5, <2>6, <2>8
<1>15. CASE p.is # "\n"
  <2>1. body' = Append(body, w) /\ UNCHANGED <<stag, line, script>>
    BY <1>2, <1>4, <1>5, <1>15, NextBetween DEF w, Templates!Escaped, Templates!Other, Templates!Token
  <2>2. Between(k + 1)'
    BY <1>5, <1>6, <1>13, <2>1 DEF Between, b
  <2> QED
    BY <1>8, <1>11, <1>12, <2>1, <2>2
<1> QED
  BY <1>14, <1>15

\* The next piece is a tag.
LEMMA TagStep ==
    ASSUME Templates!BodiesAssumption, Templates!StagAssumption, template \in Seq(Pieces), Compiled,
           NEW k \in 0 .. Len(template) - 1, Between(k), template[k + 1].is \in Templates!Openers, Templates!Next
    PROVE  Compiled'
<1> DEFINE p == template[k + 1]
           c == Left(template, k + 1)
           b == p.body
           o == p.is
           e == <<"%>">>
<1>1. p \in Pieces /\ k + 1 \in 0 .. Len(template) /\ k + 1 \in Nat
  OBVIOUS
<1>2. b \in Seq(Templates!Words) /\ Templates!Source(p) = (<<o>> \o b) \o e /\ o \in Templates!Openers
  BY <1>1, PieceIs
<1>3. b \in Seq(Symbols) /\ o \in Symbols /\ e \in Seq(Symbols) /\ c \in Seq(Symbols)
  <2>1. Templates!Words \subseteq Symbols /\ Templates!Openers \subseteq Symbols /\ "%>" \in Symbols
    BY DEF Symbols
  <2>2. c \in Seq(Symbols)
    BY <1>1, LeftIs
  <2> QED
    BY <1>2, <2>1, <2>2
<1>4. tokens = ((<<o>> \o b) \o e) \o c
  BY <1>1, <1>2, LeftIs DEF Between
<1>5. Head(tokens) = o /\ Tail(tokens) = (b \o e) \o c
  <2> HIDE DEF b, c, o, e
  <2>1. tokens = <<o>> \o ((b \o e) \o c)
    <3>1. ((<<o>> \o b) \o e) \o c = <<o>> \o ((b \o e) \o c)
      BY <1>3, HeadOfTag
    <3> QED
      BY <1>4, <3>1
  <2> DEFINE r == (b \o e) \o c
  <2>2. r \in Seq(Symbols)
    BY <1>3
  <2> HIDE DEF r
  <2> QED
    BY <1>3, <2>1, <2>2, HeadOf DEF r
<1>6. stag = Nothing /\ (Pages(script) \o Whole(line)) \o Templates!Text(body) = Said(template, k)
  BY DEF Between
<1>7. Templates!Opens /\ tokens' = (b \o e) \o c /\ template' = template
  BY <1>2, <1>5, <1>6, NextBetween
<1>8. /\ stag' = o /\ body' = <<>> /\ script' = script
      /\ line' = IF body = <<>> THEN line ELSE Append(line, Templates!Put(body))
  BY <1>5, <1>7 DEF Templates!Opens, Templates!Token
<1>9. /\ line \in Seq(Commands) /\ script \in Seq(Seq(Commands)) /\ body \in Seq(Symbols)
      /\ OpenLine(line) /\ \A i \in 1 .. Len(script) : EndedLine(script[i])
  BY DEF Compiled
<1> HIDE DEF p, c, b, o, e
<1>10. /\ line' \in Seq(Commands) /\ OpenLine(line')
       /\ Whole(line') = Whole(line) \o Templates!Text(body)
  <2>1. CASE body = <<>>
    <3>1. Templates!Text(body) = <<>> /\ Whole(line) \in Seq(Outputs)
      BY <1>9, <2>1, TextIs, WholeIs
    <3>2. Whole(line) \o <<>> = Whole(line)
      BY <3>1, Follows
    <3> QED
      BY <1>8, <1>9, <2>1, <3>1, <3>2
  <2>2. CASE body # <<>>
    <3> DEFINE d == Templates!Put(body)
    <3>1. d \in Commands /\ Templates!Puts(d) = Templates!Text(body) /\ d.do = "put"
      BY <1>9, CommandIs DEF Templates!Put
    <3>2. line' = Append(line, d)
      BY <1>8, <2>2
    <3> HIDE DEF d
    <3> QED
      BY <1>9, <3>1, <3>2, AddCommand
  <2> QED
    BY <2>1, <2>2
<1>11. Pages(script') \o Whole(line') = Said(template', k)
  <2> DEFINE x == Pages(script)
             y == Whole(line)
             z == Templates!Text(body)
  <2>1. x \in Seq(Outputs) /\ y \in Seq(Outputs) /\ z \in Seq(Outputs)
    BY <1>9, WholeIs, PagesIs, TextIs
  <2>2. Pages(script') = x /\ Whole(line') = y \o z /\ Said(template', k) = (x \o y) \o z
    BY <1>6, <1>7, <1>8, <1>10
  <2> HIDE DEF x, y, z
  <2> QED
    <3>1. (x \o y) \o z = x \o (y \o z)
      BY <2>1
    <3> QED
      BY <2>2, <3>1
<1>12. Within(k, 0)'
  <2>1. /\ k < Len(template') /\ template'[k + 1].is \in Templates!Openers /\ stag' = template'[k + 1].is
    BY <1>1, <1>2, <1>7, <1>8 DEF o, p
  <2>2. tokens' = (SubSeq(template'[k + 1].body, 0 + 1, Len(template'[k + 1].body)) \o <<"%>">>)
                  \o Left(template', k + 1)
    <3>1. SubSeq(b, 0 + 1, Len(b)) = b
      BY <1>3
    <3> QED
      BY <1>7, <3>1 DEF b, c, e, p
  <2>3. body' = Templates!Unescaped(SubSeq(template'[k + 1].body, 1, 0))
    <3>1. SubSeq(b, 1, 0) = <<>>
      BY <1>3
    <3>2. Templates!Unescaped(<<>>) = <<>>
      BY DEF Templates!Unescaped
    <3> QED
      BY <1>7, <1>8, <3>1, <3>2 DEF b, p
  <2> QED
    BY <1>11, <2>1, <2>2, <2>3 DEF Within
<1>13. \E h \in 0 .. Len(template') - 1 : \E j \in 0 .. Len(template'[h + 1].body) : Within(h, j)'
  <2>1. Len(b) \in Nat
    BY <1>2
  <2>2. 0 \in 0 .. Len(template'[k + 1].body)
    BY <1>7, <2>1 DEF b, p
  <2> QED
    BY <1>7, <1>12, <2>2
<1> QED
  BY <1>8, <1>9, <1>10, <1>13 DEF Compiled

\* The next token is a word of the tag's body.
LEMMA WordStep ==
    ASSUME Templates!BodiesAssumption, Templates!StagAssumption, template \in Seq(Pieces), Compiled,
           NEW k \in 0 .. Len(template) - 1, NEW j \in 0 .. Len(template[k + 1].body) - 1, Within(k, j), Templates!Next
    PROVE  Compiled'
<1> DEFINE p == template[k + 1]
           c == Left(template, k + 1)
           b == p.body
           e == <<"%>">>
           x == b[j + 1]
           w == IF x = "%%>" THEN "%>" ELSE x
<1>1. p \in Pieces /\ k + 1 \in 0 .. Len(template) /\ k + 1 \in Nat
  OBVIOUS
<1>2. b \in Seq(Templates!Words) /\ p.is \in Templates!Openers /\ j \in 0 .. Len(b) - 1 /\ Len(b) \in Nat
  <2>1. b \in Seq(Templates!Words)
    BY <1>1, PieceIs
  <2>2. p.is \in Templates!Openers
    BY DEF Within
  <2>3. j \in 0 .. Len(b) - 1
    OBVIOUS
  <2> HIDE DEF b, p
  <2> QED
    BY <2>1, <2>2, <2>3
<1>3. b \in Seq(Symbols) /\ e \in Seq(Symbols) /\ c \in Seq(Symbols) /\ w \in Symbols /\ x \in Templates!Words
  <2>1. Templates!Words \subseteq Symbols /\ "%>" \in Symbols
    BY DEF Symbols
  <2>2. c \in Seq(Symbols)
    BY <1>1, LeftIs
  <2>3. x \in Templates!Words
    BY <1>2
  <2> QED
    BY <1>2, <2>1, <2>2, <2>3
<1>4. /\ stag = p.is /\ tokens = (SubSeq(b, j + 1, Len(b)) \o e) \o c
      /\ body = Templates!Unescaped(SubSeq(b, 1, j)) /\ Pages(script) \o Whole(line) = Said(template, k)
  BY DEF Within
<1>5. /\ line \in Seq(Commands) /\ script \in Seq(Seq(Commands)) /\ body \in Seq(Symbols)
      /\ OpenLine(line) /\ \A i \in 1 .. Len(script) : EndedLine(script[i])
  BY DEF Compiled
<1> HIDE DEF p, c, b, e, x, w
<1>6. /\ (SubSeq(b, j + 1, Len(b)) \o e) \o c = <<x>> \o ((SubSeq(b, j + 2, Len(b)) \o e) \o c)
      /\ SubSeq(b, j + 2, Len(b)) \in Seq(Symbols)
  BY <1>2, <1>3, HeadOfBody DEF x
<1>7. Head(tokens) = x /\ Tail(tokens) = (SubSeq(b, j + 2, Len(b)) \o e) \o c
  <2> DEFINE r == SubSeq(b, j + 2, Len(b))
             q == (r \o e) \o c
  <2>1. r \in Seq(Symbols) /\ tokens = <<x>> \o q
    BY <1>4, <1>6
  <2> HIDE DEF r
  <2>2. q \in Seq(Symbols) /\ x \in Symbols
    BY <1>3, <2>1 DEF Symbols
  <2> HIDE DEF q
  <2>3. Head(tokens) = x /\ Tail(tokens) = q
    BY <2>1, <2>2, HeadOf
  <2> QED
    BY <2>3 DEF q, r
<1>8. /\ tokens' = (SubSeq(b, j + 2, Len(b)) \o e) \o c /\ template' = template
      /\ UNCHANGED <<stag, line, script>> /\ body' = Append(body, w)
  BY <1>2, <1>3, <1>4, <1>7, NextWithin DEF w
<1>9. body' = Templates!Unescaped(SubSeq(b, 1, j + 1))
  <2> DEFINE a == SubSeq(b, 1, j)
             d == SubSeq(b, 1, j + 1)
  <2>1. a \in Seq(Templates!Words) /\ d = Append(a, x)
    <3>1. d = Append(a, x)
      BY <1>2, <1>3, HeadOfBody DEF x
    <3>2. a \in Seq(Templates!Words)
      BY <1>2
    <3> QED
      BY <3>1, <3>2
  <2> HIDE DEF a, d
  <2>2. d \in Seq(Templates!Words) /\ Len(d) = Len(a) + 1 /\ d[Len(a) + 1] = x /\ \A i \in 1 .. Len(a) : d[i] = a[i]
    BY <1>3, <2>1
  <2> DEFINE u == Templates!Unescaped(a)
             v == Templates!Unescaped(d)
  <2>3. /\ u \in Seq(Symbols) /\ Len(u) = Len(a)
        /\ \A i \in 1 .. Len(a) : u[i] = IF a[i] = "%%>" THEN "%>" ELSE a[i]
    BY <2>1, UnescapedIs
  <2>4. /\ \A i \in 1 .. Len(d) : v[i] = IF d[i] = "%%>" THEN "%>" ELSE d[i]
        /\ v = [i \in 1 .. Len(d) |-> v[i]]
    <3>1. v \in Seq(Symbols) /\ Len(v) = Len(d)
      BY <2>2, UnescapedIs
    <3>2. \A i \in 1 .. Len(d) : v[i] = IF d[i] = "%%>" THEN "%>" ELSE d[i]
      BY <2>2, UnescapedIs
    <3> HIDE DEF v
    <3> QED
      BY <3>1, <3>2
  <2> HIDE DEF u, v
  <2>5. Len(a) \in Nat
    BY <2>1
  <2>6. v[Len(a) + 1] = w
    BY <2>2, <2>4, <2>5 DEF w
  <2>7. \A i \in 1 .. Len(a) : v[i] = u[i]
    <3>1. ASSUME NEW i \in 1 .. Len(a) PROVE v[i] = u[i]
      <4>1. i \in 1 .. Len(d) /\ d[i] = a[i]
        BY <2>2, <2>5
      <4>2. v[i] = IF d[i] = "%%>" THEN "%>" ELSE d[i]
        BY <2>4, <4>1
      <4> QED
        BY <2>3, <4>1, <4>2
    <3> QED
      BY <3>1
  <2>8. Longer(v, u, w)
    BY <2>2, <2>3, <2>4, <2>6, <2>7 DEF Longer
  <2>9. v = Append(u, w)
    BY <1>3, <2>3, <2>8, AppendIs
  <2> QED
    BY <1>4, <1>8, <2>9 DEF u, v, a, d
<1>10. Within(k, j + 1)'
  <2>1. (j + 1) + 1 = j + 2
    BY <1>2
  <2>2. /\ k < Len(template') /\ template'[k + 1].is \in Templates!Openers /\ stag' = template'[k + 1].is
    BY <1>1, <1>2, <1>4, <1>8 DEF p
  <2>3. tokens' = (SubSeq(template'[k + 1].body, (j + 1) + 1, Len(template'[k + 1].body)) \o <<"%>">>)
                  \o Left(template', k + 1)
    BY <1>8, <2>1 DEF b, c, e, p
  <2>4. body' = Templates!Unescaped(SubSeq(template'[k + 1].body, 1, j + 1))
    BY <1>8, <1>9 DEF b, p
  <2>5. Pages(script') \o Whole(line') = Said(template', k)
    BY <1>4, <1>8
  <2> QED
    BY <2>2, <2>3, <2>4, <2>5 DEF Within
<1>11. \E h \in 0 .. Len(template') - 1 : \E l \in 0 .. Len(template'[h + 1].body) : Within(h, l)'
  <2>1. j + 1 \in 0 .. Len(b)
    BY <1>2
  <2>2. j + 1 \in 0 .. Len(template'[k + 1].body)
    BY <1>8, <2>1 DEF b, p
  <2> QED
    BY <1>8, <1>10, <2>2
<1>12. body' \in Seq(Symbols)
  BY <1>3, <1>5, <1>8
<1> QED
  BY <1>5, <1>8, <1>11, <1>12 DEF Compiled

\* The tag is closed.
LEMMA CloseStep ==
    ASSUME Templates!BodiesAssumption, Templates!StagAssumption, template \in Seq(Pieces), Templates!Careful, Compiled,
           NEW k \in 0 .. Len(template) - 1, Within(k, Len(template[k + 1].body)), Templates!Next
    PROVE  Compiled'
<1> DEFINE p == template[k + 1]
           c == Left(template, k + 1)
           b == p.body
           e == "%>"
           u == Templates!Unescaped(b)
<1>1. p \in Pieces /\ k + 1 \in 0 .. Len(template) /\ k + 1 \in Nat /\ k + 1 \in 1 .. Len(template)
  OBVIOUS
<1>2. b \in Seq(Templates!Words) /\ p.is \in Templates!Openers /\ c \in Seq(Symbols)
  <2>1. b \in Seq(Templates!Words)
    BY <1>1, PieceIs
  <2>2. p.is \in Templates!Openers
    BY DEF Within
  <2> QED
    BY <1>1, <2>1, <2>2, LeftIs
<1>3. p.is # "<%#" => ~Templates!Commented(u)
  <2>1. p.is # "<%#" => ~Templates!Commented(b)
    BY <1>1 DEF Templates!Careful
  <2> QED
    BY <1>2, <2>1, UnescapedIs
<1>4. /\ stag = p.is /\ tokens = (SubSeq(b, Len(b) + 1, Len(b)) \o <<e>>) \o c
      /\ body = Templates!Unescaped(SubSeq(b, 1, Len(b))) /\ Pages(script) \o Whole(line) = Said(template, k)
  BY DEF Within
<1>5. /\ line \in Seq(Commands) /\ script \in Seq(Seq(Commands)) /\ body \in Seq(Symbols)
      /\ OpenLine(line) /\ \A i \in 1 .. Len(script) : EndedLine(script[i])
  BY DEF Compiled
<1>6. Said(template, k + 1) = Said(template, k) \o Templates!Meaning(p)
  BY SaidIs
<1>7. /\ p.is = "<%"  => Templates!Meaning(p) = <<<<"run", Templates!Chopped(u)>>>>
      /\ p.is = "<%=" => Templates!Meaning(p) = <<<<"insert", u>>>>
      /\ p.is = "<%#" => Templates!Meaning(p) = <<>>
  BY <1>1, MeaningIs
<1>8. p.is \in {"<%", "<%=", "<%#"}
  BY <1>2 DEF Templates!Openers
<1> HIDE DEF p, c, b, u
<1>9. tokens = <<e>> \o c /\ body = u
  <2>1. SubSeq(b, Len(b) + 1, Len(b)) = <<>> /\ SubSeq(b, 1, Len(b)) = b
    BY <1>2
  <2>2. <<>> \o <<e>> = <<e>>
    OBVIOUS
  <2> QED
    BY <1>4, <2>1, <2>2 DEF u
<1>10. e \in Symbols
  BY DEF Symbols
<1>11. Head(tokens) = "%>" /\ Tail(tokens) = c
  BY <1>2, <1>9, <1>10, HeadOf
<1>12. Templates!Closes /\ tokens' = c /\ template' = template
  BY <1>2, <1>4, <1>11, NextWithin
<1>13. u \in Seq(Symbols)
  BY <1>5, <1>9
<1>14. ASSUME stag' = Nothing, body' = <<>>,
              line' \in Seq(Commands) /\ script' \in Seq(Seq(Commands)) /\ OpenLine(line')
              /\ \A i \in 1 .. Len(script') : EndedLine(script'[i]),
              Pages(script') \o Whole(line') = (Pages(script) \o Whole(line)) \o Templates!Meaning(p)
       PROVE  Compiled'
  <2>1. Pages(script') \in Seq(Outputs) /\ Whole(line') \in Seq(Outputs)
    BY <1>14, PagesIs, WholeIs
  <2>2. Templates!Text(body') = <<>>
    BY <1>5, <1>14, TextIs
  <2> DEFINE x == Pages(script') \o Whole(line')
  <2>3. x \in Seq(Outputs)
    BY <2>1
  <2>4. x = Said(template', k + 1)
    BY <1>4, <1>6, <1>12, <1>14
  <2> HIDE DEF x
  <2>5. x \o <<>> = x
    BY <2>3
  <2>6. (Pages(script') \o Whole(line')) \o Templates!Text(body') = Said(template', k + 1)
    BY <2>2, <2>4, <2>5 DEF x
  <2>7. tokens' = Left(template', k + 1)
    BY <1>12 DEF c
  <2>8. Between(k + 1)'
    BY <1>14, <2>6, <2>7 DEF Between
  <2>9. \E h \in 0 .. Len(template') : Between(h)'
    BY <1>1, <1>12, <2>8
  <2>10. body' \in Seq(Symbols)
    BY <1>14
  <2> QED
    BY <1>14, <2>9, <2>10 DEF Compiled
<1>15. CASE stag = "<%" /\ body # <<>> /\ Templates!Last(body) = "\n"
  <2> DEFINE d == Templates!Run(Templates!Front(u))
             l == Append(line, d)
  <2>1. stag' = Nothing /\ body' = <<>> /\ script' = Append(script, l) /\ line' = <<>>
    BY <1>9, <1>12, <1>15 DEF Templates!Closes, Templates!Chop
  <2>2. Templates!Meaning(p) = <<<<"run", Templates!Front(u)>>>>
    BY <1>4, <1>7, <1>9, <1>15 DEF Templates!Chopped
  <2>3. Templates!Front(u) \in Seq(Symbols)
    BY <1>9, <1>13, <1>15, FrontLast
  <2>4. d \in Commands /\ Templates!Puts(d) = Templates!Meaning(p) /\ d.do # "insert"
    BY <2>2, <2>3, CommandIs DEF Templates!Run
  <2> HIDE DEF d
  <2>5. /\ l \in Seq(Commands) /\ EndedLine(l) /\ Whole(l) = Whole(line) \o Templates!Meaning(p)
        /\ Whole(line) \in Seq(Outputs) /\ Templates!Meaning(p) \in Seq(Outputs)
    BY <1>5, <2>4, AddCommand
  <2> HIDE DEF l
  <2>6. /\ script' \in Seq(Seq(Commands)) /\ Pages(script') = Pages(script) \o Whole(l)
        /\ Pages(script) \in Seq(Outputs)
        /\ \A i \in 1 .. Len(script') : EndedLine(script'[i])
    BY <1>5, <2>1, <2>5, AddLine
  <2>7. Whole(line') = <<>> /\ OpenLine(line') /\ line' \in Seq(Commands)
    <3>1. Whole(<<>>) = <<>>
      BY <1>5, WholeIs
    <3>2. OpenLine(<<>>) /\ <<>> \in Seq(Commands)
      BY DEF OpenLine
    <3> QED
      BY <2>1, <3>1, <3>2
  <2> DEFINE x == Pages(script)
             y == Whole(line)
             z == Templates!Meaning(p)
  <2>8. x \in Seq(Outputs) /\ y \in Seq(Outputs) /\ z \in Seq(Outputs)
    BY <2>5, <2>6
  <2>9. Pages(script') = x \o (y \o z) /\ Whole(line') = <<>>
    BY <2>5, <2>6, <2>7
  <2>10. Pages(script') \o Whole(line') = (Pages(script) \o Whole(line)) \o Templates!Meaning(p)
    <3> HIDE DEF x, y, z
    <3>1. (x \o (y \o z)) \o <<>> = (x \o y) \o z
      BY <2>8
    <3> QED
      BY <2>9, <3>1 DEF x, y, z
  <2> QED
    BY <1>14, <2>1, <2>6, <2>7, <2>10
<1>16. CASE ~(stag = "<%" /\ body # <<>> /\ Templates!Last(body) = "\n")
  <2> DEFINE d == IF stag = "<%" THEN Templates!Run(u) ELSE Templates!Insert(u)
  <2>1. stag' = Nothing /\ body' = <<>> /\ script' = script
        /\ line' = IF stag = "<%#" THEN line ELSE Append(line, d)
    BY <1>4, <1>8, <1>9, <1>12, <1>16 DEF Templates!Closes
  <2>2. Pages(script) \in Seq(Outputs) /\ Whole(line) \in Seq(Outputs)
    BY <1>5, PagesIs, WholeIs
  <2>3. CASE stag = "<%#"
    <3> DEFINE x == Pages(script) \o Whole(line)
    <3>1. x \in Seq(Outputs) /\ Templates!Meaning(p) = <<>> /\ Pages(script') \o Whole(line') = x
      <4>1. Templates!Meaning(p) = <<>> /\ line' = line /\ script' = script
        BY <1>4, <1>7, <2>1, <2>3
      <4>2. Pages(script') = Pages(script) /\ Whole(line') = Whole(line)
        BY <4>1
      <4> DEFINE y == Pages(script)
                 z == Whole(line)
      <4>3. y \in Seq(Outputs) /\ z \in Seq(Outputs)
        BY <2>2
      <4> HIDE DEF y, z
      <4>4. y \o z \in Seq(Outputs)
        BY <4>3
      <4> QED
        BY <4>1, <4>2, <4>4 DEF y, z
    <3>2. x \o <<>> = x
      <4> HIDE DEF x
      <4> QED
        BY <3>1
    <3> QED
      BY <1>5, <1>14, <2>1, <2>3, <3>1, <3>2
  <2>4. CASE stag # "<%#"
    <3>1. d \in Commands /\ Templates!Puts(d) = Templates!Meaning(p)
      <4>1. stag = "<%" => Templates!Meaning(p) = <<<<"run", u>>>>
        BY <1>4, <1>7, <1>9, <1>16 DEF Templates!Chopped
      <4> QED
        BY <1>4, <1>7, <1>8, <1>13, <2>4, <4>1, CommandIs
    <3>2. ~Templates!Commented(d.of)
      BY <1>3, <1>4, <2>4 DEF Templates!Run, Templates!Insert
    <3>3. line' = Append(line, d)
      BY <2>1, <2>4
    <3> HIDE DEF d
    <3>4. /\ line' \in Seq(Commands) /\ OpenLine(line') /\ Whole(line') = Whole(line) \o Templates!Meaning(p)
          /\ Templates!Meaning(p) \in Seq(Outputs)
      BY <1>5, <3>1, <3>2, <3>3, AddCommand
    <3> DEFINE x == Pages(script)
               y == Whole(line)
               z == Templates!Meaning(p)
    <3>5. Pages(script') \o Whole(line') = (Pages(script) \o Whole(line)) \o Templates!Meaning(p)
      <4>1. x \in Seq(Outputs) /\ y \in Seq(Outputs) /\ z \in Seq(Outputs)
        BY <2>2, <3>4
      <4>2. Pages(script') \o Whole(line') = x \o (y \o z)
        BY <2>1, <3>4
      <4> HIDE DEF x, y, z
      <4>3. x \o (y \o z) = (x \o y) \o z
        BY <4>1
      <4> QED
        BY <4>2, <4>3 DEF x, y, z
    <3> QED
      BY <1>5, <1>14, <2>1, <3>4, <3>5
  <2> QED
    BY <2>3, <2>4
<1> QED
  BY <1>15, <1>16

LEMMA TemplatesNext ==
    ASSUME Templates!BodiesAssumption, Templates!StagAssumption, TemplatesInv, [Templates!Next]_(Templates!vars)
    PROVE  TemplatesInv'
<1>1. CASE UNCHANGED Templates!vars
  BY <1>1 DEF TemplatesInv, Templates!vars, Templates!Careful, Compiled, Between, Within
<1>2. CASE Templates!Next
  <2>1. type' = type /\ template' = template
    BY <1>2 DEF Templates!Next, Templates!Newline, Templates!Opens, Templates!Escaped,
                Templates!Closes, Templates!Other, Templates!Scanned
  <2>2. Templates!Careful' <=> Templates!Careful
    BY <2>1 DEF Templates!Careful
  <2>3. ASSUME Templates!Careful PROVE Compiled'
    <3>1. Compiled /\ template \in Seq(Pieces)
      BY <2>3 DEF TemplatesInv
    <3>2. CASE \E k \in 0 .. Len(template) : Between(k)
      <4>1. PICK k \in 0 .. Len(template) : Between(k)
        BY <3>2
      <4>2. k # Len(template)
        <5>1. tokens # <<>> /\ tokens = Left(template, k)
          BY <1>2, <4>1, NextBetween DEF Between
        <5>2. Left(template, Len(template)) = <<>>
          BY <3>1, LeftIs
        <5> QED
          BY <5>1, <5>2
      <4>3. k \in 0 .. Len(template) - 1
        BY <3>1, <4>1, <4>2
      <4> QED
        BY <1>2, <3>1, <4>1, <4>3, TextStep, TagStep
    <3>3. CASE \E k \in 0 .. Len(template) - 1 : \E j \in 0 .. Len(template[k + 1].body) : Within(k, j)
      <4>1. PICK k \in 0 .. Len(template) - 1 : \E j \in 0 .. Len(template[k + 1].body) : Within(k, j)
        BY <3>3
      <4> DEFINE l == Len(template[k + 1].body)
      <4>2. l \in Nat
        <5>1. template[k + 1] \in Pieces
          BY <3>1, <4>1
        <5>2. template[k + 1].body \in Seq(Templates!Words)
          BY <5>1, PieceIs
        <5> QED
          BY <5>2
      <4>3. PICK j \in 0 .. l : Within(k, j)
        BY <4>1
      <4>4. CASE j = l
        BY <1>2, <2>3, <3>1, <4>1, <4>3, <4>4, CloseStep
      <4>5. CASE j # l
        <5>1. j \in 0 .. l - 1
          BY <4>2, <4>3, <4>5
        <5> QED
          BY <1>2, <3>1, <4>1, <4>3, <5>1, WordStep
      <4> QED
        BY <4>4, <4>5
    <3> QED
      BY <3>1, <3>2, <3>3 DEF Compiled
  <2> QED
    BY <2>1, <2>2, <2>3 DEF TemplatesInv
<1> QED
  BY <1>1, <1>2

\* Nothing is scanned, and nothing said, in the beginning.
LEMMA TemplatesInit ==
    ASSUME Templates!BodiesAssumption, Templates!StagAssumption, Templates!Init
    PROVE  TemplatesInv
<1>1. PICK n \in 1 .. MaxLength : template \in [1 .. n -> Templates!Texts \union Templates!Tags]
  BY DEF Templates!Init
<1>2. n \in Nat /\ template \in Seq(Pieces) /\ Len(template) = n
  BY <1>1 DEF Templates!BodiesAssumption, Pieces
<1>3. ASSUME Templates!Careful PROVE Compiled
  <2> DEFINE S(i) == [j \in 1 .. Len(Templates!Source(template[i])) |->
                       Templates!Split(type, Templates!Source(template[i])[j])]
  <2>1. ASSUME NEW i \in 1 .. n PROVE Templates!FlattenSeq(S(i)) = Templates!Source(template[i])
    <3> DEFINE p == template[i]
               s == Templates!Source(p)
    <3>1. p \in Pieces /\ i \in 1 .. Len(template)
      BY <1>2
    <3>2. s \in Seq(Symbols) /\ p.body \in Seq(Templates!Words)
      BY <3>1, PieceIs
    <3>3. ASSUME NEW j \in 1 .. Len(s), s[j] = "%%>" PROVE type = "["
      <4>1. p.is \in Templates!Openers
        <5>1. ASSUME p.is \notin Templates!Openers PROVE FALSE
          <6>1. s = <<p.is>> /\ p.is # "%%>"
            BY <3>1, <5>1, PieceIs
          <6> DEFINE o == p.is
          <6>2. s = <<o>> /\ o # "%%>"
            BY <6>1
          <6> HIDE DEF o, s
          <6> QED
            BY <3>3, <6>2
        <5> QED
          BY <5>1
      <4>2. s = (<<p.is>> \o p.body) \o <<"%>">>
        BY <3>1, <4>1, PieceIs
      <4> DEFINE b == p.body
                 o == p.is
                 e == "%>"
                 l == Len(b)
      <4>3. o # "%%>" /\ e # "%%>"
        BY <4>1 DEF Templates!Openers
      <4>4. s = (<<o>> \o b) \o <<e>> /\ b \in Seq(Templates!Words)
        BY <3>2, <4>2
      <4> HIDE DEF b, o, e, s
      <4>5. l \in Nat /\ Len(s) = l + 2 /\ s[1] = o /\ s[l + 2] = e
        BY <4>4
      <4>6. \A h \in 1 .. l : s[h + 1] = b[h]
        BY <4>4
      <4>7. j - 1 \in 1 .. l /\ s[(j - 1) + 1] = s[j]
        BY <3>3, <4>3, <4>5
      <4>8. Templates!Contains(b, "%%>")
        BY <3>3, <4>6, <4>7 DEF Templates!Contains
      <4> QED
        BY <1>3, <3>1, <4>8 DEF Templates!Careful, b
    <3>4. \A j \in 1 .. Len(s) : Templates!Split(type, s[j]) = <<s[j]>>
      BY <3>3 DEF Templates!Split
    <3>5. S(i) = [j \in 1 .. Len(s) |-> <<s[j]>>]
      BY <3>4
    <3> HIDE DEF s, S
    <3>6. Templates!FlattenSeq([j \in 1 .. Len(s) |-> <<s[j]>>]) = s
      BY <3>2, FlattenOnes
    <3> QED
      BY <3>5, <3>6 DEF s
  <2>2. tokens = Templates!FlattenSeq([i \in 1 .. Len(template) |-> Templates!FlattenSeq(S(i))])
    BY DEF Templates!Init
  <2>3. tokens = Left(template, 0)
    <3>1. [i \in 1 .. Len(template) |-> Templates!FlattenSeq(S(i))] =
            [i \in 1 .. Len(template) |-> Templates!Source(template[i])]
      <4> HIDE DEF S
      <4> QED
        BY <1>2, <2>1
    <3>2. [i \in 1 .. Len(template) |-> Templates!Source(template[i])] =
            [i \in 1 .. Len(template) - 0 |-> Templates!Source(template[0 + i])]
      BY <1>2
    <3> HIDE DEF S
    <3> QED
      BY <2>2, <3>1, <3>2 DEF Left
  <2>4. Said(template, 0) = <<>> /\ Pages(<<>>) = <<>> /\ Whole(<<>>) = <<>> /\ Templates!Text(<<>>) = <<>>
    BY DEF Said, Pages, Whole, Templates!Text, Templates!FlattenSeq
  <2>5. stag = Nothing /\ body = <<>> /\ line = <<>> /\ script = <<>>
    BY DEF Templates!Init
  <2>6. (<<>> \o <<>>) \o <<>> = <<>>
    OBVIOUS
  <2>7. Between(0)
    BY <2>3, <2>4, <2>5, <2>6 DEF Between
  <2>8. /\ line \in Seq(Commands) /\ script \in Seq(Seq(Commands)) /\ body \in Seq(Symbols)
        /\ OpenLine(line) /\ \A i \in 1 .. Len(script) : EndedLine(script[i])
    BY <2>5 DEF OpenLine
  <2>9. 0 \in 0 .. Len(template)
    BY <1>2
  <2> QED
    BY <2>7, <2>8, <2>9 DEF Compiled
<1> QED
  BY <1>2, <1>3 DEF TemplatesInv, Templates!Init

LEMMA TemplatesHold ==
    ASSUME Templates!BodiesAssumption, Templates!StagAssumption, TemplatesInv
    PROVE  Templates!RenderRight
<1> SUFFICES ASSUME tokens = <<>>, Templates!Careful
             PROVE  (\A i \in 1 .. Len(Templates!Script) : ~Templates!Broken(Templates!Script[i])) /\ Templates!Page = Templates!Meant
  BY DEF Templates!RenderRight
<1>1. Compiled /\ template \in Seq(Pieces)
  BY DEF TemplatesInv
<1>2. /\ line \in Seq(Commands) /\ script \in Seq(Seq(Commands)) /\ body \in Seq(Symbols)
      /\ OpenLine(line) /\ \A i \in 1 .. Len(script) : EndedLine(script[i])
  BY <1>1 DEF Compiled
<1>3. Between(Len(template))
  <2>1. ASSUME NEW k \in 0 .. Len(template) - 1 PROVE Left(template, k) # <<>>
    <3> DEFINE p == template[k + 1]
               a == Templates!Source(p)
               b == Left(template, k + 1)
    <3>1. p \in Pieces /\ k + 1 \in 0 .. Len(template)
      BY <1>1
    <3>2. a \in Seq(Symbols) /\ a # <<>>
      <4>1. CASE p.is \notin Templates!Openers
        <5> DEFINE o == p.is
        <5>1. a = <<o>> /\ a \in Seq(Symbols)
          BY <3>1, <4>1, PieceIs
        <5>2. <<o>> # <<>>
          <6> HIDE DEF o
          <6> QED
            OBVIOUS
        <5> QED
          BY <5>1, <5>2
      <4>2. CASE p.is \in Templates!Openers
        <5> DEFINE o == p.is
                   c == p.body
                   e == "%>"
        <5>1. a = (<<o>> \o c) \o <<e>> /\ a \in Seq(Symbols) /\ c \in Seq(Templates!Words)
          BY <3>1, <4>2, PieceIs
        <5> HIDE DEF o, c, e
        <5>2. Len((<<o>> \o c) \o <<e>>) = Len(c) + 2 /\ Len(c) \in Nat
          BY <5>1
        <5>3. Len(<<>>) = 0
          OBVIOUS
        <5> HIDE DEF a
        <5>4. a # <<>>
          BY <5>1, <5>2, <5>3
        <5> QED
          BY <5>1, <5>4
      <4> QED
        BY <4>1, <4>2
    <3>3. b \in Seq(Symbols) /\ Left(template, k) = a \o b
      BY <1>1, <3>1, LeftIs
    <3> HIDE DEF a, b
    <3> QED
      BY <3>2, <3>3
  <2>2. ASSUME NEW k \in 0 .. Len(template) - 1, NEW j \in 0 .. Len(template[k + 1].body), Within(k, j)
        PROVE  FALSE
    <3> DEFINE s == SubSeq(template[k + 1].body, j + 1, Len(template[k + 1].body))
               e == "%>"
               b == Left(template, k + 1)
    <3>1. template[k + 1] \in Pieces /\ k + 1 \in 0 .. Len(template)
      BY <1>1
    <3>2. b \in Seq(Symbols) /\ template[k + 1].body \in Seq(Templates!Words)
      BY <1>1, <3>1, LeftIs, PieceIs
    <3>3. s \in Seq(Templates!Words)
      <4> DEFINE c == template[k + 1].body
      <4>1. c \in Seq(Templates!Words) /\ j \in 0 .. Len(c)
        BY <3>2
      <4> HIDE DEF c
      <4>2. SubSeq(c, j + 1, Len(c)) \in Seq(Templates!Words)
        BY <4>1
      <4> QED
        BY <4>2 DEF c
    <3>4. tokens = (s \o <<e>>) \o b
      BY <2>2 DEF Within
    <3> HIDE DEF s, e, b
    <3>5. Len((s \o <<e>>) \o b) = Len(s) + 1 + Len(b) /\ Len(s) \in Nat /\ Len(b) \in Nat
      BY <3>2, <3>3
    <3>6. Len(<<>>) = 0
      OBVIOUS
    <3> QED
      BY <3>4, <3>5, <3>6
  <2>3. PICK k \in 0 .. Len(template) : Between(k)
    BY <1>1, <2>2 DEF Compiled
  <2>4. k = Len(template)
    <3>1. tokens = Left(template, k)
      BY <2>3 DEF Between
    <3>2. k \notin 0 .. Len(template) - 1
      BY <2>1, <3>1
    <3> QED
      BY <1>1, <2>3, <3>2
  <2> QED
    BY <2>3, <2>4
<1>4. (Pages(script) \o Whole(line)) \o Templates!Text(body) = Templates!Meant
  BY <1>3 DEF Between, Said, Templates!Meant
<1> DEFINE l == IF body = <<>> THEN line ELSE Append(line, Templates!Put(body))
<1>5. l \in Seq(Commands) /\ EndedLine(l) /\ Whole(l) = Whole(line) \o Templates!Text(body)
  <2>1. CASE body = <<>>
    <3>1. Templates!Text(body) = <<>> /\ Whole(line) \in Seq(Outputs)
      BY <1>2, <2>1, TextIs, WholeIs
    <3>2. Whole(line) \o <<>> = Whole(line)
      BY <3>1
    <3>3. EndedLine(line)
      BY <1>2 DEF OpenLine, EndedLine
    <3> QED
      BY <1>2, <2>1, <3>1, <3>2, <3>3
  <2>2. CASE body # <<>>
    <3> DEFINE d == Templates!Put(body)
    <3>1. d \in Commands /\ Templates!Puts(d) = Templates!Text(body) /\ d.do = "put"
      BY <1>2, CommandIs DEF Templates!Put
    <3>2. l = Append(line, d)
      BY <2>2
    <3> HIDE DEF d, l
    <3> QED
      BY <1>2, <3>1, <3>2, AddCommand
  <2> QED
    BY <2>1, <2>2
<1>6. Templates!Script = Append(script, l)
  BY DEF Templates!Script
<1> HIDE DEF l
<1>7. /\ Templates!Script \in Seq(Seq(Commands)) /\ Pages(Templates!Script) = Pages(script) \o Whole(l)
      /\ \A i \in 1 .. Len(Templates!Script) : EndedLine(Templates!Script[i])
  BY <1>2, <1>5, <1>6, AddLine
<1>8. \A i \in 1 .. Len(Templates!Script) : ~Templates!Broken(Templates!Script[i])
  <2>1. ASSUME NEW i \in 1 .. Len(Templates!Script) PROVE ~Templates!Broken(Templates!Script[i])
    <3> DEFINE m == Templates!Script[i]
    <3>1. m \in Seq(Commands) /\ EndedLine(m)
      BY <1>7
    <3> HIDE DEF m
    <3>2. ~Templates!Broken(m)
      BY <3>1, OutputIs
    <3> QED
      BY <3>2 DEF m
  <2> QED
    BY <2>1
<1>9. Templates!Page = Pages(Templates!Script)
  <2> HIDE DEF Templates!Script
  <2> QED
    BY <1>7, PageIs DEF Templates!Page
<1> DEFINE x == Pages(script)
           y == Whole(line)
           z == Templates!Text(body)
<1>10. x \in Seq(Outputs) /\ y \in Seq(Outputs) /\ z \in Seq(Outputs)
  BY <1>2, PagesIs, WholeIs, TextIs
<1>11. Templates!Page = x \o (y \o z) /\ Templates!Meant = (x \o y) \o z
  BY <1>4, <1>5, <1>7, <1>9
<1>12. x \o (y \o z) = (x \o y) \o z
  <2> HIDE DEF x, y, z
  <2> QED
    BY <1>10
<1> QED
  BY <1>8, <1>11, <1>12

\* Unless a tag of a careful template holds what cuts the line, the script writes
\* what the template says, piece by piece, for templates of any length and any
\* bodies of tags.
THEOREM TemplatesTheorem ==
    ASSUME Templates!BodiesAssumption, Templates!StagAssumption
    PROVE  Templates!Spec => []Templates!RenderRight
<1>1. Templates!Init => TemplatesInv
  BY TemplatesInit
<1>2. TemplatesInv /\ [Templates!Next]_(Templates!vars) => TemplatesInv'
  BY TemplatesNext
<1>3. TemplatesInv => Templates!RenderRight
  BY TemplatesHold
<1> QED
  BY <1>1, <1>2, <1>3, PTL DEF Templates!Spec

-----------------------------------------------------------------------------
\* The times of a movie.

\* A list that holds nothing twice, and what a list holds.
Distinct(s) == \A i, j \in 1 .. Len(s) : s[i] = s[j] => i = j

LEMMA ToSetIs ==
    ASSUME NEW V, NEW s \in Seq(V)
    PROVE  /\ Theatres!ToSet(s) \subseteq V
           /\ \A x : x \in Theatres!ToSet(s) <=> \E i \in 1 .. Len(s) : s[i] = x
  BY DEF Theatres!ToSet

LEMMA TheatresCount == \A S : Theatres!Cardinality(S) = Cardinality(S)
BY Zenon DEF Theatres!Cardinality, Cardinality

LEMMA TheatresFinite == \A S : Theatres!IsFiniteSet(S) <=> IsFiniteSet(S)
BY Zenon DEF Theatres!IsFiniteSet, IsFiniteSet

LEMMA DistinctCount ==
    ASSUME NEW V, NEW s \in Seq(V), Distinct(s)
    PROVE  Len(s) = Cardinality(Theatres!ToSet(s))
<1> DEFINE n == Len(s)
<1>1. n \in Nat /\ IsFiniteSet(1 .. n) /\ Cardinality(1 .. n) = n
  <2>1. n \in Nat /\ n \in Int /\ 1 \in Int
    OBVIOUS
  <2> HIDE DEF n
  <2> QED
    BY <2>1, FS_Interval
<1>2. s \in Bijection(1 .. n, Theatres!ToSet(s))
  <2>1. s \in [1 .. n -> Theatres!ToSet(s)]
    BY ToSetIs
  <2>2. \A x \in Theatres!ToSet(s) : \E i \in 1 .. n : s[i] = x
    BY ToSetIs
  <2> QED
    BY <2>1, <2>2 DEF Bijection, Injection, Surjection, IsInjective, Distinct
<1>3. Cardinality(Theatres!ToSet(s)) = n
  <2> HIDE DEF n
  <2> QED
    BY <1>1, <1>2, FS_Bijection DEF ExistsBijection
<1> QED
  BY <1>3

\* SetToSeq makes a list of a finite set, each member once.
LEMMA SetToSeqIs ==
    ASSUME NEW S, IsFiniteSet(S)
    PROVE  /\ Theatres!SetToSeq(S) \in Seq(S) /\ Distinct(Theatres!SetToSeq(S))
           /\ Theatres!ToSet(Theatres!SetToSeq(S)) = S
<1> DEFINE n == Cardinality(S)
           f == Theatres!SetToSeq(S)
<1>1. n \in Nat /\ ExistsBijection(1 .. n, S)
  BY FS_CardinalityType
<1>2. \E g \in [1 .. n -> S] : \A i, j \in 1 .. n : g[i] = g[j] => i = j
  BY <1>1 DEF ExistsBijection, Bijection, Injection, IsInjective
<1>3. f \in [1 .. n -> S] /\ \A i, j \in 1 .. n : f[i] = f[j] => i = j
  <2>1. Theatres!Cardinality(S) = n
    BY TheatresCount
  <2>2. f = CHOOSE g \in [1 .. n -> S] : Theatres!IsInjective(g)
    BY <2>1 DEF Theatres!SetToSeq
  <2>3. \A g \in [1 .. n -> S] : Theatres!IsInjective(g) <=> \A i, j \in 1 .. n : g[i] = g[j] => i = j
    BY DEF Theatres!IsInjective
  <2> HIDE DEF n, f
  <2>4. f \in [1 .. n -> S] /\ Theatres!IsInjective(f)
    BY <1>2, <2>2, <2>3
  <2> QED
    BY <2>3, <2>4
<1>4. \A x \in S : \E i \in 1 .. n : f[i] = x
  <2>1. IsFiniteSet(1 .. n) /\ Cardinality(1 .. n) = n
    <3>1. n \in Int /\ 1 \in Int /\ n \in Nat
      BY <1>1
    <3> HIDE DEF n
    <3> QED
      BY <3>1, FS_Interval
  <2> HIDE DEF n, f
  <2>2. f \in Injection(1 .. n, S)
    BY <1>3 DEF Injection, IsInjective
  <2>3. f \in Surjection(1 .. n, S)
    BY <2>1, <2>2, FS_Injection DEF n
  <2> QED
    BY <2>3 DEF Surjection
<1>5. f \in Seq(S) /\ Len(f) = n
  <2> HIDE DEF n, f
  <2> QED
    BY <1>1, <1>3
<1> HIDE DEF f, n
<1>6. Theatres!ToSet(f) = S
  <2>1. Theatres!ToSet(f) \subseteq S /\ \A x : x \in Theatres!ToSet(f) <=> \E i \in 1 .. Len(f) : f[i] = x
    BY <1>5, ToSetIs
  <2> QED
    BY <1>4, <1>5, <2>1
<1> QED
  BY <1>3, <1>5, <1>6 DEF Distinct, f

\* The same list in another order.
LEMMA Reordered ==
    ASSUME NEW V, NEW s \in Seq(V), NEW o \in Theatres!SetToSeqs(1 .. Len(s)),
           NEW t, t = [i \in 1 .. Len(s) |-> s[o[i]]]
    PROVE  t \in Seq(V) /\ Theatres!ToSet(t) = Theatres!ToSet(s) /\ Len(t) = Len(s) /\ (Distinct(s) => Distinct(t))
<1> DEFINE n == Len(s)
<1>1. n \in Nat
  OBVIOUS
<1>2. o \in Orders(n)
  <2> DEFINE k == Theatres!Cardinality(1 .. n)
  <2>1. k = n
    <3>1. n \in Int /\ 1 \in Int /\ n \in Nat
      BY <1>1
    <3> HIDE DEF n
    <3> QED
      BY <3>1, FS_Interval, TheatresCount
  <2>2. o \in {p \in [1 .. k -> 1 .. n] : \A i, j \in 1 .. k : i # j => p[i] # p[j]}
    BY DEF Theatres!SetToSeqs
  <2> HIDE DEF k, n
  <2> QED
    BY <2>1, <2>2 DEF Orders
<1>3. t = [i \in 1 .. n |-> s[o[i]]] /\ \A i \in 1 .. n : s[i] \in V
  OBVIOUS
<1>4. \A x \in 1 .. n : \E i \in 1 .. n : o[i] = x
  BY <1>1, <1>2, OrdersOnto
<1>5. /\ \A i \in 1 .. n : o[i] \in 1 .. n
      /\ \A i, j \in 1 .. n : o[i] = o[j] => i = j
  BY <1>2 DEF Orders
<1>6. \A x : x \in Theatres!ToSet(s) <=> \E i \in 1 .. n : s[i] = x
  BY ToSetIs
<1>7. Distinct(s) <=> \A i, j \in 1 .. n : s[i] = s[j] => i = j
  BY DEF Distinct
<1> HIDE DEF n
<1>8. t \in Seq(V) /\ Len(t) = n /\ \A i \in 1 .. n : t[i] = s[o[i]]
  BY <1>1, <1>3, <1>5
<1>9. \A x : x \in Theatres!ToSet(t) <=> \E i \in 1 .. n : t[i] = x
  <2>1. t \in Seq(V) /\ Len(t) = n
    BY <1>8
  <2>3. \A u \in Seq(V) : \A x : x \in Theatres!ToSet(u) <=> \E i \in 1 .. Len(u) : u[i] = x
    BY ToSetIs
  <2>2. \A x : x \in Theatres!ToSet(t) <=> \E i \in 1 .. Len(t) : t[i] = x
    <3> QED
      BY <2>1, <2>3, Zenon
  <2> QED
    BY <2>1, <2>2
<1>10. Theatres!ToSet(t) = Theatres!ToSet(s)
  <2>1. ASSUME NEW x \in Theatres!ToSet(t) PROVE x \in Theatres!ToSet(s)
    BY <1>5, <1>6, <1>8, <1>9
  <2>2. ASSUME NEW x \in Theatres!ToSet(s) PROVE x \in Theatres!ToSet(t)
    <3>1. PICK j \in 1 .. n : s[j] = x
      BY <1>6
    <3>2. PICK i \in 1 .. n : o[i] = j
      BY <1>4
    <3> QED
      BY <1>8, <1>9, <3>1, <3>2
  <2> QED
    BY <2>1, <2>2
<1>11. Distinct(s) => Distinct(t)
  BY <1>5, <1>7, <1>8 DEF Distinct
<1> QED
  BY <1>8, <1>10, <1>11 DEF n

\* What goes up from each to the next goes up throughout.
LEMMA Ascending ==
    ASSUME NEW n \in Nat, NEW k \in [1 .. n -> Nat], \A i \in 1 .. n - 1 : k[i] <= k[i + 1]
    PROVE  \A i, j \in 1 .. n : i < j => k[i] <= k[j]
<1> SUFFICES ASSUME NEW i \in 1 .. n PROVE \A j \in 1 .. n : i < j => k[i] <= k[j]
  OBVIOUS
<1> DEFINE Bad == {j \in 1 .. n : i < j /\ ~(k[i] <= k[j])}
<1>1. ASSUME NEW j \in Bad, \A h \in Bad : j <= h PROVE FALSE
  <2>1. j \in 1 .. n /\ i < j /\ ~(k[i] <= k[j]) /\ j - 1 \in 1 .. n - 1 /\ (j - 1) + 1 = j
    BY <1>1
  <2>2. k[j - 1] <= k[j] /\ k[i] \in Nat /\ k[j] \in Nat /\ k[j - 1] \in Nat
    BY <2>1
  <2>3. CASE i = j - 1
    BY <2>1, <2>2, <2>3
  <2>4. CASE i # j - 1
    <3>1. i < j - 1 /\ j - 1 \in 1 .. n /\ ~(j <= j - 1)
      BY <2>1, <2>4
    <3>2. k[i] <= k[j - 1]
      BY <1>1, <3>1
    <3> QED
      BY <2>1, <2>2, <3>2
  <2> QED
    BY <2>3, <2>4
<1>2. Bad = {}
  <2>1. Bad \in SUBSET Nat
    OBVIOUS
  <2> HIDE DEF Bad
  <2> QED
    BY <1>1, <2>1, Least
<1> QED
  BY <1>2

CinemasAssumed == Theatres!TheatresAssumption /\ Theatres!PartsAssumption /\ Theatres!SchedulesAssumption

GivenType ==
    /\ schedule \in [Cinemas -> [Versions -> SUBSET Theatres!ClockTimes]]
    /\ broad \in BOOLEAN /\ byMovie \in BOOLEAN

Entry      == [id : Cinemas, shows : SUBSET Versions]
EntryOf(p, t) == [id |-> t, shows |-> IF broad THEN Theatres!Shows(t) ELSE {p}]
Entries(p) == {EntryOf(p, t) : t \in {u \in Cinemas : p \in Theatres!Shows(u)}}

\* The data has what the good replies said, the nearer theatres first.
NearFirst(D) == \A i, j \in 1 .. Len(D) : i < j => Distance[D[i].id] <= Distance[D[j].id]
DataOf(D, G) ==
    /\ D \in Seq(Entry) /\ NearFirst(D)
    /\ \A e : e \in Theatres!ToSet(D) <=> \E p \in G : e \in Entries(p)

LEMMA ShowsAre ==
    ASSUME GivenType, NEW t \in Cinemas
    PROVE  /\ Theatres!Shows(t) \subseteq Versions
           /\ \A v : v \in Theatres!Shows(t) <=> v \in Versions /\ schedule[t][v] # {}
           /\ \A v \in Versions : schedule[t][v] \subseteq Theatres!ClockTimes
  BY DEF GivenType, Theatres!Shows

LEMMA EntriesAre ==
    ASSUME CinemasAssumed, GivenType, NEW p \in TmsIds
    PROVE  /\ IsFiniteSet(Entries(p)) /\ Entries(p) \subseteq Entry
           /\ \A e : e \in Entries(p) <=> \E t \in Cinemas : p \in Theatres!Shows(t) /\ e = EntryOf(p, t)
<1> DEFINE U == {u \in Cinemas : p \in Theatres!Shows(u)}
           f == [t \in U |-> EntryOf(p, t)]
<1>1. p \in Versions /\ IsFiniteSet(Cinemas) /\ U \in SUBSET Cinemas
  BY TheatresFinite DEF CinemasAssumed, Theatres!PartsAssumption, Theatres!TheatresAssumption
<1>2. IsFiniteSet(U)
  BY <1>1, FS_Subset
<1>3. f \in Surjection(U, Entries(p))
  BY DEF Surjection, Entries
<1>4. IsFiniteSet(Entries(p))
  <2> HIDE DEF f, U
  <2> QED
    BY <1>2, <1>3, FS_Surjection
<1>5. \A t \in Cinemas : p \in Theatres!Shows(t) => EntryOf(p, t) \in Entry
  <2> SUFFICES ASSUME NEW t \in Cinemas, p \in Theatres!Shows(t) PROVE EntryOf(p, t) \in Entry
    OBVIOUS
  <2>1. (IF broad THEN Theatres!Shows(t) ELSE {p}) \in SUBSET Versions
    BY <1>1, ShowsAre
  <2> QED
    BY <2>1 DEF EntryOf, Entry
<1>6. \A e : e \in Entries(p) <=> \E t \in Cinemas : p \in Theatres!Shows(t) /\ e = EntryOf(p, t)
  BY DEF Entries
<1> QED
  BY <1>4, <1>5, <1>6

LEMMA ListingIs ==
    ASSUME CinemasAssumed, GivenType, NEW p \in TmsIds
    PROVE  Theatres!Listing(p) \in Seq(Entry) /\ Theatres!ToSet(Theatres!Listing(p)) = Entries(p)
<1>1. IsFiniteSet(Entries(p)) /\ Entries(p) \subseteq Entry
  BY EntriesAre
<1>2. Theatres!Listing(p) = Theatres!SetToSeq(Entries(p))
  BY DEF Theatres!Listing, Entries, EntryOf
<1>3. Theatres!Listing(p) \in Seq(Entries(p)) /\ Theatres!ToSet(Theatres!Listing(p)) = Entries(p)
  BY <1>1, <1>2, SetToSeqIs
<1>4. Theatres!Listing(p) \in Seq(Entry)
  <2> DEFINE L == Theatres!Listing(p)
             E == Entries(p)
  <2>1. L \in Seq(E) /\ E \subseteq Entry
    BY <1>1, <1>3
  <2> HIDE DEF L, E
  <2>2. L \in Seq(Entry)
    BY <2>1
  <2> QED
    BY <2>2 DEF L
<1> QED
  BY <1>3, <1>4

\* What two lists hold, one after the other.
LEMMA JoinedHold ==
    ASSUME NEW V, NEW r \in Seq(V), NEW s \in Seq(V)
    PROVE  r \o s \in Seq(V) /\ \A x : x \in Theatres!ToSet(r \o s) <=> x \in Theatres!ToSet(r) \/ x \in Theatres!ToSet(s)
<1>1. r \o s \in Seq(V) /\ Len(r \o s) = Len(r) + Len(s)
  OBVIOUS
<1>2. \A u \in Seq(V) : \A x : x \in Theatres!ToSet(u) <=> \E i \in 1 .. Len(u) : u[i] = x
  BY ToSetIs
<1>3. \A i \in 1 .. Len(r) : (r \o s)[i] = r[i] /\ i \in 1 .. Len(r \o s)
  OBVIOUS
<1>4. \A i \in 1 .. Len(s) : (r \o s)[Len(r) + i] = s[i] /\ Len(r) + i \in 1 .. Len(r \o s)
  OBVIOUS
<1>5. ASSUME NEW x, x \in Theatres!ToSet(r \o s) PROVE x \in Theatres!ToSet(r) \/ x \in Theatres!ToSet(s)
  <2>1. PICK i \in 1 .. Len(r \o s) : (r \o s)[i] = x
    BY <1>1, <1>2, <1>5
  <2>2. CASE i <= Len(r)
    <3>1. i \in 1 .. Len(r)
      BY <2>2, <1>1
    <3> QED
      BY <1>2, <1>3, <2>1, <3>1
  <2>3. CASE i > Len(r)
    <3>1. i - Len(r) \in 1 .. Len(s) /\ Len(r) + (i - Len(r)) = i
      BY <2>3, <1>1
    <3> QED
      BY <1>2, <1>4, <2>1, <3>1
  <2> QED
    BY <2>2, <2>3
<1>6. ASSUME NEW x, x \in Theatres!ToSet(r) PROVE x \in Theatres!ToSet(r \o s)
  <2>1. PICK i \in 1 .. Len(r) : r[i] = x
    BY <1>2, <1>6
  <2> QED
    BY <1>1, <1>2, <1>3, <2>1
<1>7. ASSUME NEW x, x \in Theatres!ToSet(s) PROVE x \in Theatres!ToSet(r \o s)
  <2>1. PICK i \in 1 .. Len(s) : s[i] = x
    BY <1>2, <1>7
  <2> QED
    BY <1>1, <1>2, <1>4, <2>1
<1> QED
  BY <1>1, <1>5, <1>6, <1>7

\* Sorted by distance, the nearer ones are first, and what there is is the same.
LEMMA SortedByDistance ==
    ASSUME CinemasAssumed, NEW s \in Seq(Entry), NEW D \in Theatres!Sortings(s, Theatres!ByDistance)
    PROVE  D \in Seq(Entry) /\ Theatres!ToSet(D) = Theatres!ToSet(s) /\ NearFirst(D)
<1>1. PICK o \in Theatres!SetToSeqs(1 .. Len(s)) : D = [i \in 1 .. Len(s) |-> s[o[i]]]
  BY DEF Theatres!Sortings
<1>2. D \in Seq(Entry) /\ Theatres!ToSet(D) = Theatres!ToSet(s)
  BY <1>1, Reordered
<1>3. \A i \in 1 .. Len(D) - 1 : Distance[D[i].id] <= Distance[D[i + 1].id]
  BY DEF Theatres!Sortings, Theatres!Sorted, Theatres!ByDistance
<1> DEFINE n == Len(D)
           k == [i \in 1 .. n |-> Distance[D[i].id]]
<1>4. n \in Nat /\ k \in [1 .. n -> Nat]
  <2>1. n \in Nat /\ \A i \in 1 .. n : D[i] \in Entry
    BY <1>2
  <2>2. \A e \in Entry : Distance[e.id] \in Nat
    BY DEF Entry, CinemasAssumed, Theatres!TheatresAssumption
  <2> QED
    BY <2>1, <2>2
<1>5. \A i \in 1 .. n - 1 : k[i] <= k[i + 1]
  <2>1. \A i \in 1 .. n - 1 : i \in 1 .. n /\ i + 1 \in 1 .. n
    BY <1>4
  <2> QED
    BY <2>1, <1>3
<1>6. \A i \in 1 .. n : k[i] = Distance[D[i].id]
  OBVIOUS
<1>7. NearFirst(D)
  <2> HIDE DEF k
  <2>1. \A i, j \in 1 .. n : i < j => k[i] <= k[j]
    <3> HIDE DEF n
    <3> QED
      BY <1>4, <1>5, Ascending
  <2> QED
    BY <2>1, <1>6 DEF NearFirst
<1> QED
  BY <1>2, <1>7

LEMMA DataGrows ==
    ASSUME CinemasAssumed, GivenType, NEW D0, NEW G, DataOf(D0, G), NEW p \in TmsIds,
           NEW D \in Theatres!Sortings(D0 \o Theatres!Listing(p), Theatres!ByDistance)
    PROVE  DataOf(D, G \union {p})
<1>1. D0 \in Seq(Entry) /\ Theatres!Listing(p) \in Seq(Entry) /\ Theatres!ToSet(Theatres!Listing(p)) = Entries(p)
  BY ListingIs DEF DataOf
<1> DEFINE L == Theatres!Listing(p)
<1>2. L \in Seq(Entry) /\ Theatres!ToSet(L) = Entries(p)
  BY <1>1
<1> HIDE DEF L
<1>3. D0 \o L \in Seq(Entry) /\ \A x : x \in Theatres!ToSet(D0 \o L) <=> x \in Theatres!ToSet(D0) \/ x \in Theatres!ToSet(L)
  BY <1>1, <1>2, JoinedHold
<1>4. D \in Seq(Entry) /\ Theatres!ToSet(D) = Theatres!ToSet(D0 \o L) /\ NearFirst(D)
  <2>1. D \in Theatres!Sortings(D0 \o L, Theatres!ByDistance)
    BY DEF L
  <2> QED
    BY <1>3, <2>1, SortedByDistance
<1>5. \A e : e \in Theatres!ToSet(D) <=> \E q \in G \union {p} : e \in Entries(q)
  BY <1>2, <1>3, <1>4 DEF DataOf
<1> QED
  BY <1>4, <1>5 DEF DataOf

LEMMA ClockFinite == IsFiniteSet(Theatres!ClockTimes)
<1> DEFINE P == (1 .. 12) \X BOOLEAN
           f == [c \in Theatres!ClockTimes |-> <<c.hour, c.pm>>]
<1>1. IsFiniteSet(1 .. 12)
  <2>1. 1 \in Int /\ 12 \in Int
    OBVIOUS
  <2> QED
    BY <2>1, FS_Interval
<1>2. IsFiniteSet(BOOLEAN)
  <2>1. IsFiniteSet({TRUE}) /\ BOOLEAN = {TRUE} \union {FALSE}
    BY FS_Singleton
  <2> QED
    BY <2>1, FS_AddElement
<1>3. IsFiniteSet(P)
  BY <1>1, <1>2, FS_Product
<1>4. f \in Injection(Theatres!ClockTimes, P)
  <2>1. \A c \in Theatres!ClockTimes : c.hour \in 1 .. 12 /\ c.pm \in BOOLEAN
    BY DEF Theatres!ClockTimes
  <2>2. \A c, d \in Theatres!ClockTimes : c.hour = d.hour /\ c.pm = d.pm => c = d
    BY DEF Theatres!ClockTimes
  <2>3. f \in [Theatres!ClockTimes -> P] /\ \A c \in Theatres!ClockTimes : f[c] = <<c.hour, c.pm>>
    BY <2>1
  <2> HIDE DEF f, P
  <2> QED
    BY <2>2, <2>3 DEF Injection, IsInjective
<1> HIDE DEF f, P
<1> QED
  BY <1>3, <1>4, FS_Injection

\* A version and a time.
Show == Versions \X Theatres!ClockTimes

LEMMA SubsetFinite ==
    ASSUME CinemasAssumed, NEW S \in SUBSET Show
    PROVE  IsFiniteSet(S)
<1>1. IsFiniteSet(Show)
  <2>1. IsFiniteSet(Versions) /\ IsFiniteSet(Theatres!ClockTimes)
    BY ClockFinite, TheatresFinite DEF CinemasAssumed, Theatres!PartsAssumption
  <2> QED
    BY <2>1, FS_Product DEF Show
<1> QED
  BY <1>1, FS_Subset

LEMMA SelectedAre ==
    ASSUME NEW D \in Seq(Entry)
    PROVE  /\ Theatres!SelectedTheatre(D) \subseteq Theatres!ToSet(D) /\ Theatres!SelectedTheatre(D) \subseteq Entry
           /\ theatreId # Nothing => Theatres!SelectedTheatre(D) = {e \in Theatres!ToSet(D) : e.id = theatreId}
           /\ theatreId = Nothing /\ D = <<>> => Theatres!SelectedTheatre(D) = {}
           /\ theatreId = Nothing /\ D # <<>> => Theatres!SelectedTheatre(D) = {D[1]}
<1>1. Theatres!ToSet(D) \subseteq Entry
  BY ToSetIs
<1>2. D # <<>> => D[1] \in Theatres!ToSet(D)
  <2>1. D # <<>> => 1 \in 1 .. Len(D)
    OBVIOUS
  <2> QED
    BY <2>1, ToSetIs
<1> QED
  BY <1>1, <1>2 DEF Theatres!SelectedTheatre

LEMMA ShowtimesAre ==
    ASSUME CinemasAssumed, GivenType, NEW D \in Seq(Entry)
    PROVE  /\ Theatres!Showtimes(D) \subseteq Show /\ IsFiniteSet(Theatres!Showtimes(D))
           /\ \A x : x \in Theatres!Showtimes(D) <=>
                \E e \in Theatres!SelectedTheatre(D) : \E v \in Theatres!SelectedMovie(e) : \E m \in schedule[e.id][v] : x = <<v, m>>
<1>1. \A e \in Theatres!SelectedTheatre(D) : Theatres!SelectedMovie(e) \subseteq Versions /\ e.id \in Cinemas
  BY SelectedAre DEF Theatres!SelectedMovie, Entry
<1>2. ASSUME NEW x, x \in Theatres!Showtimes(D)
      PROVE  \E e \in Theatres!SelectedTheatre(D) : \E v \in Theatres!SelectedMovie(e) : \E m \in schedule[e.id][v] : x = <<v, m>>
  <2>1. PICK c \in {d \in Theatres!SelectedTheatre(D) \X Versions : d[2] \in Theatres!SelectedMovie(d[1])} :
            x \in {c[2]} \X schedule[c[1].id][c[2]]
    BY <1>2 DEF Theatres!Showtimes
  <2>2. c[1] \in Theatres!SelectedTheatre(D) /\ c[2] \in Theatres!SelectedMovie(c[1])
    BY <2>1
  <2> QED
    BY <2>1, <2>2
<1>3. ASSUME NEW e \in Theatres!SelectedTheatre(D), NEW v \in Theatres!SelectedMovie(e), NEW m \in schedule[e.id][v]
      PROVE  <<v, m>> \in Theatres!Showtimes(D)
  <2>1. <<e, v>> \in {d \in Theatres!SelectedTheatre(D) \X Versions : d[2] \in Theatres!SelectedMovie(d[1])}
    BY <1>1
  <2>2. <<v, m>> \in {<<e, v>>[2]} \X schedule[<<e, v>>[1].id][<<e, v>>[2]]
    OBVIOUS
  <2> QED
    BY <2>1, <2>2 DEF Theatres!Showtimes
<1>4. Theatres!Showtimes(D) \subseteq Show
  <2> SUFFICES ASSUME NEW x \in Theatres!Showtimes(D) PROVE x \in Show
    OBVIOUS
  <2>1. PICK e \in Theatres!SelectedTheatre(D) : \E v \in Theatres!SelectedMovie(e) : \E m \in schedule[e.id][v] : x = <<v, m>>
    BY <1>2
  <2> QED
    BY <1>1, <2>1, ShowsAre DEF Show
<1> QED
  BY <1>2, <1>3, <1>4, SubsetFinite

LEMMA ToldAre ==
    ASSUME CinemasAssumed, GivenType, NEW t \in Cinemas, NEW G
    PROVE  \A x : x \in Theatres!Told(t, G) <=>
                \E v \in Theatres!Shows(t) : \E m \in schedule[t][v] :
                    /\ x = <<v, m>>
                    /\ v \in G \/ (broad /\ G \intersect Theatres!Shows(t) # {})
                    /\ v \in TmsIds \/ ~byMovie
<1> DEFINE W == {w \in Theatres!Shows(t) : /\ w \in G \/ (broad /\ G \intersect Theatres!Shows(t) # {})
                                           /\ w \in TmsIds \/ ~byMovie}
<1>1. Theatres!Told(t, G) = UNION {{v} \X schedule[t][v] : v \in W}
  BY DEF Theatres!Told
<1>2. \A v : v \in W <=> /\ v \in Theatres!Shows(t)
                         /\ v \in G \/ (broad /\ G \intersect Theatres!Shows(t) # {})
                         /\ v \in TmsIds \/ ~byMovie
  BY DEF W
<1> HIDE DEF W
<1>3. \A x : x \in Theatres!Told(t, G) <=> \E v \in W : x \in {v} \X schedule[t][v]
  BY <1>1
<1>4. \A x, v : x \in {v} \X schedule[t][v] <=> \E m \in schedule[t][v] : x = <<v, m>>
  OBVIOUS
<1> QED
  BY <1>2, <1>3, <1>4

\* What an entry has of the movie's versions.
LEMMA EntryShows ==
    ASSUME CinemasAssumed, GivenType, NEW p \in TmsIds, NEW t \in Cinemas, p \in Theatres!Shows(t)
    PROVE  /\ EntryOf(p, t).id = t
           /\ \A v : v \in Theatres!SelectedMovie(EntryOf(p, t)) <=>
                        /\ v \in Theatres!Shows(t)
                        /\ v = p \/ broad
                        /\ v \in TmsIds \/ ~byMovie
  BY DEF EntryOf, Theatres!SelectedMovie

\* Of a theatre that was asked for, the list has all that the replies told.
LEMMA AskedWhole ==
    ASSUME CinemasAssumed, GivenType, NEW G \in SUBSET TmsIds, NEW D, DataOf(D, G), theatreId \in Cinemas
    PROVE  Theatres!Showtimes(D) = Theatres!Told(theatreId, G)
<1> DEFINE t == theatreId
<1>1. D \in Seq(Entry) /\ \A e : e \in Theatres!ToSet(D) <=> \E p \in G : e \in Entries(p)
  BY DEF DataOf
<1>2. theatreId # Nothing
  BY DEF CinemasAssumed, Theatres!TheatresAssumption
<1>3. \A e : e \in Theatres!SelectedTheatre(D) <=> e \in Theatres!ToSet(D) /\ e.id = theatreId
  BY <1>1, <1>2, SelectedAre
<1>4. \A e : e \in Theatres!SelectedTheatre(D) <=> \E p \in G : p \in Theatres!Shows(t) /\ e = EntryOf(p, t)
  <2>1. \A p \in G : \A e : e \in Entries(p) <=> \E u \in Cinemas : p \in Theatres!Shows(u) /\ e = EntryOf(p, u)
    BY EntriesAre
  <2>2. \A p, u : EntryOf(p, u).id = u
    BY DEF EntryOf
  <2> QED
    BY <1>1, <1>3, <2>1, <2>2
<1>5. \A x : x \in Theatres!Showtimes(D) <=>
           \E e \in Theatres!SelectedTheatre(D) : \E v \in Theatres!SelectedMovie(e) : \E m \in schedule[e.id][v] : x = <<v, m>>
  BY <1>1, ShowtimesAre
<1>6. \A x : x \in Theatres!Told(t, G) <=>
                \E v \in Theatres!Shows(t) : \E m \in schedule[t][v] :
                    /\ x = <<v, m>>
                    /\ v \in G \/ (broad /\ G \intersect Theatres!Shows(t) # {})
                    /\ v \in TmsIds \/ ~byMovie
  BY ToldAre
<1>7. \A p \in G : p \in Theatres!Shows(t) =>
        /\ EntryOf(p, t).id = t
        /\ \A v : v \in Theatres!SelectedMovie(EntryOf(p, t)) <=>
                        /\ v \in Theatres!Shows(t)
                        /\ v = p \/ broad
                        /\ v \in TmsIds \/ ~byMovie
  BY EntryShows
<1>8. ASSUME NEW x \in Theatres!Showtimes(D) PROVE x \in Theatres!Told(t, G)
  <2>4. PICK e \in Theatres!SelectedTheatre(D) : \E v \in Theatres!SelectedMovie(e) : \E m \in schedule[e.id][v] : x = <<v, m>>
    BY <1>5
  <2>5. PICK p \in G : p \in Theatres!Shows(t) /\ e = EntryOf(p, t)
    BY <1>4
  <2>1. PICK v \in Theatres!SelectedMovie(EntryOf(p, t)) : \E m \in schedule[t][v] : x = <<v, m>>
    BY <1>7, <2>4, <2>5
  <2>2. /\ v \in Theatres!Shows(t)
        /\ v = p \/ broad
        /\ v \in TmsIds \/ ~byMovie
    BY <1>7, <2>1, <2>5
  <2>3. v \in G \/ (broad /\ G \intersect Theatres!Shows(t) # {})
    BY <2>2, <2>5
  <2> QED
    BY <1>6, <2>1, <2>2, <2>3
<1>9. ASSUME NEW x \in Theatres!Told(t, G) PROVE x \in Theatres!Showtimes(D)
  <2>1. PICK v \in Theatres!Shows(t) : /\ \E m \in schedule[t][v] : x = <<v, m>>
                                       /\ v \in G \/ (broad /\ G \intersect Theatres!Shows(t) # {})
                                       /\ v \in TmsIds \/ ~byMovie
    BY <1>6
  <2>2. PICK p \in G : p \in Theatres!Shows(t) /\ (v = p \/ broad)
    BY <2>1
  <2>3. v \in Theatres!SelectedMovie(EntryOf(p, t)) /\ EntryOf(p, t) \in Theatres!SelectedTheatre(D) /\ EntryOf(p, t).id = t
    BY <1>4, <1>7, <2>1, <2>2
  <2> QED
    BY <1>5, <2>1, <2>3
<1> QED
  BY <1>8, <1>9

Near(G) == {t \in Cinemas : G \intersect Theatres!Shows(t) # {}}
NearestOf(G, S) ==
    IF Near(G) = {} THEN S = {}
    ELSE \E t \in Near(G), p \in G :
            /\ \A u \in Near(G) : Distance[t] <= Distance[u]
            /\ p \in Theatres!Shows(t) /\ S = Theatres!Told(t, {p})

\* Of no theatre in particular, it has what one reply told of the nearest.
LEMMA NearestTold ==
    ASSUME CinemasAssumed, GivenType, NEW G \in SUBSET TmsIds, NEW D, DataOf(D, G), theatreId = Nothing
    PROVE  NearestOf(G, Theatres!Showtimes(D))
<1>1. D \in Seq(Entry) /\ \A e : e \in Theatres!ToSet(D) <=> \E p \in G : e \in Entries(p)
  BY DEF DataOf
<1>2. \A p \in G : \A e : e \in Entries(p) <=> \E u \in Cinemas : p \in Theatres!Shows(u) /\ e = EntryOf(p, u)
  BY EntriesAre
<1>3. \A p, u : EntryOf(p, u).id = u
  BY DEF EntryOf
<1>4. \A x : x \in Theatres!Showtimes(D) <=>
           \E e \in Theatres!SelectedTheatre(D) : \E v \in Theatres!SelectedMovie(e) : \E m \in schedule[e.id][v] : x = <<v, m>>
  BY <1>1, ShowtimesAre
<1>5. \A x : x \in Theatres!ToSet(D) <=> \E i \in 1 .. Len(D) : D[i] = x
  BY <1>1, ToSetIs
<1>6. CASE D = <<>>
  <2>1. Theatres!SelectedTheatre(D) = {}
    BY <1>1, <1>6, SelectedAre
  <2>2. Theatres!ToSet(D) = {}
    BY <1>5, <1>6
  <2>3. Near(G) = {}
    <3>1. ASSUME NEW u \in Cinemas, NEW p \in G, p \in Theatres!Shows(u) PROVE FALSE
      BY <1>1, <1>2, <2>2, <3>1
    <3> QED
      BY <3>1 DEF Near
  <2> QED
    BY <1>4, <2>1, <2>3 DEF NearestOf
<1>7. CASE D # <<>>
  <2>1. Theatres!SelectedTheatre(D) = {D[1]} /\ 1 \in 1 .. Len(D) /\ D[1] \in Theatres!ToSet(D)
    BY <1>1, <1>5, <1>7, SelectedAre
  <2>2. PICK p \in G, t \in Cinemas : p \in Theatres!Shows(t) /\ D[1] = EntryOf(p, t)
    BY <1>1, <1>2, <2>1
  <2>3. t \in Near(G)
    BY <2>2 DEF Near
  <2>4. ASSUME NEW u \in Near(G) PROVE Distance[t] <= Distance[u]
    <3>1. PICK q \in G : q \in Theatres!Shows(u) /\ u \in Cinemas
      BY DEF Near
    <3>2. EntryOf(q, u) \in Theatres!ToSet(D)
      BY <1>1, <1>2, <3>1
    <3>3. PICK i \in 1 .. Len(D) : D[i] = EntryOf(q, u)
      BY <1>5, <3>2
    <3>4. Distance[t] \in Nat /\ Distance[u] \in Nat
      BY <3>1 DEF CinemasAssumed, Theatres!TheatresAssumption
    <3>5. D[1].id = t /\ D[i].id = u
      BY <1>3, <2>2, <3>3
    <3>6. CASE i = 1
      BY <3>4, <3>5, <3>6
    <3>7. CASE i # 1
      <4>1. 1 < i
        BY <3>7, <1>1
      <4> QED
        BY <2>1, <3>5, <4>1 DEF DataOf, NearFirst
    <3> QED
      BY <3>6, <3>7
  <2>5. /\ EntryOf(p, t).id = t
        /\ \A v : v \in Theatres!SelectedMovie(EntryOf(p, t)) <=>
                        /\ v \in Theatres!Shows(t)
                        /\ v = p \/ broad
                        /\ v \in TmsIds \/ ~byMovie
    BY <2>2, EntryShows
  <2>6. \A x : x \in Theatres!Told(t, {p}) <=>
                \E v \in Theatres!Shows(t) : \E m \in schedule[t][v] :
                    /\ x = <<v, m>>
                    /\ v \in {p} \/ (broad /\ {p} \intersect Theatres!Shows(t) # {})
                    /\ v \in TmsIds \/ ~byMovie
    BY ToldAre
  <2>7. {p} \intersect Theatres!Shows(t) # {} /\ \A v : v \in {p} <=> v = p
    BY <2>2
  <2>8. \A x : x \in Theatres!Showtimes(D) <=>
            \E v \in Theatres!SelectedMovie(EntryOf(p, t)) : \E m \in schedule[t][v] : x = <<v, m>>
    BY <1>4, <2>1, <2>2, <2>5
  <2>9. Theatres!Showtimes(D) = Theatres!Told(t, {p})
    BY <2>5, <2>6, <2>7, <2>8
  <2> QED
    BY <2>2, <2>3, <2>4, <2>9 DEF NearestOf
<1> QED
  BY <1>6, <1>7

\* nearbyTheatres at its i-th theatre, and after k of them.
Adds(D, id, r, i)   == IF D[i].id # id /\ ~Theatres!Contains(r, D[i].id) THEN Append(r, D[i].id) ELSE r
Lists(k, D, id, f)  == f = [i \in 0 .. k |-> IF i = 0 THEN <<>> ELSE Adds(D, id, f[i - 1], i)]
Listed(D, id)       == CHOOSE f : Lists(Len(D), D, id, f)
Kept(D, id, r, k) ==
    /\ r \in Seq(Cinemas) /\ Distinct(r)
    /\ \A x : x \in Theatres!ToSet(r) <=> \E j \in 1 .. k : x = D[j].id /\ x # id
    /\ \A i, j \in 1 .. Len(r) : i < j => Distance[r[i]] <= Distance[r[j]]

LEMMA ListedGoes ==
    ASSUME NEW D \in Seq(Entry), NEW id
    PROVE  /\ Theatres!Nearby(D, id) = Listed(D, id)[Len(D)]
           /\ Listed(D, id)[0] = <<>>
           /\ \A i \in 1 .. Len(D) : Listed(D, id)[i] = Adds(D, id, Listed(D, id)[i - 1], i)
<1> DEFINE n == Len(D)
           Bad == {k \in 0 .. n : ~ \E f : Lists(k, D, id, f)}
<1>1. ASSUME NEW k \in Bad, \A j \in Bad : k <= j PROVE FALSE
  <2>1. CASE k = 0
    <3>1. Lists(0, D, id, [i \in 0 .. 0 |-> <<>>])
      BY DEF Lists
    <3> QED
      BY <2>1, <3>1, <1>1
  <2>2. CASE k > 0
    <3>1. k - 1 \in 0 .. n /\ k - 1 \notin Bad
      BY <1>1, <2>2
    <3>2. PICK f : Lists(k - 1, D, id, f)
      BY <3>1
    <3> DEFINE g == [i \in 0 .. k |-> IF i < k THEN f[i] ELSE Adds(D, id, f[k - 1], k)]
    <3>3. \A i \in 0 .. (k - 1) : f[i] = IF i = 0 THEN <<>> ELSE Adds(D, id, f[i - 1], i)
      BY <3>2 DEF Lists
    <3>4. \A i \in 0 .. k : g[i] = IF i = 0 THEN <<>> ELSE Adds(D, id, g[i - 1], i)
      <4>1. k \in Nat /\ k >= 1
        BY <1>1, <2>2
      <4>2. g[k - 1] = f[k - 1]
        BY <4>1
      <4>3. g[k] = Adds(D, id, g[k - 1], k)
        BY <4>1, <4>2
      <4>4. ASSUME NEW i \in 0 .. (k - 1) PROVE g[i] = f[i] /\ (i # 0 => g[i - 1] = f[i - 1])
        BY <4>1
      <4> HIDE DEF g
      <4>5. ASSUME NEW i \in 0 .. (k - 1) PROVE g[i] = IF i = 0 THEN <<>> ELSE Adds(D, id, g[i - 1], i)
        BY <3>3, <4>4
      <4> QED
        BY <4>1, <4>3, <4>5
    <3>5. g = [i \in 0 .. k |-> g[i]]
      OBVIOUS
    <3>6. Lists(k, D, id, g)
      <4> HIDE DEF g
      <4> QED
        BY <3>4, <3>5 DEF Lists
    <3> QED
      BY <1>1, <3>6
  <2> QED
    BY <2>1, <2>2, <1>1
<1>2. Bad = {}
  <2>1. Bad \in SUBSET Nat
    OBVIOUS
  <2> HIDE DEF Bad
  <2> QED
    BY <1>1, <2>1, Least
<1>3. Lists(n, D, id, Listed(D, id))
  <2>3. n \in 0 .. n
    OBVIOUS
  <2>1. n \in 0 .. n /\ n \notin Bad
    <3> HIDE DEF Bad
    <3> QED
      BY <1>2, <2>3
  <2>2. \E f : Lists(n, D, id, f)
    BY <2>1
  <2> QED
    BY <2>2 DEF Listed
<1>4. Theatres!Nearby(D, id) = Listed(D, id)[n]
  BY DEF Theatres!Nearby, Listed, Lists, Adds
<1> DEFINE o == Listed(D, id)
<1>5. \A i \in 0 .. n : o[i] = IF i = 0 THEN <<>> ELSE Adds(D, id, o[i - 1], i)
  <2> HIDE DEF o
  <2>1. Lists(n, D, id, o)
    BY <1>3 DEF o
  <2> QED
    BY <2>1 DEF Lists
<1> QED
  BY <1>4, <1>5

LEMMA AddsKeep ==
    ASSUME CinemasAssumed, NEW D \in Seq(Entry), NearFirst(D), NEW id, NEW i \in 1 .. Len(D),
           NEW r, Kept(D, id, r, i - 1)
    PROVE  Kept(D, id, Adds(D, id, r, i), i)
<1> DEFINE d == D[i].id
<1>1. /\ r \in Seq(Cinemas) /\ Distinct(r)
      /\ \A x : x \in Theatres!ToSet(r) <=> \E j \in 1 .. i - 1 : x = D[j].id /\ x # id
      /\ \A a, b \in 1 .. Len(r) : a < b => Distance[r[a]] <= Distance[r[b]]
  BY DEF Kept
<1>2. d \in Cinemas
  <2>1. D[i] \in Entry
    OBVIOUS
  <2> QED
    BY <2>1 DEF Entry
<1>3. \A u \in Seq(Cinemas) : \A x : x \in Theatres!ToSet(u) <=> \E j \in 1 .. Len(u) : u[j] = x
  BY ToSetIs
<1>4. Theatres!Contains(r, d) <=> d \in Theatres!ToSet(r)
  BY <1>1, <1>3 DEF Theatres!Contains
<1>5. CASE d # id /\ ~Theatres!Contains(r, d)
  <2> DEFINE s == Append(r, d)
             n == Len(r)
  <2>1. Adds(D, id, r, i) = s
    BY <1>5 DEF Adds
  <2>2. /\ s \in Seq(Cinemas) /\ Len(s) = n + 1 /\ n \in Nat
        /\ s[n + 1] = d /\ \A j \in 1 .. n : s[j] = r[j]
    BY <1>1, <1>2
  <2> HIDE DEF s, d
  <2>3. \A j \in 1 .. n : r[j] # d
    BY <1>5 DEF Theatres!Contains
  <2>4. Distinct(s)
    BY <1>1, <2>2, <2>3 DEF Distinct
  <2>5. \A x : x \in Theatres!ToSet(s) <=> x \in Theatres!ToSet(r) \/ x = d
    <3>1. \A x : x \in Theatres!ToSet(s) <=> \E j \in 1 .. n + 1 : s[j] = x
      BY <1>3, <2>2
    <3>2. \A x : x \in Theatres!ToSet(r) <=> \E j \in 1 .. n : r[j] = x
      BY <1>1, <1>3
    <3>3. \A j \in 1 .. n + 1 : j = n + 1 \/ j \in 1 .. n
      BY <2>2
    <3>4. n + 1 \in 1 .. n + 1 /\ \A j \in 1 .. n : j \in 1 .. n + 1
      BY <2>2
    <3> QED
      BY <2>2, <3>1, <3>2, <3>3, <3>4
  <2>6. \A x : x \in Theatres!ToSet(s) <=> \E j \in 1 .. i : x = D[j].id /\ x # id
    <3>1. \A j \in 1 .. i : j = i \/ j \in 1 .. i - 1
      OBVIOUS
    <3>2. i \in 1 .. i /\ \A j \in 1 .. i - 1 : j \in 1 .. i
      OBVIOUS
    <3> QED
      BY <1>1, <1>5, <2>5, <3>1, <3>2 DEF d
  <2>7. ASSUME NEW j \in 1 .. n PROVE Distance[r[j]] <= Distance[d]
    <3>1. r[j] \in Theatres!ToSet(r)
      BY <1>1, <1>3
    <3>2. PICK k \in 1 .. i - 1 : r[j] = D[k].id
      BY <1>1, <3>1
    <3>3. k \in 1 .. Len(D) /\ k < i
      OBVIOUS
    <3> QED
      BY <3>2, <3>3 DEF NearFirst, d
  <2>8. \A a, b \in 1 .. Len(s) : a < b => Distance[s[a]] <= Distance[s[b]]
    <3> SUFFICES ASSUME NEW a \in 1 .. n + 1, NEW b \in 1 .. n + 1, a < b
                 PROVE  Distance[s[a]] <= Distance[s[b]]
      BY <2>2
    <3>1. a \in 1 .. n /\ s[a] = r[a]
      BY <2>2
    <3>2. CASE b = n + 1
      BY <2>2, <2>7, <3>1, <3>2
    <3>3. CASE b # n + 1
      <4>1. b \in 1 .. n /\ s[b] = r[b]
        BY <2>2, <3>3
      <4> QED
        BY <1>1, <3>1, <4>1
    <3> QED
      BY <3>2, <3>3
  <2> QED
    BY <2>1, <2>2, <2>4, <2>6, <2>8 DEF Kept
<1>6. CASE ~(d # id /\ ~Theatres!Contains(r, d))
  <2>1. Adds(D, id, r, i) = r
    BY <1>6 DEF Adds
  <2>2. \A x : (\E j \in 1 .. i : x = D[j].id /\ x # id) <=> (\E j \in 1 .. i - 1 : x = D[j].id /\ x # id)
    <3>1. \A j \in 1 .. i : j = i \/ j \in 1 .. i - 1
      OBVIOUS
    <3>2. \A j \in 1 .. i - 1 : j \in 1 .. i
      OBVIOUS
    <3>3. d = id \/ \E j \in 1 .. i - 1 : d = D[j].id /\ d # id
      BY <1>1, <1>4, <1>6
    <3> QED
      BY <3>1, <3>2, <3>3
  <2> QED
    BY <1>1, <2>1, <2>2 DEF Kept
<1> QED
  BY <1>5, <1>6

LEMMA NearbyIs ==
    ASSUME CinemasAssumed, NEW D \in Seq(Entry), NearFirst(D), NEW id
    PROVE  Kept(D, id, Theatres!Nearby(D, id), Len(D))
<1> DEFINE n == Len(D)
           o == Listed(D, id)
           Bad == {k \in 0 .. n : ~Kept(D, id, o[k], k)}
<1>1. n \in Nat /\ o[0] = <<>> /\ \A i \in 1 .. n : o[i] = Adds(D, id, o[i - 1], i)
  BY ListedGoes
<1>2. ASSUME NEW k \in Bad, \A j \in Bad : k <= j PROVE FALSE
  <2>1. CASE k = 0
    <3>1. <<>> \in Seq(Cinemas) /\ Len(<<>>) = 0
      OBVIOUS
    <3>2. \A x : ~(x \in Theatres!ToSet(<<>>))
      BY <3>1 DEF Theatres!ToSet
    <3>3. Kept(D, id, <<>>, 0)
      BY <3>1, <3>2 DEF Kept, Distinct
    <3> QED
      BY <1>1, <1>2, <2>1, <3>3
  <2>2. CASE k # 0
    <3>1. k \in 1 .. n /\ k - 1 \in 0 .. n /\ ~(k <= k - 1)
      BY <1>1, <1>2, <2>2
    <3> HIDE DEF o
    <3>2. Kept(D, id, o[k - 1], k - 1)
      BY <1>2, <3>1
    <3>3. Kept(D, id, Adds(D, id, o[k - 1], k), k)
      BY <3>1, <3>2, AddsKeep
    <3> QED
      BY <1>1, <1>2, <3>1, <3>3
  <2> QED
    BY <2>1, <2>2
<1>3. Bad = {}
  <2>1. Bad \in SUBSET Nat
    BY <1>1
  <2> HIDE DEF Bad
  <2> QED
    BY <1>2, <2>1, Least
<1>4. Kept(D, id, o[n], n)
  <2>1. n \in 0 .. n
    BY <1>1
  <2> QED
    BY <1>3, <2>1
<1> QED
  BY <1>4, ListedGoes

\* From one o'clock in the morning the list is in the order of the day.
DayOrder(s) ==
    \A i, j \in 1 .. Len(s) :
        i < j /\ ~Theatres!Midnight(s[i]) /\ ~Theatres!Midnight(s[j]) => Theatres!TimeOfDay(s[i]) <= Theatres!TimeOfDay(s[j])

LEMMA ByTimeIs ==
    \A c \in Show : Theatres!ByTime(c) \in Nat /\ (~Theatres!Midnight(c) => Theatres!ByTime(c) = Theatres!TimeOfDay(c))
<1> SUFFICES ASSUME NEW c \in Show
             PROVE  Theatres!ByTime(c) \in Nat /\ (~Theatres!Midnight(c) => Theatres!ByTime(c) = Theatres!TimeOfDay(c))
  OBVIOUS
<1> DEFINE h == c[2].hour
           pm == c[2].pm
<1>1. h \in 1 .. 12 /\ pm \in BOOLEAN
  BY DEF Show, Theatres!ClockTimes
<1>2. /\ Theatres!ByTime(c) = IF pm /\ h # 12 THEN h + 12 ELSE h
      /\ Theatres!Midnight(c) <=> h = 12 /\ ~pm
      /\ Theatres!TimeOfDay(c) = (h % 12) + (IF pm THEN 12 ELSE 0)
  BY DEF Theatres!ByTime, Theatres!Midnight, Theatres!TimeOfDay
<1> HIDE DEF h, pm
<1>3. h # 12 => h % 12 = h
  BY <1>1
<1>4. 12 % 12 = 0
  OBVIOUS
<1>5. CASE h = 12
  BY <1>1, <1>2, <1>4, <1>5
<1>6. CASE h # 12
  BY <1>1, <1>2, <1>3, <1>6
<1> QED
  BY <1>5, <1>6

LEMMA TimesAre ==
    ASSUME CinemasAssumed, NEW S \in SUBSET Show, NEW t \in Theatres!Sortings(Theatres!SetToSeq(S), Theatres!ByTime)
    PROVE  t \in Seq(Show) /\ Theatres!ToSet(t) = S /\ Len(t) = Cardinality(Theatres!ToSet(t)) /\ DayOrder(t)
<1> DEFINE s == Theatres!SetToSeq(S)
           n == Len(t)
           k == [i \in 1 .. n |-> Theatres!ByTime(t[i])]
<1>0. IsFiniteSet(S)
  BY SubsetFinite
<1>1. s \in Seq(S) /\ Distinct(s) /\ Theatres!ToSet(s) = S
  BY <1>0, SetToSeqIs
<1>2. /\ \E o \in Theatres!SetToSeqs(1 .. Len(s)) : t = [i \in 1 .. Len(s) |-> s[o[i]]]
      /\ \A i \in 1 .. n - 1 : Theatres!ByTime(t[i]) <= Theatres!ByTime(t[i + 1])
  BY DEF Theatres!Sortings, Theatres!Sorted
<1>3. t \in Seq(S) /\ Theatres!ToSet(t) = S /\ Distinct(t)
  <2> HIDE DEF s
  <2> QED
    BY <1>1, <1>2, Reordered
<1>4. Len(t) = Cardinality(Theatres!ToSet(t))
  BY <1>3, DistinctCount
<1>5. n \in Nat /\ \A i \in 1 .. n : t[i] \in Show
  BY <1>3
<1>6. k \in [1 .. n -> Nat] /\ \A i \in 1 .. n : k[i] = Theatres!ByTime(t[i])
  BY <1>5, ByTimeIs
<1>7. \A i \in 1 .. n - 1 : k[i] <= k[i + 1]
  <2>1. \A i \in 1 .. n - 1 : i \in 1 .. n /\ i + 1 \in 1 .. n
    BY <1>5
  <2> QED
    BY <2>1, <1>2
<1> HIDE DEF k
<1>8. \A i, j \in 1 .. n : i < j => k[i] <= k[j]
  <2> HIDE DEF n
  <2> QED
    BY <1>5, <1>6, <1>7, Ascending
<1>9. DayOrder(t)
  BY <1>5, <1>6, <1>8, ByTimeIs DEF DayOrder
<1>10. t \in Seq(Show)
  BY <1>3
<1> QED
  BY <1>3, <1>4, <1>9, <1>10

\* The page is made of the data that the good replies made.
LEMMA FinishedRight ==
    ASSUME CinemasAssumed, GivenType, UNCHANGED Theatres!given, NEW G \in SUBSET TmsIds, NEW D, DataOf(D, G),
           theatreId \in Cinemas \union {Nothing}, Theatres!LoadFinished(D), theatreData' = D, got' = G
    PROVE  Theatres!TimesRight' /\ theatreId' \in Cinemas \union {Nothing}
<1> DEFINE id == IF theatreId # Nothing THEN theatreId ELSE IF D = <<>> THEN Nothing ELSE D[1].id
<1>1. /\ times' \in Theatres!Sortings(Theatres!SetToSeq(Theatres!Showtimes(D)), Theatres!ByTime)
      /\ made' = [selected |-> {e.id : e \in {x \in Theatres!ToSet(D) : x.id = id}},
                  nearby   |-> Theatres!Nearby(D, id),
                  asked    |-> theatreId]
      /\ theatreId' = id
  BY DEF Theatres!LoadFinished
<1>2. D \in Seq(Entry) /\ NearFirst(D) /\ Theatres!ToSet(D) \subseteq Entry
  BY ToSetIs DEF DataOf
<1>3. Theatres!Showtimes(D) \in SUBSET Show
  BY <1>2, ShowtimesAre
<1>4. /\ Theatres!ToSet(times') = Theatres!Showtimes(D)
      /\ Len(times') = Cardinality(Theatres!ToSet(times')) /\ DayOrder(times')
  BY <1>1, <1>3, TimesAre
<1>5. id \in Cinemas \union {Nothing}
  <2>1. D # <<>> => D[1] \in Entry
    BY <1>2
  <2> QED
    BY <2>1 DEF Entry
<1> HIDE DEF id
<1>6. /\ made'.selected = {e.id : e \in {x \in Theatres!ToSet(D) : x.id = id}}
      /\ made'.nearby = Theatres!Nearby(D, id) /\ made'.asked = theatreId
  BY <1>1
<1>7. Theatres!TimesWhole'
  <2>1. schedule' = schedule /\ broad' = broad /\ byMovie' = byMovie
    BY DEF Theatres!given
  <2>2. \A t : Theatres!Shows(t)' = Theatres!Shows(t)
    BY <2>1 DEF Theatres!Shows
  <2>3. CASE theatreId # Nothing
    <3>1. theatreId \in Cinemas
      BY <2>3
    <3>2. Theatres!Showtimes(D) = Theatres!Told(theatreId, G)
      BY <3>1, AskedWhole
    <3>3. (Theatres!Told(made.asked, got))' = Theatres!Told(theatreId, G)
      BY <1>6, <2>1, <2>2 DEF Theatres!Told
    <3> QED
      BY <1>4, <1>6, <2>3, <3>2, <3>3, TheatresCount DEF Theatres!TimesWhole
  <2>4. CASE theatreId = Nothing
    <3>1. NearestOf(G, Theatres!Showtimes(D))
      BY <2>4, NearestTold
    <3>2. {t \in Cinemas : got' \intersect Theatres!Shows(t)' # {}} = Near(G)
      BY <2>2 DEF Near
    <3>3. \A t, p : Theatres!Told(t, {p})' = Theatres!Told(t, {p})
      BY <2>1, <2>2 DEF Theatres!Told
    <3>4. Theatres!ToSet(times') = {} => times' = <<>>
      <4>1. times' \in Seq(Show)
        BY <1>1, <1>3, TimesAre
      <4>2. times' # <<>> => 1 \in 1 .. Len(times')
        BY <4>1
      <4> QED
        BY <4>1, <4>2, ToSetIs
    <3> QED
      BY <1>4, <1>6, <2>2, <2>4, <3>1, <3>2, <3>3, <3>4, TheatresCount DEF Theatres!TimesWhole, NearestOf
  <2> QED
    BY <2>3, <2>4
<1>8. Theatres!TimesInOrder'
  BY <1>4 DEF Theatres!TimesInOrder, DayOrder
<1>9. Theatres!TheatresOnce'
  <2>1. Kept(D, id, Theatres!Nearby(D, id), Len(D))
    BY <1>2, NearbyIs
  <2> DEFINE r == Theatres!Nearby(D, id)
  <2>2. /\ r \in Seq(Cinemas) /\ Distinct(r)
        /\ \A x : x \in Theatres!ToSet(r) <=> \E j \in 1 .. Len(D) : x = D[j].id /\ x # id
        /\ \A i, j \in 1 .. Len(r) : i < j => Distance[r[i]] <= Distance[r[j]]
    BY <2>1 DEF Kept
  <2> HIDE DEF r
  <2>3. Len(r) = Cardinality(Theatres!ToSet(r))
    BY <2>2, DistinctCount
  <2>4. \A i \in 1 .. Len(r) - 1 : Distance[r[i]] <= Distance[r[i + 1]]
    <3>1. \A i \in 1 .. Len(r) - 1 : i \in 1 .. Len(r) /\ i + 1 \in 1 .. Len(r) /\ i < i + 1
      BY <2>2
    <3> QED
      BY <2>2, <3>1
  <2>5. \A x : x \in Theatres!ToSet(D) <=> \E j \in 1 .. Len(D) : D[j] = x
    BY <1>2, ToSetIs
  <2>6. \A x : x \in Theatres!ToSet(r) <=> x # id /\ \E e \in Theatres!ToSet(D) : x = e.id
    BY <2>2, <2>5
  <2>7. made'.selected \union Theatres!ToSet(r) = {e.id : e \in Theatres!ToSet(D)}
    BY <1>6, <2>6
  <2>8. made'.selected \intersect Theatres!ToSet(r) = {}
    BY <1>6, <2>6
  <2>9. made'.nearby = r
    BY <1>6 DEF r
  <2> QED
    BY <2>3, <2>4, <2>7, <2>8, <2>9, TheatresCount DEF Theatres!TheatresOnce, Theatres!Sorted
<1> QED
  BY <1>1, <1>5, <1>7, <1>8, <1>9 DEF Theatres!TimesRight

TheatresInv ==
    /\ GivenType /\ theatreId \in Cinemas \union {Nothing}
    /\ left \in SUBSET TmsIds /\ got \in SUBSET TmsIds
    /\ DataOf(theatreData, got)
    /\ ~Theatres!Finished => times = <<>>
    /\ Theatres!TimesRight

LEMMA TheatresInit ==
    ASSUME CinemasAssumed, Theatres!Init
    PROVE  TheatresInv
<1>1. /\ GivenType /\ theatreId \in Cinemas \union {Nothing}
      /\ left = TmsIds /\ got = {} /\ theatreData = <<>> /\ times = <<>>
  BY DEF Theatres!Init, GivenType, CinemasAssumed, Theatres!SchedulesAssumption
<1>2. DataOf(theatreData, got)
  <2>1. theatreData \in Seq(Entry) /\ Len(theatreData) = 0
    BY <1>1
  <2>2. Theatres!ToSet(theatreData) = {}
    BY <1>1 DEF Theatres!ToSet
  <2> QED
    BY <1>1, <2>1, <2>2 DEF DataOf, NearFirst
<1>3. ~Theatres!Finished
  BY <1>1 DEF Theatres!Finished
<1>4. Theatres!TimesRight
  BY <1>1, <1>3 DEF Theatres!TimesRight, Theatres!TimesWhole, Theatres!TimesInOrder, Theatres!TheatresOnce
<1> QED
  BY <1>1, <1>2, <1>4 DEF TheatresInv

LEMMA SameGiven ==
    ASSUME UNCHANGED Theatres!given
    PROVE  /\ GivenType => GivenType'
           /\ \A D, G : DataOf(D, G) => DataOf(D, G)'
  BY DEF Theatres!given, GivenType, DataOf, Entries, EntryOf, Theatres!Shows

\* Before the last reply nothing is shown.
LEMMA NotFinished ==
    ASSUME ~Theatres!Finished', times' = <<>>
    PROVE  Theatres!TimesRight'
  BY DEF Theatres!TimesRight, Theatres!TimesWhole, Theatres!TimesInOrder, Theatres!TheatresOnce

LEMMA SuccessKeeps ==
    ASSUME CinemasAssumed, TheatresInv, NEW p \in TmsIds, Theatres!LoadSuccess(p)
    PROVE  TheatresInv'
<1>1. /\ GivenType /\ theatreId \in Cinemas \union {Nothing}
      /\ left \in SUBSET TmsIds /\ got \in SUBSET TmsIds
      /\ DataOf(theatreData, got) /\ times = <<>>
  BY DEF TheatresInv, Theatres!LoadSuccess, Theatres!Finished
<1>2. UNCHANGED Theatres!given /\ left' = left \ {p} /\ got' = got \union {p}
  BY DEF Theatres!LoadSuccess
<1> DEFINE D == theatreData'
<1>3. DataOf(D, got')
  <2>1. D \in Theatres!Sortings(theatreData \o Theatres!Listing(p), Theatres!ByDistance)
    BY DEF Theatres!LoadSuccess
  <2> HIDE DEF D
  <2> QED
    BY <1>1, <1>2, <2>1, DataGrows
<1>4. GivenType' /\ DataOf(theatreData, got)'
  BY <1>1, <1>2, <1>3, SameGiven
<1>5. left' \in SUBSET TmsIds /\ got' \in SUBSET TmsIds
  BY <1>1, <1>2
<1>6. CASE left' = {}
  <2>1. Theatres!LoadFinished(D)
    BY <1>6 DEF Theatres!LoadSuccess
  <2>2. Theatres!TimesRight' /\ theatreId' \in Cinemas \union {Nothing}
    BY <1>1, <1>2, <1>3, <1>5, <2>1, FinishedRight
  <2>3. Theatres!Finished'
    BY <1>2, <1>6 DEF Theatres!Finished
  <2> QED
    BY <1>4, <1>5, <2>2, <2>3 DEF TheatresInv
<1>7. CASE left' # {}
  <2>1. UNCHANGED <<theatreId, times, made>> /\ ~Theatres!Finished'
    BY <1>7 DEF Theatres!LoadSuccess, Theatres!Finished
  <2> QED
    BY <1>1, <1>4, <1>5, <2>1, NotFinished DEF TheatresInv
<1> QED
  BY <1>6, <1>7

LEMMA FailureKeeps ==
    ASSUME CinemasAssumed, TheatresInv, NEW p \in TmsIds, Theatres!LoadFailure(p)
    PROVE  TheatresInv'
<1>1. /\ GivenType /\ theatreId \in Cinemas \union {Nothing}
      /\ left \in SUBSET TmsIds /\ got \in SUBSET TmsIds
      /\ DataOf(theatreData, got) /\ times = <<>>
  BY DEF TheatresInv, Theatres!LoadFailure, Theatres!Finished
<1>2. UNCHANGED Theatres!given /\ left' = left \ {p} /\ got' = got /\ theatreData' = theatreData
  BY DEF Theatres!LoadFailure
<1>4. GivenType' /\ DataOf(theatreData, got)'
  BY <1>1, <1>2, SameGiven DEF DataOf
<1>5. left' \in SUBSET TmsIds /\ got' \in SUBSET TmsIds
  BY <1>1, <1>2
<1>6. CASE left' = {} /\ got # {}
  <2>1. Theatres!LoadFinished(theatreData)
    BY <1>6 DEF Theatres!LoadFailure
  <2>2. Theatres!TimesRight' /\ theatreId' \in Cinemas \union {Nothing}
    BY <1>1, <1>2, <2>1, FinishedRight
  <2>3. Theatres!Finished'
    BY <1>2, <1>6 DEF Theatres!Finished
  <2> QED
    BY <1>4, <1>5, <2>2, <2>3 DEF TheatresInv
<1>7. CASE ~(left' = {} /\ got # {})
  <2>1. UNCHANGED <<theatreId, times, made>> /\ ~Theatres!Finished'
    BY <1>2, <1>7 DEF Theatres!LoadFailure, Theatres!Finished
  <2> QED
    BY <1>1, <1>4, <1>5, <2>1, NotFinished DEF TheatresInv
<1> QED
  BY <1>6, <1>7

LEMMA TheatresNext ==
    ASSUME CinemasAssumed, TheatresInv, [Theatres!Next]_(Theatres!vars)
    PROVE  TheatresInv'
<1>1. CASE UNCHANGED Theatres!vars
  <2>1. UNCHANGED <<schedule, broad, byMovie, theatreId, left, got, theatreData, times, made>>
    BY <1>1 DEF Theatres!vars, Theatres!given
  <2>4. Theatres!TimesWhole /\ Theatres!TimesInOrder /\ Theatres!TheatresOnce
    BY DEF TheatresInv, Theatres!TimesRight
  <2>5. \A t, G : Theatres!Shows(t)' = Theatres!Shows(t) /\ Theatres!Told(t, G)' = Theatres!Told(t, G)
    BY <2>1 DEF Theatres!Told, Theatres!Shows
  <2>6. Theatres!TimesWhole'
    <3>1. {t \in Cinemas : got' \intersect Theatres!Shows(t)' # {}} = {t \in Cinemas : got \intersect Theatres!Shows(t) # {}}
      BY <2>1, <2>5
    <3>2. Theatres!Told(made.asked, got)' = Theatres!Told(made.asked, got)
      BY <2>1, <2>5 DEF Theatres!Told
    <3> QED
      BY <2>1, <2>4, <2>5, <3>1, <3>2 DEF Theatres!TimesWhole, Theatres!Finished
  <2>7. Theatres!TimesInOrder'
    BY <2>1, <2>4 DEF Theatres!TimesInOrder
  <2>8. Theatres!TheatresOnce'
    BY <2>1, <2>4 DEF Theatres!TheatresOnce, Theatres!Finished, Theatres!Sorted
  <2>2. Theatres!TimesRight'
    BY <2>6, <2>7, <2>8 DEF Theatres!TimesRight
  <2>3. GivenType' /\ DataOf(theatreData, got)'
    BY <2>1, SameGiven DEF TheatresInv, DataOf, Theatres!given
  <2> QED
    BY <2>1, <2>2, <2>3 DEF TheatresInv, Theatres!Finished
<1>2. CASE Theatres!Next
  BY <1>2, SuccessKeeps, FailureKeeps DEF Theatres!Next
<1> QED
  BY <1>1, <1>2

\* Whichever order the replies came in, the page of a theatre has all its times,
\* once and in the order of the day, and every theatre is on it once, for any
\* theatres, distances and schedules.
THEOREM TheatresTheorem ==
    ASSUME Theatres!TheatresAssumption, Theatres!PartsAssumption, Theatres!SchedulesAssumption
    PROVE  Theatres!Spec => []Theatres!TimesRight
<1>1. CinemasAssumed
  BY DEF CinemasAssumed
<1>2. Theatres!Init => TheatresInv
  BY <1>1, TheatresInit
<1>3. TheatresInv /\ [Theatres!Next]_(Theatres!vars) => TheatresInv'
  BY <1>1, TheatresNext
<1>4. TheatresInv => Theatres!TimesRight
  BY DEF TheatresInv
<1> QED
  BY <1>2, <1>3, <1>4, PTL DEF Theatres!Spec

-----------------------------------------------------------------------------
\* The pages together.

\* A behaviour of the pages is one of each part.
LEMMA PageSpecs == FairPages => Showtimes!Spec /\ Dates!Spec /\ Theatres!Spec /\ Templates!Spec
<1>1. InitPages => Showtimes!Init /\ Dates!Init /\ Theatres!Init /\ Templates!Init
  BY DEF InitPages
<1>2. [NextPages]_<<about, showtimesVars, datesVars, theatresVars, templatesVars>> =>
        [Showtimes!Next]_(Showtimes!vars) /\ [Dates!Next]_(Dates!vars)
  BY DEF NextPages, showtimesVars, datesVars, Showtimes!vars, Showtimes!control, Showtimes!net,
         Showtimes!counts, Showtimes!ui, Showtimes!history, Dates!vars
<1>3. [NextPages]_<<about, showtimesVars, datesVars, theatresVars, templatesVars>> =>
        [Theatres!Next]_(Theatres!vars) /\ [Templates!Next]_(Templates!vars)
  BY DEF NextPages, theatresVars, templatesVars, Theatres!vars, Theatres!given, Templates!vars
<1> QED
  BY <1>1, <1>2, <1>3, PTL
     DEF FairPages, Showtimes!Spec, Dates!Spec, Theatres!Spec, Templates!Spec

\* The bar of days and the spinner are right on every page, whichever is shown.
THEOREM PageTheorem ==
    FairPages => /\ []PageRight
                 /\ Showtimes!AloneIsWhole /\ Showtimes!LatestShown
<1>1. Dates!DatesRight /\ Showtimes!SpinnerHonest => PageRight
  BY DEF PageRight
<1> QED
  BY <1>1, PageSpecs, DatesTheorem, SpinnerTheorem, ShowtimesTheorem, PTL

\* What a page is made of the replies is all that they said, in its order, and what
\* a template's script writes is what the template says.
THEOREM RenderTheorem == FairPages => []RenderRight
<1>1. Theatres!Spec => []Theatres!TimesRight
  BY PagesAssumption, TheatresTheorem
<1>2. Templates!Spec => []Templates!RenderRight
  BY PagesAssumption, TemplatesTheorem
<1>3. Theatres!TimesRight /\ Templates!RenderRight => RenderRight
  BY DEF RenderRight
<1> QED
  BY <1>1, <1>2, <1>3, PageSpecs, PTL
=============================================================================
