----------------------------- MODULE AtvLoader ------------------------------
(***************************************************************************)
(* How the Apple TV's scripts load pages: ATVUtils.loadURL and             *)
(* loadAndSwapURL over makeRequest, the two "decorate" functions of        *)
(* Content/js/main.js and loadTrailerDetailPage of XmlDir/js/main.js.      *)
(* Each shows an atv.ProxyDocument, a spinner, asks for a document with an *)
(* XMLHttpRequest and hands it to proxy.loadXML, which may throw, or call  *)
(* back later with what came of it.                                        *)
(*                                                                         *)
(* JavaScript runs one handler at a time, each to its end.  The exceptions *)
(* inside a handler are what makes it hard: loader, the callback of        *)
(* makeRequest and makeRequest's own handler each catch and try again.     *)
(* They are translated as operators that return the set of outcomes of a   *)
(* call: the document the proxy took in the end, or "throws".              *)
(* makeRequest itself may throw, after the spinner is there: no request is *)
(* sent then, and nobody catches.                                          *)
(***************************************************************************)
EXTENDS FiniteSets

CONSTANTS
    Loads,  \* the calls that load a page
    None

VARIABLES
    page,     \* this is the script of a page, not the application's
    kind,     \* kind[l]: the function that was called
    xhr,      \* the state of its request
    pending,  \* the document proxy.loadXML works on
    view,     \* what the viewer sees of it
    token,    \* sessionStorage has a deviceToken
    alive,    \* the page of this script is loaded
    failed,   \* history: loads whose reply was no document
    refused   \* history: loads for which the device would not show a document

vars == <<page, kind, xhr, pending, view, token, alive, failed, refused>>

\* "hooked" is loadURL with the processXML of onAppEntry, where it takes a menu
\* item out of the document (no showtimes are available); where it leaves the
\* document alone, onAppEntry is "url".
Kinds    == {"url", "hooked", "swap", "token", "format", "detail"}
ByLoader == {"url", "hooked", "swap"}
Deaf     == {"detail"}
Docs     == {"page", "null"}

ASSUME NoneAssumption == None \notin Kinds

Init ==
    /\ page \in BOOLEAN
    /\ kind = [l \in Loads |-> None]
    /\ xhr = [l \in Loads |-> "none"]
    /\ pending = [l \in Loads |-> "nothing"]
    /\ view = [l \in Loads |-> "absent"]
    /\ token = FALSE
    /\ alive = TRUE
    /\ failed = {} /\ refused = {}

-----------------------------------------------------------------------------
\* How a call can fail: a statement of the script throws, or the device refuses
\* a document it was given.
Faults == {"throws", "refused"}

\* proxy.loadXML of a document, and of the error document when that throws.
LoadXML(doc) == {doc, "message", "refused"}

\* Mutant of ProcessXML: another document without elements is no better.
ProcessAny(k, doc) == IF doc = "null" THEN "throws" ELSE "done"

\* processXML of onAppEntry calls a method of the document.
ProcessXML(k, doc) == IF k = "hooked" /\ doc = "null" THEN "throws" ELSE "done"

\* The loaders of loadURL and of loadAndSwapURL.
Loader(k, doc) == IF ProcessXML(k, doc) = "throws" THEN {"throws"} ELSE LoadXML(doc)

\* The callback loadURLInternal gives to makeRequest.  Its catch calls
\* loader(me.siteUnavailableError()): the document takes the proxy's place and
\* has no loadXML, so a failure stays one.
Callback(k, doc) == Loader(k, doc)

\* makeRequest's handler at readyState 4: a callback that throws is called once
\* more, with null; what it throws then, nobody catches.
MakeRequest(k, doc) ==
    UNION {IF o \in Faults THEN {IF p \in Faults THEN o ELSE p : p \in Callback(k, "null")}
                           ELSE {o} : o \in Callback(k, doc)}

\* The handlers of decorateURLWithProxy and decorateXMLWithProxy log a reply
\* they cannot use, and whatever is thrown.
Decorate(doc) == IF doc = "page" THEN {"page", "refused"} ELSE {"throws"}

\* loadTrailerDetailPage hands on what it got, a failed request's document too.
DetailPage(doc) == {doc, "refused"}

Handler(k, doc) ==
    CASE k \in ByLoader            -> MakeRequest(k, doc)
      [] k \in {"token", "format"} -> Decorate(doc)
      [] k = "detail"              -> DetailPage(doc)

\* The handler runs: the proxy has a document, or is left with its spinner.
Handle(l, doc) ==
    \E o \in Handler(kind[l], doc) :
        /\ pending' = [pending EXCEPT ![l] = IF o \in Faults THEN "nothing" ELSE o]
        /\ failed' = IF doc = "null" THEN failed \union {l} ELSE failed
        /\ refused' = IF o = "refused" THEN refused \union {l} ELSE refused
        /\ token' = (token \/ (kind[l] = "token" /\ doc = "page"))

-----------------------------------------------------------------------------
\* The spinner is shown and the request sent; or it is not, where there is no
\* url, or open, setRequestHeader or send throws: makeRequest and the decorate
\* functions leave that to their caller, and ATVUtils.Ajax logs it.
Begin(l, k) ==
    /\ alive /\ kind[l] = None
    /\ kind' = [kind EXCEPT ![l] = k]
    /\ \E request \in {"sent", "unsent"} : xhr' = [xhr EXCEPT ![l] = request]
    /\ view' = [view EXCEPT ![l] = "spinner"]
    /\ UNCHANGED <<page, pending, token, alive, failed, refused>>

LoadURL(l)             == Begin(l, "url")
AppEntry(l)            == ~page /\ Begin(l, "hooked")
LoadAndSwapURL(l)      == page /\ Begin(l, "swap")
DecorateXML(l)         == page /\ Begin(l, "format")
LoadTrailerDetail(l)   == page /\ Begin(l, "detail")

\* Without a deviceToken one is asked for first.
DecorateURL(l) == page /\ Begin(l, IF token THEN "url" ELSE "token")

\* The request is answered, with a document or without one.
Answer(l) ==
    /\ alive /\ xhr[l] = "sent"
    /\ xhr' = [xhr EXCEPT ![l] = "done"]
    /\ \E doc \in Docs : Handle(l, doc)
    /\ UNCHANGED <<page, kind, view, alive>>

\* The device shows the document of the proxy; after a swap the old page goes.
Shown(l) ==
    /\ alive /\ pending[l] \in {"page", "message"}
    /\ view' = [view EXCEPT ![l] = pending[l]]
    /\ pending' = [pending EXCEPT ![l] = "nothing"]
    /\ alive' = (kind[l] # "swap")
    /\ UNCHANGED <<page, kind, xhr, token, failed, refused>>

\* It does not: the callbacks of loadURL and loadAndSwapURL show the error page
\* instead, whose own loadXML may throw too.
NotShown(l) ==
    /\ alive /\ pending[l] # "nothing"
    /\ \/ /\ kind[l] \in ByLoader /\ pending[l] \in Docs
          /\ pending' = [pending EXCEPT ![l] = "message"]
          /\ refused' = IF pending[l] = "page" THEN refused \union {l} ELSE refused
       \/ /\ pending' = [pending EXCEPT ![l] = "nothing"]
          /\ refused' = IF pending[l] = "null" /\ kind[l] \in Deaf
                         THEN refused ELSE refused \union {l}
    /\ UNCHANGED <<page, kind, xhr, view, token, alive, failed>>

\* Mutant of Cancel: the request is not aborted.
CancelOnly(l) ==
    /\ alive /\ view[l] = "spinner"
    /\ view' = [view EXCEPT ![l] = "dismissed"]
    /\ UNCHANGED <<page, kind, xhr, pending, token, alive, failed, refused>>

\* onCancel aborts a request under way; the device may then call its handler at
\* once, without a document, or not at all.
Abort(l) ==
    /\ xhr' = [xhr EXCEPT ![l] = "done"]
    /\ Handle(l, "null") \/ UNCHANGED <<pending, token, failed, refused>>

\* The viewer gives up.  abort() of a request that is done, or was never sent,
\* does nothing, and nothing stops a loadXML under way; loadTrailerDetailPage
\* sets no onCancel.
Cancel(l) ==
    /\ alive /\ view[l] = "spinner"
    /\ view' = [view EXCEPT ![l] = "dismissed"]
    /\ IF kind[l] \notin Deaf /\ xhr[l] = "sent" THEN Abort(l)
       ELSE UNCHANGED <<xhr, pending, token, failed, refused>>
    /\ UNCHANGED <<page, kind, alive>>

Call(l) ==
    \/ LoadURL(l) \/ AppEntry(l) \/ LoadAndSwapURL(l)
    \/ DecorateURL(l) \/ DecorateXML(l) \/ LoadTrailerDetail(l)

Step(l) == Answer(l) \/ Shown(l) \/ NotShown(l)

Next == \E l \in Loads : Call(l) \/ Step(l) \/ Cancel(l)

Spec == Init /\ [][Next]_vars

\* The network answers or fails, and the device calls loadXML's callback.
Fairness == \A l \in Loads : WF_vars(Step(l))
FairSpec == Spec /\ Fairness

-----------------------------------------------------------------------------
TypeOK ==
    /\ page \in BOOLEAN
    /\ kind \in [Loads -> Kinds \union {None}]
    /\ xhr \in [Loads -> {"none", "unsent", "sent", "done"}]
    /\ pending \in [Loads -> Docs \union {"message", "nothing"}]
    /\ view \in [Loads -> {"absent", "spinner", "page", "message", "dismissed"}]
    /\ token \in BOOLEAN /\ alive \in BOOLEAN
    /\ failed \subseteq Loads /\ refused \subseteq Loads

\* The loads whose page nothing can stop: the request cannot be aborted, or the
\* document is with proxy.loadXML.
Bound(l) == kind[l] \in Deaf \/ pending[l] = "page"

\* What the viewer sees is what ProxyPages promises: a page shown after its load
\* was dismissed was already with proxy.loadXML, or its request had no onCancel.
Promise == INSTANCE ProxyPages WITH bound <- {l \in Loads : Bound(l)}
KeepsPromise == Promise!Spec

\* A spinner that nothing will ever end, but for the viewer.
Stuck(l) ==
    view[l] = "spinner" /\ xhr[l] \in {"unsent", "done"} /\ pending[l] = "nothing"

\* What may have left it there.
HasCause(l) ==
    \/ xhr[l] = "unsent"
    \/ l \in refused
    \/ l \in failed /\ kind[l] \notin {"url", "swap"}

\* loadURL and loadAndSwapURL end in a page or the error page however the
\* request they sent fails, unless the device would not show a document it was
\* given, or onAppEntry's hook met a request without a document.  The other
\* functions have no error page: any failure leaves their spinner; and so does,
\* in all of them, a request that could not be sent.
StuckHasCause ==
    \A l \in Loads : Stuck(l) => HasCause(l)

\* Every load comes to an end, or to a spinner that has one of these causes.
LoadEnds ==
    \A l \in Loads :
        kind[l] # None ~> (~alive \/ view[l] # "spinner" \/ (Stuck(l) /\ HasCause(l)))
=============================================================================
