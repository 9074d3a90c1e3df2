---------------------------- MODULE AtvShowtimes ----------------------------
(***************************************************************************)
(* The showtimes pages: Trailers.Showtimes.js over ATVUtils.Ajax of        *)
(* main.js, and the handlers of showtimesconfig.js that call it.  One page *)
(* is loaded, with one copy of the scripts, and the viewer calls its       *)
(* handlers while the replies of earlier calls are still on their way.     *)
(*                                                                         *)
(* loadMovieShowtimeData asks for the movie and then for each of its parts *)
(* (a tms id), counts the replies, and calls success or failure.  Its      *)
(* "var complete = numberOfRequests = succeeded = failed = 0" declares     *)
(* complete alone: the other counters are globals, and two calls in one    *)
(* page use the same ones.  MOVIE_SHOWTIMES_HANDLER aborts the requests it *)
(* knows of, but Ajax knows them by Date.now(), and requests created in    *)
(* the same millisecond take each other's place.                           *)
(***************************************************************************)
EXTENDS Naturals, FiniteSets

CONSTANTS
    Calls,  \* the calls of the handlers
    Parts,  \* at most so many parts of a movie
    None

PartsAssumption == Parts \in Nat \ {0}

VARIABLES
    page,       \* which page it is
    location,   \* LOCATION is stored
    kind,       \* kind[c]: the handler that was called
    entry,      \* the call whose text entry is open
    starting,   \* the call whose handler is about to load
    aborting,   \* the requests it has yet to abort
    byId,       \* the calls of updateShowtimes with an elementId
    req,        \* req[c][i]: the request for part i; the movie's own is 0
    tracked,    \* activeRequests
    number,     \* numberOfRequests, a global
    succeeded,  \* a global too
    complete,   \* complete[c]
    got,        \* got[c]: the parts in theatreData
    view,       \* view[c]: what the viewer sees of it
    shows,      \* history: how often success was called, up to 2
    spinner,    \* the page's own spinner is on
    alive,      \* the page is loaded
    newest,     \* history: the last navigation
    shaken,     \* history: calls that were loading while another began
    puzzled,    \* history: calls with a handler that ended in an exception
    hurt        \* history: calls with a request that failed

control == <<page, location, kind, entry, starting, aborting, byId, newest>>
net     == <<req, tracked>>
counts  == <<number, succeeded, complete, got>>
ui      == <<view, shows, spinner, alive>>
history == <<shaken, puzzled, hurt>>
vars    == <<control, net, counts, ui, history>>

\* LoadShowtimes and DEFAULT_NAVIGATION_HANDLER of the navigation bar; the
\* showtimes page with LOAD_MOVIE_SHOWTIMES and GetNewLocation; a movie's page
\* with MOVIE_SHOWTIMES_HANDLER and LOAD_MOVIE_SHOWTIMES for another theatre.
Handlers == [root  |-> {"browse", "default"},
             list  |-> {"open", "change"},
             movie |-> {"nav", "swap"}]
Kinds   == UNION {Handlers[p] : p \in DOMAIN Handlers}
Movies  == {"nav", "open", "swap"}      \* those that call loadMovieShowtimeData
Proxied == {"open", "swap"}             \* those that show an atv.ProxyDocument
Asking  == {"browse", "open", "swap"}   \* those that ask for a missing location

CallsAssumption == None \notin Calls \union Kinds

Init ==
    /\ page \in DOMAIN Handlers /\ location \in BOOLEAN
    /\ kind = [c \in Calls |-> None]
    /\ entry = None /\ starting = None /\ newest = None
    /\ aborting = {} /\ byId = {} /\ tracked = {}
    /\ req = [c \in Calls |-> [i \in 0 .. Parts |-> "none"]]
    /\ number = 0 /\ succeeded = 0
    /\ complete = [c \in Calls |-> 0]
    /\ got = [c \in Calls |-> {}]
    /\ view = [c \in Calls |-> "none"]
    /\ shows = [c \in Calls |-> 0]
    /\ spinner = FALSE /\ alive = TRUE
    /\ shaken = {} /\ puzzled = {} /\ hurt = {}

Sent(c)     == {i \in 0 .. Parts : req[c][i] = "sent"}
InFlight(c) == Sent(c) # {}

\* The calls under way that use what c uses: the globals, or one spinner.
Shares(c, d) == {kind[c], kind[d]} = {"change"} \/ {kind[c], kind[d]} \subseteq Movies
Others(c)    == {d \in Calls \ {c} : InFlight(d) /\ Shares(c, d)}

-----------------------------------------------------------------------------
\* toggleSpinner of XmlDir/js/main.js puts a spinner where there is none, and the
\* other way round; startSpinner and stopSpinner know which one they want.
Toggled == ~spinner

StartSpinner(c) ==
    CASE kind[c] = "nav"    -> TRUE
      [] kind[c] = "change" -> Toggled
      [] OTHER              -> spinner

StopSpinner(c) ==
    CASE kind[c] = "nav"    -> FALSE
      [] kind[c] = "change" -> Toggled
      [] OTHER              -> spinner

-----------------------------------------------------------------------------
\* What success and failure of the handlers do to what the viewer sees.

Shown(c) ==
    /\ view' = [view EXCEPT ![c] = "shown"]
    /\ shows' = [shows EXCEPT ![c] = IF @ < 2 THEN @ + 1 ELSE @]
    /\ spinner' = (spinner /\ kind[c] \notin {"nav", "change"})
    /\ alive' = (kind[c] # "swap")

\* A proxy that is gone already takes the page and shows nothing.  For another
\* theatre's page this one is unloaded all the same.
ShownNowhere(c) ==
    /\ kind[c] \in Proxied /\ view[c] # "busy"
    /\ shows' = [shows EXCEPT ![c] = IF @ < 2 THEN @ + 1 ELSE @]
    /\ alive' = (kind[c] # "swap")
    /\ UNCHANGED <<view, spinner>>

\* stopSpinner of a navigation, toggleSpinner, proxy.cancel, event.failure.
Failed(c) ==
    /\ view' = [view EXCEPT ![c] = IF @ = "busy" THEN "failed" ELSE @]
    /\ spinner' = StopSpinner(c)
    /\ UNCHANGED <<shows, alive>>

\* success catches what the template or the proxy throws and calls failure.
\* The one of LoadShowtimes only logs it.  updateShowtimes looks for the element
\* its elementId names in a page that has none.
Success(c) ==
    \/ c \notin byId /\ (Shown(c) \/ ShownNowhere(c)) /\ UNCHANGED puzzled
    \/ kind[c] \in Movies \union {"change"} /\ Failed(c) /\ UNCHANGED puzzled
    \/ kind[c] = "browse" /\ puzzled' = puzzled \union {c} /\ UNCHANGED ui

-----------------------------------------------------------------------------
\* ATVUtils.Ajax: one handler sends its requests in this order; one is tracked
\* unless a later one was created in the same millisecond.
Send(c, parts) ==
    /\ req' = [req EXCEPT ![c] =
                 [i \in 0 .. Parts |-> IF i \in parts THEN "sent"
                                       ELSE IF @[i] = "sent" THEN "done" ELSE @[i]]]
    /\ \E lost \in SUBSET parts :
          /\ \A i \in lost : \E j \in parts : i < j
          /\ tracked' = tracked \union ({c} \X (parts \ lost))

Done(c, i) == req' = [req EXCEPT ![c][i] = "done"] /\ UNCHANGED tracked

\* loadMovieShowtimeData: the movie's own file or, without a movie_id, the one
\* part its tribune_id names.
LoadMovieShowtimeData(c) ==
    /\ succeeded' = 0
    /\ \/ number' = 0 /\ Send(c, {0})
       \/ number' = 1 /\ Send(c, {1})
    /\ UNCHANGED <<complete, got>>

\* Mutant of MovieReply: its parts are asked for, but not counted.
MovieReplyUncounted(c) ==
    \E n \in 1 .. Parts :
        /\ number' = 1
        /\ Send(c, 1 .. n)
        /\ UNCHANGED <<succeeded, complete, got, ui, history>>

\* The movie's file names its parts, or tribune_id takes their place; it is not
\* there, and tribune_id is used; it cannot be had, and that is a failure.  When
\* it cannot be read, the catch asks for a status nobody declared and throws
\* again, unless the device happens to have one.
MovieReply(c) ==
    \/ \E n \in 1 .. Parts :
          /\ number' = n
          /\ Send(c, 1 .. n)
          /\ UNCHANGED <<succeeded, complete, got, ui, history>>
    \/ /\ hurt' = hurt \union {c}
       /\ Done(c, 0) /\ Failed(c)
       /\ UNCHANGED <<counts, shaken, puzzled>>
    \/ /\ puzzled' = puzzled \union {c}
       /\ Done(c, 0)
       /\ UNCHANGED <<counts, ui, shaken, hurt>>

\* LoadFinished sorts what there is; its catch tells nobody.
LoadFinished(c) ==
    \/ Success(c)
    \/ puzzled' = puzzled \union {c} /\ UNCHANGED ui

\* loadTheatreData for a part, with LoadSuccess or LoadFailure.
PartReply(c, i, ok) ==
    LET done  == complete[c] + 1
        right == IF ok THEN succeeded + 1 ELSE succeeded
    IN
    /\ complete' = [complete EXCEPT ![c] = done]
    /\ succeeded' = right
    /\ got' = [got EXCEPT ![c] = IF ok THEN @ \union {i} ELSE @]
    /\ hurt' = IF ok THEN hurt ELSE hurt \union {c}
    /\ IF done = number /\ right > 0 THEN LoadFinished(c)
       ELSE /\ IF ok THEN UNCHANGED ui ELSE Failed(c)
            /\ UNCHANGED puzzled
    /\ Done(c, i)
    /\ UNCHANGED <<number, shaken>>

\* Mutant of TheatreReply: a failure is only noted.
TheatreReplyLogged(c, ok) ==
    /\ hurt' = IF ok THEN hurt ELSE hurt \union {c}
    /\ IF ok /\ kind[c] = "default" THEN Shown(c) /\ UNCHANGED puzzled
       ELSE IF ok THEN Success(c)
       ELSE UNCHANGED <<ui, puzzled>>
    /\ Done(c, 1)
    /\ UNCHANGED <<counts, shaken>>

\* The one request of the other handlers.
TheatreReply(c, ok) ==
    /\ hurt' = IF ok THEN hurt ELSE hurt \union {c}
    /\ IF ~ok THEN Failed(c) /\ UNCHANGED puzzled
       ELSE IF kind[c] = "default" THEN Shown(c) /\ UNCHANGED puzzled
       ELSE Success(c)
    /\ Done(c, 1)
    /\ UNCHANGED <<counts, shaken>>

-----------------------------------------------------------------------------
\* The viewer calls a handler: nothing covers the page, no handler runs.
Call(c, k) ==
    /\ alive /\ entry = None /\ starting = None
    /\ \A d \in Calls : ~(kind[d] \in Proxied /\ view[d] = "busy")
    /\ kind[c] = None /\ k \in Handlers[page]
    /\ kind' = [kind EXCEPT ![c] = k]
    /\ view' = [view EXCEPT ![c] = "busy"]
    /\ UNCHANGED <<page, location, byId, newest, req, counts, shows, spinner, alive, history>>

Begins(c) == starting' = c /\ UNCHANGED <<entry, aborting, tracked>>

LoadShowtimes(c)      == Call(c, "browse") /\ Begins(c)
DefaultNavigation(c)  == Call(c, "default") /\ Begins(c)
LoadMovieShowtimes(c) == (Call(c, "open") \/ Call(c, "swap")) /\ Begins(c)
GetNewLocation(c)     == Call(c, "change") /\ entry' = c /\ UNCHANGED <<starting, aborting, tracked>>

\* Mutant of MovieShowtimesHandler: nothing is cancelled.
HandlerOnly(c) == Call(c, "nav") /\ starting' = c /\ UNCHANGED <<entry, aborting, tracked>>

\* It begins with cancelAllActiveRequests.
MovieShowtimesHandler(c) ==
    /\ Call(c, "nav")
    /\ starting' = c
    /\ aborting' = {r \in tracked : req[r[1]][r[2]] = "sent"}
    /\ tracked' = {}
    /\ UNCHANGED entry

\* An abort calls the request's handler, without a document, or it does not.
Abort(c, i) ==
    /\ <<c, i>> \in aborting
    /\ aborting' = aborting \ {<<c, i>>}
    /\ \/ /\ i = 0 /\ Failed(c) /\ Done(c, i) /\ hurt' = hurt \union {c}
          /\ UNCHANGED <<counts, shaken, puzzled>>
       \/ i > 0 /\ PartReply(c, i, FALSE)
       \/ Done(c, i) /\ UNCHANGED <<counts, ui, history>>
    /\ UNCHANGED <<page, location, kind, entry, starting, byId, newest>>

\* The rest of the handler, or of the text entry it waited for.
Start(c) ==
    /\ starting = c /\ aborting = {} /\ starting' = None
    /\ IF kind[c] \in Asking /\ ~location
       THEN entry' = c /\ UNCHANGED <<net, counts, spinner, shaken>>
       ELSE /\ UNCHANGED entry
            /\ shaken' = IF Others(c) = {} THEN shaken ELSE shaken \union Others(c) \union {c}
            /\ spinner' = StartSpinner(c)
            /\ IF kind[c] \in Movies THEN LoadMovieShowtimeData(c)
               ELSE Send(c, {1}) /\ UNCHANGED counts
    /\ newest' = IF kind[c] = "nav" THEN c ELSE newest
    /\ UNCHANGED <<page, location, kind, aborting, byId,
                   view, shows, alive, puzzled, hurt>>

\* getLocation, when there is no location to go on with.  LoadShowtimes shows a
\* page without theatres; the failure of GetNewLocation uses an event nobody
\* declared.
NoLocation(c) ==
    /\ \/ kind[c] = "browse" /\ Success(c)
       \/ kind[c] = "change" /\ puzzled' = puzzled \union {c} /\ UNCHANGED ui
       \/ kind[c] \notin {"browse", "change"} /\ Failed(c) /\ UNCHANGED puzzled
    /\ UNCHANGED <<location, starting, byId>>

\* TextEntrySuccess, with a zip code that is valid or not.
EnterZip(c) ==
    /\ entry = c /\ entry' = None
    /\ \E valid \in BOOLEAN :
          IF valid \/ location
          THEN location' = TRUE /\ starting' = c /\ UNCHANGED <<byId, ui, puzzled>>
          ELSE NoLocation(c)
    /\ UNCHANGED <<page, kind, aborting, newest, net, counts, shaken, hurt>>

\* TextEntryFailure; updateShowtimes takes the old location for an elementId.
CancelEntry(c) ==
    /\ entry = c /\ entry' = None
    /\ IF location
       THEN /\ starting' = c
            /\ byId' = IF kind[c] = "change" THEN byId \union {c} ELSE byId
            /\ UNCHANGED <<location, ui, puzzled>>
       ELSE NoLocation(c)
    /\ UNCHANGED <<page, kind, aborting, newest, net, counts, shaken, hurt>>

\* A request is answered, well or not.
Reply(c, i) ==
    /\ alive /\ starting = None /\ req[c][i] = "sent"
    /\ IF kind[c] \notin Movies THEN \E ok \in BOOLEAN : TheatreReply(c, ok)
       ELSE IF i = 0 THEN MovieReply(c)
       ELSE \E ok \in BOOLEAN : PartReply(c, i, ok)
    /\ UNCHANGED control

\* The viewer dismisses a proxy, which has no onCancel: its requests go on.
Dismiss(c) ==
    /\ alive /\ entry = None /\ starting = None
    /\ kind[c] \in Proxied /\ view[c] = "busy"
    /\ view' = [view EXCEPT ![c] = "dismissed"]
    /\ UNCHANGED <<control, net, counts, shows, spinner, alive, history>>

ViewerCalls(c) ==
    \/ LoadShowtimes(c) \/ DefaultNavigation(c) \/ LoadMovieShowtimes(c)
    \/ GetNewLocation(c) \/ MovieShowtimesHandler(c)

Device(c) == Start(c) \/ \E i \in 0 .. Parts : Abort(c, i) \/ Reply(c, i)

Next == \E c \in Calls :
    ViewerCalls(c) \/ EnterZip(c) \/ CancelEntry(c) \/ Dismiss(c) \/ Device(c)

Spec == Init /\ [][Next]_vars

\* A handler runs on, and every request is answered or fails.
Fairness ==
    \A c \in Calls :
        /\ WF_vars(Start(c) \/ \E i \in 0 .. Parts : Abort(c, i))
        /\ \A i \in 0 .. Parts : WF_vars(Reply(c, i))
FairSpec == Spec /\ Fairness

-----------------------------------------------------------------------------
TypeOK ==
    /\ page \in DOMAIN Handlers /\ location \in BOOLEAN
    /\ kind \in [Calls -> Kinds \union {None}]
    /\ {entry, starting, newest} \subseteq Calls \union {None}
    /\ UNION {aborting, tracked} \subseteq Calls \X (0 .. Parts)
    /\ req \in [Calls -> [0 .. Parts -> {"none", "sent", "done"}]]
    /\ number \in 0 .. Parts /\ succeeded \in Nat
    /\ complete \in [Calls -> 0 .. Parts]
    /\ got \in [Calls -> SUBSET (1 .. Parts)]
    /\ view \in [Calls -> {"none", "busy", "shown", "failed", "dismissed"}]
    /\ shows \in [Calls -> 0 .. 2]
    /\ spinner \in BOOLEAN /\ alive \in BOOLEAN
    /\ UNION {byId, shaken, puzzled, hurt} \subseteq Calls

\* The counters do their work as long as a call has them to itself: success is
\* called once at most, and only when no request of the call is left.
AloneIsWhole ==
    [][\A c \in Calls : shows'[c] # shows[c] /\ c \notin shaken
          => shows[c] = 0 /\ \A i \in 0 .. Parts : req'[c][i] # "sent"]_vars

\* A navigation aborts what came before it, so the times of an older date never
\* take the place of a newer one's, unless one of the older one's requests lost
\* its place in activeRequests to another of the same millisecond.
LatestShown ==
    [][\A c \in Calls : kind[c] = "nav" /\ shows'[c] # shows[c] /\ c # newest
          => \E i \in Sent(c) : <<c, i>> \notin tracked]_vars

\* A movie's page spins while the last date chosen is loading and not after,
\* but for calls that shared the counters, replies that failed before the last
\* (failure is called for each), and handlers that ended in an exception.
\* The showtimes page spins while a change of location is loading, unless two
\* changes overlapped: toggleSpinner then takes the spinner away.
SpinnerHonest ==
    /\ newest # None /\ starting = None /\ newest \notin shaken =>
          /\ InFlight(newest) /\ newest \notin hurt => spinner
          /\ ~InFlight(newest) /\ newest \notin puzzled => ~spinner
    /\ page = "list" /\ (\A c \in Calls : kind[c] = "change" => c \notin shaken) =>
          (spinner <=> \E c \in Calls : kind[c] = "change" /\ InFlight(c))

\* Every call is answered, with a page or with a failure, except those that
\* shared the counters, ended in an exception, or were aborted.
CallsEnd ==
    \A c \in Calls : kind[c] # None ~>
        (~alive \/ entry = c \/ view[c] # "busy" \/ c \in shaken \union puzzled
           \/ (kind[c] = "nav" /\ c # newest))
=============================================================================
