------------------------------- MODULE MovieBox -------------------------------
(***************************************************************************)
(* The MovieBox catalogues: MovieBoxManager.GetListOfMovies and            *)
(* GetListOfShows build a page through the static field sortedList, and    *)
(* Searchmovie looks titles up in whatever that field holds, under the     *)
(* details page that the static flag isShow selects.  Nothing is locked;   *)
(* each access to the field is a step of its own, and a request goes on    *)
(* with the list the field holds by then, not with the one it made.        *)
(***************************************************************************)
EXTENDS Naturals, FiniteSets

CONSTANTS Requests,    \* the calls of the service, each made once
          Items,       \* the number of titles in either catalogue
          None

Kinds == {"movies", "shows"}

ASSUME ItemsAssumption == Items \in Nat \ {0}
ASSUME NoneAssumption  == None \notin Requests \cup Kinds

VARIABLES
    pc,           \* the next step of each request
    kind,         \* what it lists; None for a search or before the call
    left,         \* the titles it has still to add
    sortedList,   \* the static field: the list made by some request, or null
    isShow,       \* the static flag
    list,         \* the titles in the list that each request made
    version,      \* what List<T> counts to notice a change under an enumerator
    seen,         \* the list and the version a request is enumerating
    page,         \* the titles on the page a request answers with
    found,        \* the kind of details page a search links to
    overlap,      \* history: a catalogue request has run beside another request
    lost          \* history: a catalogue request has failed

vars == <<pc, kind, left, sortedList, isShow, list, version, seen, page, found, overlap, lost>>
statics == <<sortedList, isShow>>
lists   == <<list, version>>
history == <<overlap, lost>>

Empty == [k \in Kinds |-> 0]
Steps == {"idle", "fetch", "new", "add", "sort", "begin", "render", "flag", "find", "done", "failed"}
Listing == {"fetch", "new", "add", "sort", "begin", "render"}

Init ==
    /\ pc      = [r \in Requests |-> "idle"]
    /\ kind    = [r \in Requests |-> None]
    /\ left    = [r \in Requests |-> 0]
    /\ sortedList = None
    /\ isShow  = FALSE
    /\ list    = [r \in Requests |-> Empty]
    /\ version = [r \in Requests |-> 0]
    /\ seen    = [r \in Requests |-> <<None, 0>>]
    /\ page    = [r \in Requests |-> Empty]
    /\ found   = [r \in Requests |-> None]
    /\ overlap = FALSE
    /\ lost    = FALSE

Goto(r, step) == pc' = [pc EXCEPT ![r] = step]
Busy == {r \in Requests : pc[r] \in Listing}
Searching == {r \in Requests : pc[r] \in {"flag", "find"}}

\* An exception leaves the service method; it is a fault to the caller.
Throw(r) ==
    /\ Goto(r, "failed")
    /\ lost' = (lost \/ kind[r] # None)
    /\ left' = [left EXCEPT ![r] = 0]
    /\ seen' = [seen EXCEPT ![r] = <<None, 0>>]

-----------------------------------------------------------------------------
\* GetListOfMovies and GetListOfShows: the flag is set before anything else.
StartList(r, k) ==
    /\ pc[r] = "idle"
    /\ isShow' = (k = "shows")
    /\ kind' = [kind EXCEPT ![r] = k]
    /\ Goto(r, "fetch")
    /\ overlap' = (overlap \/ Busy \cup Searching # {})
    /\ UNCHANGED <<left, sortedList, lists, seen, page, found, lost>>

\* The catalogue is read from its file or downloaded; it may not be there.
Fetch(r) ==
    /\ pc[r] = "fetch"
    /\ Goto(r, "new")
    /\ UNCHANGED <<kind, left, statics, lists, seen, page, found, history>>

FetchThrows(r) ==
    /\ pc[r] = "fetch"
    /\ Throw(r)
    /\ UNCHANGED <<kind, statics, lists, page, found, overlap>>

\* Mutant of NewList: a list that is there is used again.
NewListOnce(r) ==
    /\ pc[r] = "new"
    /\ sortedList' = IF sortedList = None THEN r ELSE sortedList
    /\ left' = [left EXCEPT ![r] = Items]
    /\ Goto(r, "add")
    /\ UNCHANGED <<kind, isShow, lists, seen, page, found, history>>

\* A new, empty list is put in the field.
NewList(r) ==
    /\ pc[r] = "new"
    /\ sortedList' = r
    /\ left' = [left EXCEPT ![r] = Items]
    /\ Goto(r, "add")
    /\ UNCHANGED <<kind, isShow, lists, seen, page, found, history>>

\* Another request is changing list l.
Racing(r, l) == \E q \in Requests \ {r} : pc[q] \in {"add", "sort"} /\ sortedList = l

\* A title goes to the list in the field.  List<T> is not made for two
\* threads: a title may be lost, or the call throw, when another one is at it.
Add(r) ==
    LET l == sortedList IN
    /\ pc[r] = "add"
    /\ left' = [left EXCEPT ![r] = @ - 1]
    /\ version' = [version EXCEPT ![l] = @ + 1]
    /\ \/ list' = [list EXCEPT ![l][kind[r]] = @ + 1]
       \/ Racing(r, l) /\ UNCHANGED list
    /\ Goto(r, IF left[r] = 1 THEN "sort" ELSE "add")
    /\ UNCHANGED <<kind, statics, seen, page, found, history>>

AddThrows(r) ==
    /\ pc[r] = "add"
    /\ Racing(r, sortedList)
    /\ Throw(r)
    /\ UNCHANGED <<kind, statics, lists, page, found, overlap>>

Sort(r) ==
    /\ pc[r] = "sort"
    /\ version' = [version EXCEPT ![sortedList] = @ + 1]
    /\ Goto(r, "begin")
    /\ UNCHANGED <<kind, left, statics, list, seen, page, found, history>>

SortThrows(r) ==
    /\ pc[r] = "sort"
    /\ Racing(r, sortedList)
    /\ Throw(r)
    /\ UNCHANGED <<kind, statics, lists, page, found, overlap>>

\* The loop over the list takes an enumerator of the list in the field.
BeginRender(r) ==
    /\ pc[r] = "begin"
    /\ seen' = [seen EXCEPT ![r] = <<sortedList, version[sortedList]>>]
    /\ Goto(r, "render")
    /\ UNCHANGED <<kind, left, statics, lists, page, found, history>>

Changed(r) == version[seen[r][1]] # seen[r][2]

\* Every title of an unchanged list is on the page, all linked to the details
\* page of this request's kind.
Render(r) ==
    /\ pc[r] = "render"
    /\ ~Changed(r)
    /\ page' = [page EXCEPT ![r] = list[seen[r][1]]]
    /\ seen' = [seen EXCEPT ![r] = <<None, 0>>]
    /\ Goto(r, "done")
    /\ UNCHANGED <<kind, left, statics, lists, found, history>>

\* "Collection was modified": the enumerator of a changed list throws.
RenderThrows(r) ==
    /\ pc[r] = "render"
    /\ Changed(r)
    /\ Throw(r)
    /\ UNCHANGED <<kind, statics, lists, page, found, overlap>>

GetMainList(r) ==
    \/ Fetch(r) \/ FetchThrows(r) \/ NewList(r) \/ Add(r) \/ AddThrows(r)
    \/ Sort(r) \/ SortThrows(r) \/ BeginRender(r) \/ Render(r) \/ RenderThrows(r)

\* Searchmovie: the flag is read first, the list some time later.
StartSearch(r) ==
    /\ pc[r] = "idle"
    /\ Goto(r, "flag")
    /\ overlap' = (overlap \/ Busy # {})
    /\ UNCHANGED <<kind, left, statics, lists, seen, page, found, lost>>

ReadFlag(r) ==
    /\ pc[r] = "flag"
    /\ found' = [found EXCEPT ![r] = IF isShow THEN "shows" ELSE "movies"]
    /\ Goto(r, "find")
    /\ UNCHANGED <<kind, left, statics, lists, seen, page, history>>

\* A query that every title matches.
Find(r) ==
    /\ pc[r] = "find"
    /\ sortedList # None
    /\ page' = [page EXCEPT ![r] = list[sortedList]]
    /\ Goto(r, "done")
    /\ UNCHANGED <<kind, left, statics, lists, seen, found, history>>

\* No list yet, or one that is being changed: a null reference.
FindThrows(r) ==
    /\ pc[r] = "find"
    /\ sortedList = None \/ Racing(r, sortedList)
    /\ Throw(r)
    /\ UNCHANGED <<kind, statics, lists, page, found, overlap>>

Searchmovie(r) == ReadFlag(r) \/ Find(r) \/ FindThrows(r)

\* Mutant of GetListOfShows: the flag is not set.
GetListOfShowsUnflagged(r) ==
    /\ pc[r] = "idle"
    /\ kind' = [kind EXCEPT ![r] = "shows"]
    /\ Goto(r, "fetch")
    /\ overlap' = (overlap \/ Busy \cup Searching # {})
    /\ UNCHANGED <<left, statics, lists, seen, page, found, lost>>

GetListOfMovies(r) == StartList(r, "movies")
GetListOfShows(r)  == StartList(r, "shows")

Next ==
    \E r \in Requests :
        \/ GetListOfMovies(r) \/ GetListOfShows(r) \/ GetMainList(r)
        \/ StartSearch(r) \/ Searchmovie(r)

Spec == Init /\ [][Next]_vars

-----------------------------------------------------------------------------
\* Properties.

\* Every variable keeps its type, and a request that adds finds a list.
TypeOK ==
    /\ pc \in [Requests -> Steps]
    /\ kind \in [Requests -> Kinds \cup {None}]
    /\ left \in [Requests -> 0 .. Items]
    /\ sortedList \in Requests \cup {None}
    /\ isShow \in BOOLEAN
    /\ list \in [Requests -> [Kinds -> Nat]]
    /\ version \in [Requests -> Nat]
    /\ seen \in [Requests -> (Requests \cup {None}) \X Nat]
    /\ page \in [Requests -> [Kinds -> Nat]]
    /\ found \in [Requests -> Kinds \cup {None}]
    /\ history \in BOOLEAN \X BOOLEAN
    /\ \A r \in Requests : pc[r] \in {"add", "sort", "begin"} => sortedList # None

Whole(k) == [Empty EXCEPT ![k] = Items]

\* The page of a catalogue holds every title of its kind, once, and none of the
\* other kind, unless another request ran beside a catalogue request: only an
\* interleaving can put titles on the wrong page, lose or repeat them.
CatalogueWhole ==
    \A r \in Requests :
        pc[r] = "done" /\ kind[r] # None /\ ~overlap => page[r] = Whole(kind[r])

\* What a search finds is of the kind its links are made for.  The flag is set
\* before the catalogue is there, so a catalogue request that fails breaks this
\* for good even when no two requests ever meet.
SearchMatches ==
    \A r \in Requests :
        pc[r] = "done" /\ kind[r] = None /\ ~overlap /\ ~lost => page[r] = Whole(found[r])

=============================================================================
