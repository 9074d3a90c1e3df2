---------------------------- MODULE Lists_proofs -----------------------------
(***************************************************************************)
(* Proofs about the site managers' lists: MovieBox's catalogue, for any    *)
(* requests and titles, then the pages that a catalogue is assembled from, *)
(* for any number of pages, the buttons of a page that plays, for any      *)
(* number of frames, and the channels of an m3u file, for files of any     *)
(* length and shelves of any width.                                        *)
(*                                                                         *)
(* The catalogue.  A request goes on with the list in the static field,    *)
(* so its page is its own only while nobody else replaces or fills that    *)
(* list.  As long as no catalogue request ran beside another request,      *)
(* whoever makes a catalogue is alone (Lone), the list in the field is     *)
(* its own and as long as the titles it has added (Making), and between    *)
(* requests the field holds a whole catalogue of the kind that the flag    *)
(* speaks of, unless one was lost (Ready).  What holds beyond that is      *)
(* only the types (Sound).                                                 *)
(*                                                                         *)
(* The channels.  The loop is at the first line of the m-th channel with   *)
(* the first m - 1 in the dictionaries, or past a blank line at a line     *)
(* that it cannot get over in the end (FileInv); the shelves hold the      *)
(* channels so far, each at its place (PageInv); the menu has the pictures *)
(* of the categories so far, next to each other (MenuInv).                 *)
(***************************************************************************)
EXTENDS MCLists, FiniteSetTheorems, TLAPS

USE ItemsAssumption, NoneAssumption DEF Kinds

-----------------------------------------------------------------------------
\* The invariant.

\* A list with n titles of a kind.
Partial(k, n) == [Empty EXCEPT ![k] = n]

\* The kind of the catalogue the flag speaks of.
Flagged == IF isShow THEN "shows" ELSE "movies"

\* The types, and what each step of a request needs.
Sound ==
    /\ TypeOK
    /\ \A r \in Requests :
          /\ pc[r] \in Listing => kind[r] \in Kinds
          /\ pc[r] \in {"idle", "flag", "find"} => kind[r] = None
          /\ pc[r] = "add" => left[r] # 0
          /\ pc[r] = "render" => seen[r][1] \in Requests

\* Who makes a catalogue is alone.
Lone == \A r \in Busy : \A q \in Requests \ {r} : q \notin Busy /\ q \notin Searching

\* What a request at a catalogue has made.
Making(r) ==
    /\ pc[r] \in Listing => kind[r] = Flagged
    /\ pc[r] = "add" => sortedList = r /\ list[r] = Partial(kind[r], Items - left[r])
    /\ pc[r] \in {"sort", "begin", "render"} => sortedList = r /\ list[r] = Whole(kind[r])
    /\ pc[r] = "render" => seen[r] = <<r, version[r]>>

\* What a request has before, and has in the end.
Made(r) ==
    /\ pc[r] \in {"idle", "fetch", "new"} => list[r] = Empty /\ sortedList # r
    /\ pc[r] = "find" => found[r] = Flagged
    /\ pc[r] = "done" /\ kind[r] # None => page[r] = Whole(kind[r])
    /\ pc[r] = "done" /\ kind[r] = None /\ ~lost => page[r] = Whole(found[r])

\* What a search finds.
Ready == Busy = {} /\ ~lost /\ sortedList # None => list[sortedList] = Whole(Flagged)

Serial == Lone /\ Ready /\ \A r \in Requests : Making(r) /\ Made(r)

MoviesInv == Sound /\ (~overlap => Serial)

-----------------------------------------------------------------------------
\* Its steps.

\* The invariant holds before the first request.
LEMMA MoviesInit == Init => MoviesInv
<1> SUFFICES ASSUME Init PROVE MoviesInv
  OBVIOUS
<1>1. Sound
  <2>1. Empty \in [Kinds -> Nat]
    BY DEF Empty
  <2>2. list \in [Requests -> [Kinds -> Nat]] /\ page \in [Requests -> [Kinds -> Nat]]
    BY <2>1 DEF Init
  <2>3. history \in BOOLEAN \X BOOLEAN
    BY DEF Init, history
  <2>4. seen \in [Requests -> (Requests \cup {None}) \X Nat]
    BY DEF Init
  <2>5. left \in [Requests -> 0 .. Items] /\ version \in [Requests -> Nat]
    BY DEF Init
  <2>6. pc \in [Requests -> Steps] /\ \A r \in Requests : pc[r] = "idle"
    BY DEF Init, Steps
  <2>7. kind \in [Requests -> Kinds \cup {None}] /\ found \in [Requests -> Kinds \cup {None}]
    BY DEF Init
  <2>8. sortedList \in Requests \cup {None} /\ isShow \in BOOLEAN
    BY DEF Init
  <2>9. TypeOK
    BY <2>2, <2>3, <2>4, <2>5, <2>6, <2>7, <2>8 DEF TypeOK
  <2> QED
    BY <2>9, <2>6 DEF Init, Sound, Listing
<1>2. Serial
  <2>1. Busy = {} /\ sortedList = None
    BY DEF Init, Busy, Listing
  <2>2. ASSUME NEW r \in Requests PROVE Making(r) /\ Made(r)
    <3>1. pc[r] = "idle" /\ list[r] = Empty /\ sortedList # r
      BY DEF Init
    <3> QED
      BY <3>1 DEF Making, Made, Listing
  <2> QED
    BY <2>1, <2>2 DEF Serial, Lone, Ready
<1> QED
  BY <1>1, <1>2 DEF MoviesInv

\* The invariant says what a run checks of the catalogue.
LEMMA MoviesHold == MoviesInv => MoviesRight
BY DEF MoviesInv, Sound, TypeOK, Serial, Made, MoviesRight, CatalogueWhole, SearchMatches, history

\* What a step of one request leaves of the others: whoever is at a catalogue is alone.
LEMMA OthersMade ==
    ASSUME Sound, Serial, NEW r \in Requests,
           \A q \in Requests \ {r} :
               /\ pc'[q] = pc[q] /\ kind'[q] = kind[q] /\ list'[q] = list[q]
               /\ page'[q] = page[q] /\ found'[q] = found[q],
           \A q \in Requests \ {r} : pc[q] \notin Listing,
           sortedList' \in {sortedList, r}, lost => lost',
           isShow' = isShow \/ Searching \subseteq {r}
    PROVE  \A q \in Requests \ {r} : Making(q)' /\ Made(q)'
<1> SUFFICES ASSUME NEW q \in Requests \ {r} PROVE Making(q)' /\ Made(q)'
  OBVIOUS
<1>1. Making(q)'
  BY DEF Making, Listing
<1>2. pc[q] = "find" => isShow' = isShow
  BY DEF Searching
<1>3. Made(q)'
  BY <1>2 DEF Serial, Made, Flagged
<1> QED
  BY <1>1, <1>3

\* A catalogue request that begins is alone, or spoils the rest.
LEMMA StartListStep ==
    ASSUME MoviesInv, NEW r \in Requests, NEW k \in Kinds, StartList(r, k)
    PROVE  MoviesInv'
<1>1. /\ pc[r] = "idle" /\ pc' = [pc EXCEPT ![r] = "fetch"] /\ kind' = [kind EXCEPT ![r] = k]
      /\ isShow' = (k = "shows") /\ overlap' = (overlap \/ Busy \cup Searching # {})
      /\ UNCHANGED <<left, sortedList, list, version, seen, page, found, lost>>
  BY DEF StartList, Goto, lists
<1>2. Sound'
  BY <1>1 DEF MoviesInv, Sound, TypeOK, Steps, Listing, history
<1>3. ASSUME ~overlap' PROVE Serial'
  <2>1. Serial /\ Busy = {} /\ Searching = {}
    BY <1>1, <1>3 DEF MoviesInv
  <2>2. pc'[r] = "fetch" /\ kind'[r] = k /\ \A q \in Requests \ {r} : pc'[q] = pc[q] /\ kind'[q] = kind[q]
    BY <1>1 DEF MoviesInv, Sound, TypeOK
  <2>3. \A q \in Requests \ {r} : pc[q] \notin Listing /\ pc[q] \notin {"flag", "find"}
    BY <2>1 DEF Busy, Searching
  <2>4. \A q \in Requests \ {r} : Making(q)' /\ Made(q)'
    BY <1>1, <2>1, <2>2, <2>3, OthersMade DEF MoviesInv
  <2>5. Making(r)' /\ Made(r)'
    BY <1>1, <2>1, <2>2 DEF Serial, Making, Made, Flagged, Listing
  <2>6. Busy' = {r} /\ Searching' = {}
    BY <2>2, <2>3 DEF Busy, Searching, Listing
  <2> QED
    BY <2>4, <2>5, <2>6 DEF Serial, Lone, Ready
<1> QED
  BY <1>2, <1>3 DEF MoviesInv

\* A step of a request that is at a catalogue leaves the others what they have made.
LEMMA ListingStep ==
    ASSUME MoviesInv, Sound', NEW r \in Requests, r \in Busy, UNCHANGED <<isShow, overlap>>,
           \A q \in Requests \ {r} :
               /\ pc'[q] = pc[q] /\ kind'[q] = kind[q] /\ page'[q] = page[q] /\ found'[q] = found[q]
               /\ Serial => list'[q] = list[q],
           Serial => sortedList' \in {sortedList, r},
           lost => lost',
           Serial => Making(r)' /\ Made(r)' /\ (r \in Busy' \/ Ready'),
           pc'[r] \notin {"flag", "find"}
    PROVE  MoviesInv'
<1> SUFFICES ASSUME Serial PROVE Serial'
  BY DEF MoviesInv
<1>1. \A q \in Requests \ {r} : pc[q] \notin Listing /\ pc[q] \notin {"flag", "find"}
  BY DEF Serial, Lone, Busy, Searching
<1>2. \A q \in Requests \ {r} : Making(q)' /\ Made(q)'
  BY <1>1, OthersMade DEF MoviesInv
<1>3. Busy' \subseteq {r} /\ Searching' = {}
  BY <1>1 DEF Busy, Searching
<1>4. Lone' /\ Ready'
  BY <1>3 DEF Lone, Ready
<1> QED
  BY <1>2, <1>4 DEF Serial

\* No other request is at the list of one that is alone.
LEMMA NoRace ==
    ASSUME Serial, NEW r \in Busy, NEW l
    PROVE  ~Racing(r, l)
BY DEF Serial, Lone, Racing, Busy, Listing

\* A list of so many titles of a kind, and one more.
LEMMA PartialNext ==
    ASSUME NEW k \in Kinds, NEW n \in Nat
    PROVE  /\ Partial(k, n) \in [Kinds -> Nat] /\ Partial(k, 0) = Empty /\ Partial(k, Items) = Whole(k)
           /\ [Partial(k, n) EXCEPT ![k] = @ + 1] = Partial(k, n + 1)
<1>1. Empty \in [Kinds -> Nat] /\ Empty[k] = 0
  BY DEF Empty
<1>2. Partial(k, n) \in [Kinds -> Nat] /\ Partial(k, n)[k] = n
  BY <1>1 DEF Partial
<1>3. Partial(k, 0) = Empty
  BY <1>1 DEF Partial, Empty
<1>4. [Partial(k, n) EXCEPT ![k] = @ + 1] = Partial(k, n + 1)
  BY <1>1 DEF Partial
<1> QED
  BY <1>2, <1>3, <1>4 DEF Partial, Whole

\* The catalogue is read.
LEMMA FetchStep ==
    ASSUME MoviesInv, NEW r \in Requests, Fetch(r)
    PROVE  MoviesInv'
<1>1. /\ pc[r] = "fetch" /\ pc' = [pc EXCEPT ![r] = "new"]
      /\ UNCHANGED <<kind, left, sortedList, isShow, list, version, seen, page, found, overlap, lost>>
  BY DEF Fetch, Goto, statics, lists, history
<1>2. Sound'
  BY <1>1 DEF MoviesInv, Sound, TypeOK, Steps, Listing, history
<1>3. r \in Busy /\ r \in Busy' /\ pc'[r] = "new" /\ \A q \in Requests \ {r} : pc'[q] = pc[q]
  BY <1>1 DEF MoviesInv, Sound, TypeOK, Busy, Listing
<1>4. Serial => Making(r)' /\ Made(r)'
  BY <1>1, <1>3 DEF Serial, Making, Made, Flagged, Listing
<1> QED
  BY <1>1, <1>2, <1>3, <1>4, ListingStep

\* An empty list is in the field, and all titles are left.
LEMMA NewListStep ==
    ASSUME MoviesInv, NEW r \in Requests, NewList(r)
    PROVE  MoviesInv'
<1>1. /\ pc[r] = "new" /\ pc' = [pc EXCEPT ![r] = "add"] /\ sortedList' = r
      /\ left' = [left EXCEPT ![r] = Items]
      /\ UNCHANGED <<kind, isShow, list, version, seen, page, found, overlap, lost>>
  BY DEF NewList, Goto, lists, history
<1>2. Sound'
  BY <1>1 DEF MoviesInv, Sound, TypeOK, Steps, Listing, history
<1>3. r \in Busy /\ r \in Busy' /\ pc'[r] = "add" /\ \A q \in Requests \ {r} : pc'[q] = pc[q]
  BY <1>1 DEF MoviesInv, Sound, TypeOK, Busy, Listing
<1>4. left'[r] = Items /\ kind[r] \in Kinds
  BY <1>1 DEF MoviesInv, Sound, TypeOK, Listing
<1>5. ASSUME Serial PROVE Making(r)' /\ Made(r)'
  <2>1. list[r] = Empty /\ kind[r] = Flagged
    BY <1>1, <1>5 DEF Serial, Making, Made, Listing
  <2>2. Items - left'[r] = 0
    BY <1>4
  <2>3. list[r] = Partial(kind[r], Items - left'[r])
    BY <1>4, <2>1, <2>2, PartialNext
  <2> QED
    BY <1>1, <1>3, <2>1, <2>3 DEF Making, Made, Flagged, Listing
<1> QED
  BY <1>1, <1>2, <1>3, <1>5, ListingStep

\* A title more on the list, and one less to add.
LEMMA AddStep ==
    ASSUME MoviesInv, NEW r \in Requests, Add(r)
    PROVE  MoviesInv'
<1> DEFINE l == sortedList
<1>1. /\ pc[r] = "add" /\ pc' = [pc EXCEPT ![r] = IF left[r] = 1 THEN "sort" ELSE "add"]
      /\ left' = [left EXCEPT ![r] = @ - 1]
      /\ version' = [version EXCEPT ![l] = @ + 1]
      /\ UNCHANGED <<kind, sortedList, isShow, seen, page, found, overlap, lost>>
      /\ \/ list' = [list EXCEPT ![l][kind[r]] = @ + 1]
         \/ Racing(r, l) /\ list' = list
  BY DEF Add, Goto, statics, history
<1>2. l \in Requests /\ kind[r] \in Kinds /\ left[r] \in 1 .. Items
  BY <1>1 DEF MoviesInv, Sound, TypeOK, Listing
<1>3. list' \in [Requests -> [Kinds -> Nat]]
  <2>1. CASE list' = list
    BY <2>1 DEF MoviesInv, Sound, TypeOK
  <2>2. CASE list' = [list EXCEPT ![l][kind[r]] = @ + 1]
    BY <1>2, <2>2 DEF MoviesInv, Sound, TypeOK
  <2> QED
    BY <1>1, <2>1, <2>2
<1>4. Sound'
  <2>1. pc' \in [Requests -> Steps] /\ pc'[r] \in {"add", "sort"} /\ (pc'[r] = "add" => left'[r] # 0)
    BY <1>1, <1>2 DEF MoviesInv, Sound, TypeOK, Steps
  <2>2. left' \in [Requests -> 0 .. Items] /\ version' \in [Requests -> Nat]
    BY <1>1, <1>2 DEF MoviesInv, Sound, TypeOK
  <2>3. \A q \in Requests \ {r} : pc'[q] = pc[q] /\ left'[q] = left[q]
    BY <1>1 DEF MoviesInv, Sound, TypeOK
  <2> QED
    BY <1>1, <1>2, <1>3, <2>1, <2>2, <2>3 DEF MoviesInv, Sound, TypeOK, Listing, history
<1>5. /\ r \in Busy /\ r \in Busy' /\ pc'[r] = (IF left[r] = 1 THEN "sort" ELSE "add")
      /\ left'[r] = left[r] - 1 /\ \A q \in Requests \ {r} : pc'[q] = pc[q]
  BY <1>1 DEF MoviesInv, Sound, TypeOK, Busy, Listing
<1>6. ASSUME Serial
      PROVE  /\ \A q \in Requests \ {r} : list'[q] = list[q]
             /\ Making(r)' /\ Made(r)'
  <2>1. l = r /\ list[r] = Partial(kind[r], Items - left[r]) /\ kind[r] = Flagged
    BY <1>1, <1>6 DEF Serial, Making, Listing
  <2>2. list' = [list EXCEPT ![r][kind[r]] = @ + 1]
    BY <1>1, <1>5, <1>6, <2>1, NoRace
  <2>3. Items - left[r] \in Nat /\ (Items - left[r]) + 1 = Items - left'[r]
    BY <1>2, <1>5
  <2>4. /\ list'[r] = [list[r] EXCEPT ![kind[r]] = @ + 1]
        /\ \A q \in Requests \ {r} : list'[q] = list[q]
    BY <1>2, <2>2 DEF MoviesInv, Sound, TypeOK
  <2>5. list'[r] = Partial(kind[r], Items - left'[r])
    BY <1>2, <2>1, <2>3, <2>4, PartialNext
  <2>6. left[r] = 1 => list'[r] = Whole(kind[r])
    <3>1. left[r] = 1 => Items - left'[r] = Items
      BY <1>5
    <3>2. Partial(kind[r], Items) = Whole(kind[r])
      BY <1>2, PartialNext
    <3> QED
      BY <2>5, <3>1, <3>2
  <2> QED
    BY <1>1, <1>5, <2>1, <2>4, <2>5, <2>6 DEF Making, Made, Flagged, Listing
<1> QED
  BY <1>1, <1>4, <1>5, <1>6, ListingStep

\* The order changes, and the version.
LEMMA SortStep ==
    ASSUME MoviesInv, NEW r \in Requests, Sort(r)
    PROVE  MoviesInv'
<1>1. /\ pc[r] = "sort" /\ pc' = [pc EXCEPT ![r] = "begin"]
      /\ version' = [version EXCEPT ![sortedList] = @ + 1]
      /\ UNCHANGED <<kind, left, sortedList, isShow, list, seen, page, found, overlap, lost>>
  BY DEF Sort, Goto, statics, history
<1>2. Sound'
  BY <1>1 DEF MoviesInv, Sound, TypeOK, Steps, Listing, history
<1>3. r \in Busy /\ r \in Busy' /\ pc'[r] = "begin" /\ \A q \in Requests \ {r} : pc'[q] = pc[q]
  BY <1>1 DEF MoviesInv, Sound, TypeOK, Busy, Listing
<1>4. Serial => Making(r)' /\ Made(r)'
  BY <1>1, <1>3 DEF Serial, Making, Made, Flagged, Listing
<1> QED
  BY <1>1, <1>2, <1>3, <1>4, ListingStep

\* The version is that of the whole list.
LEMMA BeginRenderStep ==
    ASSUME MoviesInv, NEW r \in Requests, BeginRender(r)
    PROVE  MoviesInv'
<1>1. /\ pc[r] = "begin" /\ pc' = [pc EXCEPT ![r] = "render"]
      /\ seen' = [seen EXCEPT ![r] = <<sortedList, version[sortedList]>>]
      /\ UNCHANGED <<kind, left, sortedList, isShow, list, version, page, found, overlap, lost>>
  BY DEF BeginRender, Goto, statics, lists, history
<1>2. sortedList \in Requests /\ version[sortedList] \in Nat
  BY <1>1 DEF MoviesInv, Sound, TypeOK
<1>3. seen' \in [Requests -> (Requests \cup {None}) \X Nat]
      /\ seen'[r] = <<sortedList, version[sortedList]>> /\ \A q \in Requests \ {r} : seen'[q] = seen[q]
  BY <1>1, <1>2 DEF MoviesInv, Sound, TypeOK
<1>4. Sound'
  BY <1>1, <1>2, <1>3 DEF MoviesInv, Sound, TypeOK, Steps, Listing, history
<1>5. r \in Busy /\ r \in Busy' /\ pc'[r] = "render" /\ \A q \in Requests \ {r} : pc'[q] = pc[q]
  BY <1>1 DEF MoviesInv, Sound, TypeOK, Busy, Listing
<1>6. Serial => Making(r)' /\ Made(r)'
  BY <1>1, <1>3, <1>5 DEF Serial, Making, Made, Flagged, Listing
<1> QED
  BY <1>1, <1>4, <1>5, <1>6, ListingStep

\* The whole list is on the page.
LEMMA RenderStep ==
    ASSUME MoviesInv, NEW r \in Requests, Render(r)
    PROVE  MoviesInv'
<1>1. /\ pc[r] = "render" /\ pc' = [pc EXCEPT ![r] = "done"]
      /\ page' = [page EXCEPT ![r] = list[seen[r][1]]]
      /\ seen' = [seen EXCEPT ![r] = <<None, 0>>]
      /\ UNCHANGED <<kind, left, sortedList, isShow, list, version, found, overlap, lost>>
  BY DEF Render, Goto, statics, lists, history
<1>2. list[seen[r][1]] \in [Kinds -> Nat] /\ kind[r] \in Kinds
  BY <1>1 DEF MoviesInv, Sound, TypeOK, Listing
<1>3. /\ page' \in [Requests -> [Kinds -> Nat]] /\ page'[r] = list[seen[r][1]]
      /\ \A q \in Requests \ {r} : page'[q] = page[q]
  BY <1>1, <1>2 DEF MoviesInv, Sound, TypeOK
<1>4. seen' \in [Requests -> (Requests \cup {None}) \X Nat] /\ \A q \in Requests \ {r} : seen'[q] = seen[q]
  BY <1>1 DEF MoviesInv, Sound, TypeOK
<1>5. Sound'
  BY <1>1, <1>3, <1>4 DEF MoviesInv, Sound, TypeOK, Steps, Listing, history
<1>6. r \in Busy /\ pc'[r] = "done" /\ \A q \in Requests \ {r} : pc'[q] = pc[q]
  BY <1>1 DEF MoviesInv, Sound, TypeOK, Busy, Listing
<1>7. ASSUME Serial PROVE Making(r)' /\ Made(r)' /\ Ready'
  <2>1. /\ seen[r] = <<r, version[r]>> /\ sortedList = r /\ list[r] = Whole(kind[r])
        /\ kind[r] = Flagged
    BY <1>1, <1>7 DEF Serial, Making, Listing
  <2>2. page'[r] = Whole(kind[r])
    BY <1>3, <2>1
  <2> QED
    BY <1>1, <1>2, <1>6, <2>1, <2>2 DEF Making, Made, Ready, Flagged, Listing
<1> QED
  BY <1>1, <1>3, <1>5, <1>6, <1>7, ListingStep

\* A request fails: a catalogue request is lost then, and a search leaves nothing.
LEMMA ThrowStep ==
    ASSUME MoviesInv, NEW r \in Requests, pc[r] \in Listing \cup {"find"}, Throw(r),
           UNCHANGED <<kind, sortedList, isShow, list, version, page, found, overlap>>
    PROVE  MoviesInv'
<1>1. /\ pc' = [pc EXCEPT ![r] = "failed"] /\ lost' = (lost \/ kind[r] # None)
      /\ left' = [left EXCEPT ![r] = 0] /\ seen' = [seen EXCEPT ![r] = <<None, 0>>]
  BY DEF Throw, Goto
<1>2. seen' \in [Requests -> (Requests \cup {None}) \X Nat] /\ \A q \in Requests \ {r} : seen'[q] = seen[q]
  BY <1>1 DEF MoviesInv, Sound, TypeOK
<1>3. Sound'
  <2>1. history' \in BOOLEAN \X BOOLEAN
    BY <1>1 DEF MoviesInv, Sound, TypeOK, history
  <2>2. /\ pc' \in [Requests -> Steps] /\ left' \in [Requests -> 0 .. Items] /\ pc'[r] = "failed"
        /\ \A q \in Requests \ {r} : pc'[q] = pc[q] /\ left'[q] = left[q]
    BY <1>1 DEF MoviesInv, Sound, TypeOK, Steps
  <2> QED
    BY <1>1, <1>2, <2>1, <2>2 DEF MoviesInv, Sound, TypeOK, Listing
<1>4. pc'[r] = "failed" /\ \A q \in Requests \ {r} : pc'[q] = pc[q]
  BY <1>1 DEF MoviesInv, Sound, TypeOK
<1>5. Making(r)' /\ Made(r)'
  BY <1>4 DEF Making, Made, Listing
<1>6. CASE pc[r] \in Listing
  <2>1. r \in Busy /\ lost'
    BY <1>1, <1>6, NoneAssumption DEF MoviesInv, Sound, Busy
  <2> QED
    BY <1>1, <1>3, <1>4, <1>5, <2>1, ListingStep DEF Ready
<1>7. CASE pc[r] = "find"
  <2>1. kind[r] = None /\ lost' = lost
    BY <1>1, <1>7 DEF MoviesInv, Sound, TypeOK, history
  <2>2. ASSUME Serial PROVE Serial'
    <3>1. Busy = {}
      BY <1>7, <2>2 DEF Serial, Lone, Busy, Searching, Listing
    <3>2. Busy' = {}
      BY <1>4, <3>1 DEF Busy, Listing
    <3>3. \A q \in Requests \ {r} : Making(q)' /\ Made(q)'
      BY <1>4, <2>1, <2>2, <3>1, OthersMade DEF Busy, MoviesInv
    <3>4. Ready'
      BY <2>1, <2>2, <3>1 DEF Serial, Ready, Flagged
    <3> QED
      BY <1>5, <3>2, <3>3, <3>4 DEF Serial, Lone
  <2> QED
    BY <1>3, <2>2 DEF MoviesInv
<1> QED
  BY <1>6, <1>7

\* A search beside a catalogue request spoils the rest.
LEMMA StartSearchStep ==
    ASSUME MoviesInv, NEW r \in Requests, StartSearch(r)
    PROVE  MoviesInv'
<1>1. /\ pc[r] = "idle" /\ pc' = [pc EXCEPT ![r] = "flag"]
      /\ overlap' = (overlap \/ Busy # {})
      /\ UNCHANGED <<kind, left, sortedList, isShow, list, version, seen, page, found, lost>>
  BY DEF StartSearch, Goto, statics, lists
<1>2. Sound'
  BY <1>1 DEF MoviesInv, Sound, TypeOK, Steps, Listing, history
<1>3. ASSUME ~overlap' PROVE Serial'
  <2>1. Serial /\ Busy = {}
    BY <1>1, <1>3 DEF MoviesInv
  <2>2. pc'[r] = "flag" /\ \A q \in Requests \ {r} : pc'[q] = pc[q]
    BY <1>1 DEF MoviesInv, Sound, TypeOK
  <2>3. \A q \in Requests \ {r} : Making(q)' /\ Made(q)'
    BY <1>1, <2>1, <2>2, OthersMade DEF Busy, MoviesInv
  <2>4. Making(r)' /\ Made(r)' /\ Busy' = {}
    BY <2>1, <2>2 DEF Making, Made, Busy, Listing
  <2>5. Ready'
    BY <1>1, <2>1 DEF Serial, Ready, Flagged
  <2> QED
    BY <2>3, <2>4, <2>5 DEF Serial, Lone
<1> QED
  BY <1>2, <1>3 DEF MoviesInv

\* The flag is the list's, while nobody is at a catalogue.
LEMMA ReadFlagStep ==
    ASSUME MoviesInv, NEW r \in Requests, ReadFlag(r)
    PROVE  MoviesInv'
<1>1. /\ pc[r] = "flag" /\ pc' = [pc EXCEPT ![r] = "find"]
      /\ found' = [found EXCEPT ![r] = IF isShow THEN "shows" ELSE "movies"]
      /\ UNCHANGED <<kind, left, sortedList, isShow, list, version, seen, page, overlap, lost>>
  BY DEF ReadFlag, Goto, statics, lists, history
<1>2. Sound'
  BY <1>1 DEF MoviesInv, Sound, TypeOK, Steps, Listing, history
<1>3. ASSUME Serial PROVE Serial'
  <2>1. Busy = {}
    BY <1>1, <1>3 DEF Serial, Lone, Busy, Searching, Listing
  <2>2. /\ pc'[r] = "find" /\ found'[r] = Flagged
        /\ \A q \in Requests \ {r} : pc'[q] = pc[q] /\ found'[q] = found[q]
    BY <1>1 DEF MoviesInv, Sound, TypeOK, Flagged
  <2>3. \A q \in Requests \ {r} : Making(q)' /\ Made(q)'
    BY <1>1, <1>3, <2>1, <2>2, OthersMade DEF Busy, MoviesInv
  <2>4. Making(r)' /\ Made(r)' /\ Busy' = {}
    BY <1>1, <2>1, <2>2 DEF Making, Made, Busy, Listing, Flagged
  <2>5. Ready'
    BY <1>1, <1>3, <2>1 DEF Serial, Ready, Flagged
  <2> QED
    BY <2>3, <2>4, <2>5 DEF Serial, Lone
<1> QED
  BY <1>1, <1>2, <1>3 DEF MoviesInv

\* The list is the one the flag speaks of.
LEMMA FindStep ==
    ASSUME MoviesInv, NEW r \in Requests, Find(r)
    PROVE  MoviesInv'
<1>1. /\ pc[r] = "find" /\ sortedList # None /\ pc' = [pc EXCEPT ![r] = "done"]
      /\ page' = [page EXCEPT ![r] = list[sortedList]]
      /\ UNCHANGED <<kind, left, sortedList, isShow, list, version, seen, found, overlap, lost>>
  BY DEF Find, Goto, statics, lists, history
<1>2. list[sortedList] \in [Kinds -> Nat]
  BY <1>1 DEF MoviesInv, Sound, TypeOK
<1>3. /\ page' \in [Requests -> [Kinds -> Nat]] /\ page'[r] = list[sortedList]
      /\ \A q \in Requests \ {r} : page'[q] = page[q]
  BY <1>1, <1>2 DEF MoviesInv, Sound, TypeOK
<1>4. Sound'
  BY <1>1, <1>3 DEF MoviesInv, Sound, TypeOK, Steps, Listing, history
<1>5. ASSUME Serial PROVE Serial'
  <2>1. Busy = {}
    BY <1>1, <1>5 DEF Serial, Lone, Busy, Searching, Listing
  <2>2. pc'[r] = "done" /\ \A q \in Requests \ {r} : pc'[q] = pc[q]
    BY <1>1 DEF MoviesInv, Sound, TypeOK
  <2>3. \A q \in Requests \ {r} : Making(q)' /\ Made(q)'
    BY <1>1, <1>3, <1>5, <2>1, <2>2, OthersMade DEF Busy, MoviesInv
  <2>4. kind[r] = None /\ found[r] = Flagged
    BY <1>1, <1>5 DEF MoviesInv, Sound, Serial, Made
  <2>5. ~lost => page'[r] = Whole(found[r])
    BY <1>1, <1>3, <1>5, <2>1, <2>4 DEF Serial, Ready
  <2>6. Making(r)' /\ Made(r)' /\ Busy' = {}
    BY <1>1, <2>1, <2>2, <2>4, <2>5 DEF Making, Made, Busy, Listing
  <2>7. Ready'
    BY <1>1, <1>5, <2>1 DEF Serial, Ready, Flagged
  <2> QED
    BY <2>3, <2>6, <2>7 DEF Serial, Lone
<1> QED
  BY <1>1, <1>4, <1>5 DEF MoviesInv

\* Every step keeps the invariant.
LEMMA MoviesNext == MoviesInv /\ [Next]_vars => MoviesInv'
<1> SUFFICES ASSUME MoviesInv, [Next]_vars PROVE MoviesInv'
  OBVIOUS
<1>1. CASE UNCHANGED vars
  BY <1>1 DEF vars, MoviesInv, Sound, TypeOK, history, Serial, Lone, Ready, Making, Made, Busy,
              Searching, Flagged
<1>2. ASSUME NEW r \in Requests, GetListOfMovies(r) \/ GetListOfShows(r) PROVE MoviesInv'
  BY <1>2, StartListStep DEF GetListOfMovies, GetListOfShows
<1>3. ASSUME NEW r \in Requests,
             FetchThrows(r) \/ AddThrows(r) \/ SortThrows(r) \/ RenderThrows(r) \/ FindThrows(r)
      PROVE  MoviesInv'
  <2>1. /\ pc[r] \in Listing \cup {"find"} /\ Throw(r)
        /\ UNCHANGED <<kind, sortedList, isShow, list, version, page, found, overlap>>
    BY <1>3 DEF FetchThrows, AddThrows, SortThrows, RenderThrows, FindThrows, statics, lists, Listing
  <2> QED
    BY <2>1, ThrowStep
<1>4. ASSUME NEW r \in Requests, GetMainList(r) PROVE MoviesInv'
  BY <1>3, <1>4, FetchStep, NewListStep, AddStep, SortStep, BeginRenderStep, RenderStep DEF GetMainList
<1>5. ASSUME NEW r \in Requests, StartSearch(r) \/ Searchmovie(r) PROVE MoviesInv'
  BY <1>3, <1>5, StartSearchStep, ReadFlagStep, FindStep DEF Searchmovie
<1> QED
  BY <1>1, <1>2, <1>4, <1>5 DEF Next

-----------------------------------------------------------------------------
\* The theorems.

\* For any requests and titles: the page of a catalogue has every title of its kind
\* once, and what a search finds is of the kind it links to, unless a catalogue
\* request ran beside another request, or one failed before the search.
THEOREM MoviesTheorem == Spec => []MoviesRight
BY MoviesInit, MoviesNext, MoviesHold, PTL DEF Spec

\* The variables of the catalogue keep their types, however many requests meet.
THEOREM MoviesType == Spec => []TypeOK
<1>1. MoviesInv => TypeOK
  BY DEF MoviesInv, Sound
<1> QED
  BY <1>1, MoviesInit, MoviesNext, PTL DEF Spec

\* The other lists leave the catalogue alone.
LEMMA EitherIsSpec == SpecEither => Spec
<1>1. InitEither => Init
  BY DEF InitEither
<1>2. [NextEither]_<<subject, vars, fanoutVars, linksVars, m3uVars>> => [Next]_vars
  BY DEF NextEither
<1> QED
  BY <1>1, <1>2, PTL DEF SpecEither, Spec

\* So it holds beside them.
THEOREM ListsTheorem == SpecEither => []MoviesRight
BY EitherIsSpec, MoviesTheorem, PTL

-----------------------------------------------------------------------------
\* The pages of a site.  What a task puts in the dictionary alone stays there:
\* only Adds that ran at the same time lose anything, and only of each other.

\* The tasks that have ended, and those of them whose Add was alone.
DoneTasks == {t \in Fanout!Pages : task[t] = "done"}
Calm      == DoneTasks \ Fanout!Raced

FanoutType ==
    /\ started \in 0 .. LastPage
    /\ task \in [Fanout!Pages -> {"none", "request", "add", "adding", "done", "failed", "stuck"}]
    /\ elements \subseteq DoneTasks
    /\ count \in Nat
    /\ over \in [Fanout!Pages -> SUBSET Fanout!Pages]
    /\ saw \in [Fanout!Pages -> Nat]

\* Who ran at the same time as another, the other ran at the same time as it.
Meetings ==
    /\ \A t \in Fanout!Pages : t > started => task[t] = "none"
    /\ \A t \in Fanout!Pages : task[t] \in {"none", "request", "add"} => over[t] = {}
    /\ \A t \in Fanout!Pages : \A j \in over[t] : over[j] # {}
    /\ \A t \in Fanout!Adding : over[t] = {} => Fanout!Adding = {t}

\* Count is not short of the calm pages, not even where an Add writes back what
\* it read when it began, and is ahead of them once others have ended.
Counting ==
    /\ Calm \subseteq elements
    /\ count >= Cardinality(Calm) /\ count <= Cardinality(DoneTasks)
    /\ Fanout!Raced \intersect DoneTasks # {} => count > Cardinality(Calm)
    /\ \A t \in Fanout!Adding : saw[t] >= Cardinality(Calm)
    /\ ~Fanout!Spoiled => elements = DoneTasks /\ count = Cardinality(DoneTasks)

Answering ==
    answer = "page" => DoneTasks = Fanout!Pages /\ shown = (1 .. count - 1) \intersect elements

FanoutInv == FanoutType /\ Meetings /\ Counting /\ Answering

USE ListsAssumption DEF Fanout!LastAssumption

\* The instance's Cardinality is the one of FiniteSetTheorems.
LEMMA FanoutCardinality == ASSUME NEW S PROVE Fanout!Cardinality(S) = Cardinality(S)
BY Zenon DEF Fanout!Cardinality, Cardinality

\* Sets of pages are finite.
LEMMA PagesFinite ==
    ASSUME NEW S \in SUBSET Fanout!Pages
    PROVE  IsFiniteSet(S) /\ Cardinality(S) \in Nat /\ Cardinality(S) <= LastPage
<1>1. IsFiniteSet(Fanout!Pages) /\ Cardinality(Fanout!Pages) = LastPage
  BY FS_Interval DEF Fanout!Pages
<1> QED
  BY <1>1, FS_Subset, FS_CardinalityType

\* The invariant holds before the first task is started.
LEMMA FanoutInit == Fanout!Init => FanoutInv
<1> SUFFICES ASSUME Fanout!Init PROVE FanoutInv
  OBVIOUS
<1>1. DoneTasks = {} /\ Fanout!Adding = {} /\ Fanout!Raced = {} /\ Calm = {}
  BY DEF Fanout!Init, DoneTasks, Fanout!Adding, Fanout!Raced, Calm
<1> QED
  BY <1>1, FS_EmptySet DEF Fanout!Init, FanoutInv, FanoutType, Meetings, Counting, Answering, Fanout!Spoiled

\* A task that neither begins nor ends an Add changes nothing that counts.
LEMMA TaskMoves ==
    ASSUME FanoutInv, NEW t \in Fanout!Pages, NEW step \in {"request", "add", "failed", "stuck"},
           Fanout!Goto(t, step), task[t] # "done",
           \/ task[t] = "none" /\ step = "request" /\ t = started + 1 /\ started' = t
           \/ task[t] # "none" /\ started' = started,
           step \in {"request", "add"} => task[t] \in {"none", "request"},
           Fanout!Untouched, Fanout!Unanswered
    PROVE  FanoutInv'
<1>1. /\ task' = [task EXCEPT ![t] = step]
      /\ UNCHANGED <<elements, count, over, saw, answer, shown>>
  BY DEF Fanout!Goto, Fanout!Untouched, Fanout!Unanswered
<1>2. DoneTasks' = DoneTasks /\ Fanout!Raced' = Fanout!Raced /\ Calm' = Calm
  BY <1>1 DEF FanoutInv, FanoutType, DoneTasks, Calm, Fanout!Raced
<1>3. Fanout!Adding' \subseteq Fanout!Adding
  BY <1>1 DEF FanoutInv, FanoutType, Fanout!Adding
<1>4. FanoutType'
  BY <1>1, <1>2 DEF FanoutInv, FanoutType, Fanout!Pages
<1>5. Meetings'
  BY <1>1, <1>3 DEF FanoutInv, FanoutType, Meetings, Fanout!Pages
<1>6. Counting' /\ Answering'
  BY <1>1, <1>2, <1>3 DEF FanoutInv, Counting, Answering, Fanout!Spoiled
<1> QED
  BY <1>4, <1>5, <1>6 DEF FanoutInv

\* An Add begins: it meets the ones under way.
LEMMA BeginAddStep ==
    ASSUME FanoutInv, NEW t \in Fanout!Pages, Fanout!BeginAdd(t)
    PROVE  FanoutInv'
<1>1. /\ task[t] = "add" /\ task' = [task EXCEPT ![t] = "adding"]
      /\ over' = [j \in Fanout!Pages |-> IF j = t THEN Fanout!Adding
                     ELSE IF j \in Fanout!Adding THEN over[j] \union {t} ELSE over[j]]
      /\ saw' = [saw EXCEPT ![t] = count]
      /\ UNCHANGED <<started, elements, count, answer, shown>>
  BY DEF Fanout!BeginAdd, Fanout!Goto, Fanout!Unanswered
<1>2. DoneTasks' = DoneTasks /\ t \notin DoneTasks /\ t \notin Fanout!Adding
  BY <1>1 DEF FanoutInv, FanoutType, DoneTasks, Fanout!Adding
<1>3. Fanout!Adding' = Fanout!Adding \union {t} /\ Fanout!Adding \subseteq Fanout!Pages
  BY <1>1 DEF FanoutInv, FanoutType, Fanout!Adding
<1>4. Fanout!Adding \intersect DoneTasks = {}
  BY DEF Fanout!Adding, DoneTasks
<1>5. Fanout!Raced \subseteq Fanout!Raced' /\ Fanout!Raced' \subseteq Fanout!Raced \union Fanout!Adding'
  BY <1>1, <1>3 DEF FanoutInv, FanoutType, Meetings, Fanout!Raced
<1>6. Calm' = Calm /\ Fanout!Raced' \intersect DoneTasks' = Fanout!Raced \intersect DoneTasks
  BY <1>2, <1>3, <1>4, <1>5 DEF Calm
<1>7. FanoutType'
  BY <1>1, <1>2, <1>3 DEF FanoutInv, FanoutType
<1>8. Meetings'
  <2>1. over[t] = {} /\ \A j \in Fanout!Pages : t \notin over[j]
    BY <1>1 DEF FanoutInv, Meetings
  <2>2. \A j \in Fanout!Pages : \A k \in over'[j] : over'[k] # {}
    BY <1>1, <1>3, <2>1 DEF FanoutInv, FanoutType, Meetings
  <2>3. \A j \in Fanout!Adding' : over'[j] = {} => Fanout!Adding' = {j}
    BY <1>1, <1>3
  <2>4. \A j \in Fanout!Pages : task'[j] \in {"none", "request", "add"} => over'[j] = {}
    BY <1>1, <1>3 DEF FanoutInv, FanoutType, Meetings, Fanout!Adding
  <2>5. \A j \in Fanout!Pages : j > started' => task'[j] = "none"
    BY <1>1 DEF FanoutInv, FanoutType, Meetings
  <2> QED
    BY <2>2, <2>3, <2>4, <2>5 DEF Meetings
<1>9. Counting'
  <2>1. \A j \in Fanout!Adding' : saw'[j] >= Cardinality(Calm')
    BY <1>1, <1>3, <1>6 DEF FanoutInv, FanoutType, Counting
  <2>2. Fanout!Spoiled => Fanout!Spoiled'
    BY <1>5 DEF Fanout!Spoiled
  <2> QED
    BY <1>1, <1>2, <1>6, <2>1, <2>2 DEF FanoutInv, Counting
<1>10. Answering'
  BY <1>1, <1>2 DEF FanoutInv, Answering
<1> QED
  BY <1>7, <1>8, <1>9, <1>10 DEF FanoutInv

\* An Add ends.  What it loses is in Raced.
LEMMA EndAddStep ==
    ASSUME FanoutInv, NEW t \in Fanout!Pages, Fanout!EndAdd(t)
    PROVE  FanoutInv'
<1> DEFINE alone == over[t] = {}
<1>1. /\ task[t] = "adding" /\ task' = [task EXCEPT ![t] = "done"]
      /\ count' \in IF alone THEN {count + 1} ELSE saw[t] + 1 .. count + 1
      /\ over' = [over EXCEPT ![t] = IF alone THEN {} ELSE {t}]
      /\ saw' = [saw EXCEPT ![t] = 0]
      /\ UNCHANGED <<started, answer, shown>>
  BY DEF Fanout!EndAdd, Fanout!Goto, Fanout!Unanswered, FanoutInv, FanoutType
<1>2. PICK gone \in SUBSET (IF alone THEN {} ELSE over[t] \union {t}) :
           elements' = (elements \union {t}) \ gone
  BY DEF Fanout!EndAdd
<1>3. DoneTasks' = DoneTasks \union {t} /\ t \notin DoneTasks /\ t \in Fanout!Adding
  BY <1>1 DEF FanoutInv, FanoutType, DoneTasks, Fanout!Adding
<1>4. Fanout!Adding' = Fanout!Adding \ {t}
  BY <1>1 DEF FanoutInv, FanoutType, Fanout!Adding
<1>5. Fanout!Raced' = Fanout!Raced /\ (alone <=> t \notin Fanout!Raced)
  BY <1>1 DEF FanoutInv, FanoutType, Fanout!Raced
<1>6. gone \subseteq Fanout!Raced /\ (alone => gone = {})
  BY <1>2, <1>5 DEF FanoutInv, FanoutType, Meetings, Fanout!Raced
<1>7. Calm' = IF alone THEN Calm \union {t} ELSE Calm
  BY <1>3, <1>5 DEF Calm
<1>8. /\ Cardinality(Calm) \in Nat /\ t \notin Calm /\ Cardinality(DoneTasks) \in Nat
      /\ Cardinality(Calm \union {t}) = Cardinality(Calm) + 1
      /\ Cardinality(DoneTasks \union {t}) = Cardinality(DoneTasks) + 1
  BY <1>3, PagesFinite, FS_AddElement DEF Calm, DoneTasks
<1>9. FanoutType'
  <2>1. count' \in Nat
    BY <1>1 DEF FanoutInv, FanoutType
  <2>2. elements' \subseteq DoneTasks'
    BY <1>2, <1>3 DEF FanoutInv, FanoutType
  <2> QED
    BY <1>1, <2>1, <2>2 DEF FanoutInv, FanoutType
<1>10. Meetings'
  <2>1. \A j \in Fanout!Pages : \A k \in over'[j] : over'[k] # {}
    BY <1>1 DEF FanoutInv, FanoutType, Meetings
  <2>2. \A j \in Fanout!Adding' : over'[j] = {} => Fanout!Adding' = {j}
    BY <1>1, <1>3, <1>4 DEF FanoutInv, FanoutType, Meetings
  <2>3. \A j \in Fanout!Pages : task'[j] \in {"none", "request", "add"} => over'[j] = {}
    BY <1>1 DEF FanoutInv, FanoutType, Meetings
  <2>4. \A j \in Fanout!Pages : j > started' => task'[j] = "none"
    BY <1>1 DEF FanoutInv, FanoutType, Meetings
  <2> QED
    BY <2>1, <2>2, <2>3, <2>4 DEF Meetings
<1>11. Counting'
  <2>1. Calm' \subseteq elements'
    BY <1>2, <1>6, <1>7 DEF FanoutInv, Counting, Calm
  <2>2. CASE alone
    <3>1. count' = count + 1 /\ Fanout!Adding' = {} /\ elements' = elements \union {t}
      BY <1>1, <1>2, <1>3, <1>4, <1>6, <2>2 DEF FanoutInv, Meetings
    <3>2. count' >= Cardinality(Calm')
      BY <3>1, <1>7, <1>8, <2>2 DEF FanoutInv, FanoutType, Counting
    <3>3. Fanout!Raced' \intersect DoneTasks' # {} => count' > Cardinality(Calm')
      BY <3>1, <1>3, <1>5, <1>7, <1>8, <2>2 DEF FanoutInv, FanoutType, Counting
    <3>4. ~Fanout!Spoiled' => elements' = DoneTasks' /\ count' = Cardinality(DoneTasks')
      BY <3>1, <1>3, <1>5, <1>8 DEF FanoutInv, Counting, Fanout!Spoiled
    <3>5. count' <= Cardinality(DoneTasks')
      BY <3>1, <1>3, <1>8, <2>2 DEF FanoutInv, FanoutType, Counting
    <3> QED
      BY <2>1, <3>1, <3>2, <3>3, <3>4, <3>5 DEF Counting
  <2>3. CASE ~alone
    <3>1. count' > Cardinality(Calm') /\ Fanout!Spoiled'
      BY <1>1, <1>3, <1>5, <1>7, <1>8, <2>3 DEF FanoutInv, FanoutType, Counting, Fanout!Spoiled
    <3>2. \A j \in Fanout!Adding' : saw'[j] >= Cardinality(Calm')
      BY <1>1, <1>4, <1>7, <2>3 DEF FanoutInv, FanoutType, Counting, Fanout!Adding
    <3>3. count' \in Nat /\ Cardinality(Calm') \in Nat
      BY <1>7, <1>8, <1>9, <2>3 DEF FanoutType
    <3>4. count' <= Cardinality(DoneTasks')
      BY <1>1, <1>3, <1>8, <1>9, <2>3 DEF FanoutInv, FanoutType, Counting
    <3> QED
      BY <2>1, <3>1, <3>2, <3>3, <3>4 DEF Counting
  <2> QED
    BY <2>2, <2>3
<1>12. Answering'
  <2>1. t \notin DoneTasks /\ t \in Fanout!Pages
    BY <1>3
  <2> QED
    BY <1>1, <2>1 DEF FanoutInv, Answering
<1> QED
  BY <1>9, <1>10, <1>11, <1>12 DEF FanoutInv

\* The invariant is kept by every step.
LEMMA FanoutNext == FanoutInv /\ [Fanout!Next]_(Fanout!vars) => FanoutInv'
<1> SUFFICES ASSUME FanoutInv, [Fanout!Next]_(Fanout!vars) PROVE FanoutInv'
  OBVIOUS
<1>1. CASE UNCHANGED Fanout!vars
  BY <1>1 DEF Fanout!vars, FanoutInv, FanoutType, Meetings, Counting, Answering, DoneTasks, Calm,
              Fanout!Adding, Fanout!Raced, Fanout!Spoiled
<1>2. CASE Fanout!Start
  <2>1. started + 1 \in Fanout!Pages /\ task[started + 1] = "none"
    BY <1>2 DEF Fanout!Start, FanoutInv, FanoutType, Meetings, Fanout!Pages
  <2> QED
    BY <1>2, <2>1, TaskMoves DEF Fanout!Start
<1>3. CASE Fanout!Assemble \/ Fanout!AssembleHangs
  <2>1. UNCHANGED <<started, task, elements, count, over, saw>>
    BY <1>3 DEF Fanout!Assemble, Fanout!AssembleHangs, Fanout!Untouched
  <2>2. (FanoutType /\ Meetings /\ Counting)'
    BY <2>1 DEF FanoutInv, FanoutType, Meetings, Counting, DoneTasks, Calm,
                Fanout!Adding, Fanout!Raced, Fanout!Spoiled
  <2>3. Answering'
    BY <1>3, <2>1 DEF Fanout!Assemble, Fanout!AssembleHangs, Fanout!Assembled, Fanout!Ended,
                      Answering, DoneTasks
  <2> QED
    BY <2>2, <2>3 DEF FanoutInv
<1>4. ASSUME NEW t \in Fanout!Pages, Fanout!Task(t) PROVE FanoutInv'
  <2>1. CASE Fanout!Request(t) \/ Fanout!RequestThrows(t)
    BY <2>1, TaskMoves DEF Fanout!Request, Fanout!RequestThrows
  <2>2. CASE Fanout!DictionaryFails(t)
    BY <2>2, TaskMoves DEF Fanout!DictionaryFails
  <2> QED
    BY <1>4, <2>1, <2>2, BeginAddStep, EndAddStep DEF Fanout!Task
<1> QED
  BY <1>1, <1>2, <1>3, <1>4 DEF Fanout!Next, Fanout!GetContent

\* The pages that are shown are all but the last, or short of what the races cost.
LEMMA FanoutHolds == FanoutInv => Fanout!WholeWhenQuiet /\ Fanout!LossBounded
<1> SUFFICES ASSUME FanoutInv, answer = "page"
             PROVE  Fanout!WholeWhenQuiet /\ Fanout!LossBounded
  BY Zenon DEF Fanout!WholeWhenQuiet, Fanout!LossBounded
<1> DEFINE R == Fanout!Raced
           Loop == 1 .. count - 1
<1>1. DoneTasks = Fanout!Pages /\ shown = Loop \intersect elements /\ count \in Nat
  BY DEF FanoutInv, Answering, FanoutType
<1>2. /\ IsFiniteSet(Fanout!Pages) /\ Cardinality(Fanout!Pages) = LastPage
      /\ IsFiniteSet(Loop) /\ Cardinality(Loop) = IF count = 0 THEN 0 ELSE count - 1
  BY <1>1, FS_Interval DEF Fanout!Pages
<1>3. ~Fanout!Spoiled => shown = 1 .. LastPage - 1
  BY <1>1, <1>2 DEF FanoutInv, Counting, Fanout!Pages
<1>4. R \subseteq Fanout!Pages /\ Calm = Fanout!Pages \ R
  BY <1>1 DEF Fanout!Raced, Calm
<1>5. /\ IsFiniteSet(R) /\ Cardinality(R) \in Nat /\ IsFiniteSet(Calm)
      /\ Cardinality(Calm) = LastPage - Cardinality(R)
  BY <1>2, <1>4, PagesFinite, FS_Difference, Fanout!Pages \intersect R = R
<1>6. ASSUME Fanout!Spoiled PROVE Cardinality(shown) + 2 * Cardinality(R) >= LastPage
  <2>1. count > LastPage - Cardinality(R)
    BY <1>1, <1>4, <1>5, <1>6 DEF FanoutInv, Counting, Fanout!Spoiled
  <2>2. Cardinality(R) <= LastPage /\ Cardinality(Loop) = count - 1
    BY <1>1, <1>2, <1>4, <2>1, PagesFinite
  <2>3. Loop \subseteq shown \union R
    <3>1. \A k \in Loop : k \in Fanout!Pages
      <4>1. count <= LastPage
        BY <1>1, <1>2 DEF FanoutInv, Counting
      <4> QED
        BY <1>1, <4>1 DEF Fanout!Pages
    <3>2. Calm \subseteq elements
      BY DEF FanoutInv, Counting
    <3> QED
      BY <1>1, <1>4, <3>1, <3>2
  <2>4. IsFiniteSet(shown) /\ Cardinality(shown) \in Nat
    BY <1>1, <1>2, FS_Subset, FS_CardinalityType
  <2>5. /\ IsFiniteSet(shown \union R) /\ Cardinality(shown \union R) \in Nat
        /\ Cardinality(shown \union R) <= Cardinality(shown) + Cardinality(R)
    <3>1. /\ IsFiniteSet(shown \union R) /\ IsFiniteSet(shown \intersect R)
          /\ Cardinality(shown \union R) =
               Cardinality(shown) + Cardinality(R) - Cardinality(shown \intersect R)
      BY <1>5, <2>4, FS_Union, FS_Intersection
    <3>2. Cardinality(shown \intersect R) \in Nat /\ Cardinality(shown \union R) \in Nat
      BY <3>1, FS_CardinalityType
    <3> QED
      BY <1>5, <2>4, <3>1, <3>2
  <2>6. Cardinality(Loop) <= Cardinality(shown \union R)
    BY <2>3, <2>5, FS_Subset
  <2> QED
    BY <1>1, <1>5, <2>1, <2>2, <2>4, <2>5, <2>6
<1>7. /\ Fanout!Cardinality(shown) = Cardinality(shown)
      /\ Fanout!Cardinality(Fanout!Raced) = Cardinality(R)
  BY FanoutCardinality
<1> QED
  BY <1>3, <1>6, <1>7 DEF Fanout!WholeWhenQuiet, Fanout!LossBounded

-----------------------------------------------------------------------------
\* The buttons of a page that plays something.

\* What a film's page, an episode's, or one of the other site has so far.
FilmSoFar ==
    Len(link) <= frames /\ Pages!Addresses = {} /\ buttons = <<>>

EpisodeSoFar ==
    /\ Len(link) <= frames
    /\ Pages!ButtonsFor(Pages!Texts)
    /\ thrown = Cardinality(Pages!Throws)

GoSoFar ==
    /\ thrown = Len(link) /\ thrown <= LastCount + 1
    /\ \A p \in 1 .. Len(link) : link[p] = "throws"

LinksInv ==
    /\ method \in {"film", "episode", "go"}
    /\ stage \in {"load", "look", "done", "error"}
    /\ frames \in Nat /\ thrown \in Nat
    /\ link \in Seq(Pages!Links) /\ buttons \in Seq(Nat)
    /\ stage \in {"load", "look"} =>
          /\ method = "film" => FilmSoFar
          /\ method = "episode" => EpisodeSoFar
          /\ method = "go" => GoSoFar
    /\ method = "go" => Len(link) <= LastCount + 2
    /\ Pages!LinksRight

USE DEF Pages!LinksAssumption

\* The invariant holds when the page is asked for.
LEMMA LinksInit == Pages!Init => LinksInv
<1> SUFFICES ASSUME Pages!Init PROVE LinksInv
  OBVIOUS
<1>1. /\ link = <<>> /\ buttons = <<>> /\ thrown = 0 /\ stage = "load"
      /\ frames \in Nat /\ method \in {"film", "episode", "go"}
  BY DEF Pages!Init
<1>2. /\ link \in Seq(Pages!Links) /\ Len(link) = 0
      /\ buttons \in Seq(Nat) /\ Len(buttons) = 0
  BY <1>1
<1>3. Pages!Addresses = {} /\ Pages!Texts = {} /\ Pages!Throws = {}
  BY <1>2 DEF Pages!Addresses, Pages!Texts, Pages!Nulls, Pages!Throws, Pages!Places
<1>4. EpisodeSoFar
  BY <1>1, <1>2, <1>3, FS_EmptySet DEF EpisodeSoFar, Pages!ButtonsFor, Pages!ToSet
<1>5. Pages!LinksRight
  BY <1>1, <1>2 DEF Pages!LinksRight, Pages!FilmPlays, Pages!EpisodePlays, Pages!GoPlays
<1> QED
  BY <1>1, <1>2, <1>3, <1>4, <1>5 DEF LinksInv, FilmSoFar, GoSoFar

\* One more answer of GetLink.
LEMMA OneMore ==
    ASSUME link \in Seq(Pages!Links), NEW l \in Pages!Links, link' = Append(link, l)
    PROVE  /\ link' \in Seq(Pages!Links) /\ Len(link') = Len(link) + 1 /\ Len(link) \in Nat
           /\ \A p \in 1 .. Len(link) : link'[p] = link[p]
           /\ link'[Len(link) + 1] = l
           /\ Pages!Addresses' = IF l = "address" THEN Pages!Addresses \union {Len(link) + 1} ELSE Pages!Addresses
           /\ Pages!Texts'  = IF l \in {"address", "empty"} THEN Pages!Texts \union {Len(link) + 1} ELSE Pages!Texts
           /\ Pages!Throws' = IF l = "throws" THEN Pages!Throws \union {Len(link) + 1} ELSE Pages!Throws
<1>1. /\ link' \in Seq(Pages!Links) /\ Len(link') = Len(link) + 1 /\ Len(link) \in Nat
      /\ \A p \in 1 .. Len(link) : link'[p] = link[p]
      /\ link'[Len(link) + 1] = l
  OBVIOUS
<1>2. 1 .. Len(link') = (1 .. Len(link)) \union {Len(link) + 1}
  BY <1>1
<1>3. Pages!Addresses' = IF l = "address" THEN Pages!Addresses \union {Len(link) + 1} ELSE Pages!Addresses
  BY <1>1, <1>2 DEF Pages!Addresses, Pages!Places
<1>4. Pages!Texts' = IF l \in {"address", "empty"} THEN Pages!Texts \union {Len(link) + 1} ELSE Pages!Texts
  BY <1>1, <1>2 DEF Pages!Texts, Pages!Places
<1>5. Pages!Throws' = IF l = "throws" THEN Pages!Throws \union {Len(link) + 1} ELSE Pages!Throws
  BY <1>1, <1>2 DEF Pages!Throws, Pages!Places
<1> QED
  BY <1>1, <1>3, <1>4, <1>5

\* A page with one button.
LEMMA OneButton ==
    ASSUME NEW x \in Nat
    PROVE  <<x>> \in Seq(Nat) /\ Len(<<x>>) = 1 /\ <<x>>[1] = x
OBVIOUS

\* The site's page is loaded.
LEMMA LoadStep == ASSUME LinksInv, Pages!Load PROVE LinksInv'
<1>1. /\ stage = "load" /\ stage' \in {"look", "error"}
      /\ UNCHANGED <<method, frames, link, thrown, buttons>>
  BY DEF Pages!Load
<1>2. Pages!Addresses' = Pages!Addresses /\ Pages!Texts' = Pages!Texts /\ Pages!Throws' = Pages!Throws /\ Pages!Nulls' = Pages!Nulls
  BY <1>1 DEF Pages!Addresses, Pages!Texts, Pages!Nulls, Pages!Throws, Pages!Places
<1>3. Pages!ButtonsFor(Pages!Texts)' <=> Pages!ButtonsFor(Pages!Texts)
  BY <1>1, <1>2 DEF Pages!ButtonsFor, Pages!ToSet
<1>4. Pages!LinksRight'
  BY <1>1 DEF LinksInv, Pages!LinksRight, Pages!FilmPlays, Pages!EpisodePlays, Pages!GoPlays
<1> QED
  BY <1>1, <1>2, <1>3, <1>4 DEF LinksInv, FilmSoFar, EpisodeSoFar, GoSoFar

\* A frame of a film.
LEMMA FilmStep == ASSUME LinksInv, Pages!FilmFrame \/ Pages!FilmEnds PROVE LinksInv'
<1>1. /\ method = "film" /\ stage = "look" /\ UNCHANGED <<method, frames, thrown>>
      /\ FilmSoFar /\ link \in Seq(Pages!Links) /\ buttons \in Seq(Nat)
  BY DEF Pages!FilmFrame, Pages!FilmEnds, LinksInv
<1>2. CASE Pages!FilmFrame
  <2>1. PICK l \in Pages!Links :
           /\ link' = Append(link, l)
           /\ IF l = "address" THEN buttons' = <<Len(link) + 1>> /\ stage' = "done"
              ELSE UNCHANGED <<buttons, stage>>
    BY <1>2 DEF Pages!FilmFrame, Pages!Frame
  <2>2. Len(link) + 1 <= frames
    BY <1>2 DEF Pages!FilmFrame, Pages!Frame
  <2>3. CASE l = "address"
    <3>1. Pages!Addresses' = {Len(link) + 1}
      BY <1>1, <2>1, <2>3, OneMore DEF FilmSoFar
    <3>2. buttons' \in Seq(Nat) /\ Len(buttons') = 1 /\ buttons'[1] = Len(link) + 1
      <4>1. Len(link) + 1 \in Nat /\ buttons' = <<Len(link) + 1>>
        BY <1>1, <2>1, <2>3
      <4> QED
        BY <4>1, OneButton
    <3>3. Pages!ButtonsFor(Pages!Addresses)'
      BY <3>1, <3>2 DEF Pages!ButtonsFor, Pages!ToSet
    <3>4. Pages!LinksRight'
      BY <1>1, <3>1, <3>2, <3>3 DEF Pages!LinksRight, Pages!FilmPlays, Pages!EpisodePlays, Pages!GoPlays
    <3> QED
      BY <1>1, <2>1, <2>3, <3>2, <3>4, OneMore DEF LinksInv
  <2>4. CASE l # "address"
    <3>1. FilmSoFar'
      BY <1>1, <2>1, <2>2, <2>4, OneMore DEF FilmSoFar
    <3>2. Pages!LinksRight'
      BY <1>1, <2>1, <2>4 DEF Pages!LinksRight, Pages!FilmPlays, Pages!EpisodePlays, Pages!GoPlays
    <3> QED
      BY <1>1, <2>1, <2>4, <3>1, <3>2, OneMore DEF LinksInv
  <2> QED
    BY <2>3, <2>4
<1>3. CASE Pages!FilmEnds
  <2>1. stage' = "done" /\ Len(link) = frames /\ UNCHANGED <<link, buttons>>
    BY <1>1, <1>3 DEF Pages!FilmEnds, Pages!Frame, FilmSoFar, LinksInv
  <2>2. Pages!Addresses' = {}
    BY <1>1, <2>1 DEF Pages!Addresses, Pages!Texts, Pages!Nulls, Pages!Throws, Pages!Places, FilmSoFar
  <2>3. Pages!LinksRight'
    BY <1>1, <2>1, <2>2 DEF FilmSoFar, Pages!LinksRight, Pages!FilmPlays, Pages!EpisodePlays, Pages!GoPlays
  <2> QED
    BY <1>1, <2>1, <2>3 DEF LinksInv
<1> QED
  BY <1>2, <1>3

\* A translation of an episode.
LEMMA TranslationStep == ASSUME LinksInv, Pages!Translation PROVE LinksInv'
<1>1. /\ method = "episode" /\ stage = "look" /\ UNCHANGED <<method, frames, stage>>
      /\ EpisodeSoFar /\ link \in Seq(Pages!Links) /\ buttons \in Seq(Nat) /\ thrown \in Nat
      /\ Len(link) + 1 <= frames
  BY DEF Pages!Translation, Pages!Frame, LinksInv
<1>2. PICK l \in Pages!Links :
         /\ link' = Append(link, l)
         /\ buttons' = IF l \in {"address", "empty"} THEN Append(buttons, Len(link) + 1) ELSE buttons
         /\ thrown' = IF l = "throws" THEN thrown + 1 ELSE thrown
  BY DEF Pages!Translation, Pages!Frame
<1>3. /\ link' \in Seq(Pages!Links) /\ Len(link') = Len(link) + 1 /\ Len(link) \in Nat
      /\ Pages!Texts'  = IF l \in {"address", "empty"} THEN Pages!Texts \union {Len(link) + 1} ELSE Pages!Texts
      /\ Pages!Throws' = IF l = "throws" THEN Pages!Throws \union {Len(link) + 1} ELSE Pages!Throws
  BY <1>1, <1>2, OneMore
<1>4. Pages!ButtonsFor(Pages!Texts)'
  <2>1. CASE l \in {"address", "empty"}
    <3>1. /\ buttons' = Append(buttons, Len(link) + 1) /\ Len(buttons') = Len(buttons) + 1
          /\ \A p \in 1 .. Len(buttons) : buttons'[p] = buttons[p]
          /\ buttons'[Len(buttons) + 1] = Len(link) + 1
          /\ Len(buttons) \in Nat /\ DOMAIN buttons = 1 .. Len(buttons)
          /\ DOMAIN buttons' = 1 .. Len(buttons) + 1
      BY <1>1, <1>2, <1>3, <2>1
    <3>2. /\ Pages!ToSet(buttons) = Pages!Texts
          /\ \A p \in 1 .. Len(buttons) : \A q \in 1 .. p - 1 : buttons[q] < buttons[p]
      BY <1>1 DEF EpisodeSoFar, Pages!ButtonsFor
    <3>3. Pages!ToSet(buttons') = Pages!ToSet(buttons) \union {Len(link) + 1}
      BY <3>1 DEF Pages!ToSet
    <3>4. \A p \in 1 .. Len(buttons) : buttons[p] \in 1 .. Len(link)
      BY <3>1, <3>2 DEF Pages!ToSet, Pages!Addresses, Pages!Texts, Pages!Nulls, Pages!Throws, Pages!Places
    <3>5. \A p \in 1 .. Len(buttons) : buttons[p] < Len(link) + 1
      BY <1>3, <3>4
    <3>6. \A p \in 1 .. Len(buttons') : \A q \in 1 .. p - 1 : buttons'[q] < buttons'[p]
      BY <3>1, <3>2, <3>5
    <3> QED
      BY <1>3, <2>1, <3>2, <3>3, <3>6 DEF Pages!ButtonsFor
  <2>2. CASE l \notin {"address", "empty"}
    <3>1. buttons' = buttons /\ Pages!Texts' = Pages!Texts
      BY <1>2, <1>3, <2>2
    <3> QED
      BY <1>1, <3>1 DEF EpisodeSoFar, Pages!ButtonsFor, Pages!ToSet
  <2> QED
    BY <2>1, <2>2
<1>5. thrown' = Cardinality(Pages!Throws')
  <2>1. IsFiniteSet(Pages!Throws) /\ Len(link) + 1 \notin Pages!Throws
    <3>1. Pages!Throws \subseteq 1 .. Len(link)
      BY DEF Pages!Throws, Pages!Places
    <3>2. IsFiniteSet(1 .. Len(link))
      BY <1>3, FS_Interval
    <3>3. IsFiniteSet(Pages!Throws)
      BY <3>1, <3>2, FS_Subset
    <3>4. Len(link) + 1 \notin 1 .. Len(link)
      BY <1>3
    <3> QED
      BY <3>1, <3>3, <3>4
  <2>2. CASE l = "throws"
    BY <1>1, <1>2, <1>3, <2>1, <2>2, FS_AddElement DEF EpisodeSoFar
  <2>3. CASE l # "throws"
    BY <1>1, <1>2, <1>3, <2>3 DEF EpisodeSoFar
  <2> QED
    BY <2>2, <2>3
<1>6. EpisodeSoFar'
  BY <1>1, <1>3, <1>4, <1>5 DEF EpisodeSoFar
<1>7. Pages!LinksRight'
  BY <1>1 DEF Pages!LinksRight, Pages!FilmPlays, Pages!EpisodePlays, Pages!GoPlays
<1>8. buttons' \in Seq(Nat) /\ thrown' \in Nat
  BY <1>1, <1>2, <1>3
<1> QED
  BY <1>1, <1>3, <1>6, <1>7, <1>8 DEF LinksInv

\* When the translations are through, everything threw or something did not.
LEMMA EpisodeEndsStep == ASSUME LinksInv, Pages!EpisodeEnds PROVE LinksInv'
<1>1. /\ method = "episode" /\ stage = "look" /\ UNCHANGED <<method, frames, thrown>>
      /\ EpisodeSoFar /\ link \in Seq(Pages!Links) /\ buttons \in Seq(Nat) /\ thrown \in Nat
      /\ frames \in Nat /\ Len(link) = frames
  BY DEF Pages!EpisodeEnds, Pages!Frame, LinksInv, EpisodeSoFar
<1>2. Pages!Throws \subseteq 1 .. frames
  BY <1>1 DEF Pages!Addresses, Pages!Texts, Pages!Nulls, Pages!Throws, Pages!Places
<1>3. thrown = frames <=> Pages!Throws = 1 .. frames
  <2>1. IsFiniteSet(1 .. frames) /\ Cardinality(1 .. frames) = frames
    BY <1>1, FS_Interval
  <2>2. Cardinality(Pages!Throws) = frames => Pages!Throws = 1 .. frames
    BY <1>2, <2>1, FS_Subset
  <2> QED
    BY <1>1, <2>1, <2>2 DEF EpisodeSoFar
<1>4. DOMAIN buttons = 1 .. Len(buttons) /\ Len(buttons) \in Nat
  BY <1>1
<1>5. buttons = <<>> <=> Pages!Texts = {}
  <2>1. buttons = <<>> <=> Len(buttons) = 0
    BY <1>1
  <2>2. Pages!Texts = {buttons[p] : p \in 1 .. Len(buttons)}
    BY <1>1, <1>4 DEF EpisodeSoFar, Pages!ButtonsFor, Pages!ToSet
  <2>3. Len(buttons) = 0 <=> 1 .. Len(buttons) = {}
    BY <1>4
  <2> QED
    BY <2>1, <2>2, <2>3
<1>6. CASE thrown = frames
  <2>1. PICK l \in Pages!Links :
           /\ buttons' = IF l \in {"address", "empty"} THEN <<0>> ELSE buttons
           /\ link' = Append(link, l)
           /\ stage' = IF l = "throws" THEN "error" ELSE "done"
    BY <1>6 DEF Pages!EpisodeEnds, Pages!OwnLink
  <2>2. /\ link' \in Seq(Pages!Links) /\ Len(link') = frames + 1 /\ link'[frames + 1] = l
        /\ Pages!Throws \subseteq Pages!Throws'
    BY <1>1, <2>1, OneMore
  <2>3. buttons = <<>>
    BY <1>1, <1>3, <1>5, <1>6 DEF Pages!Addresses, Pages!Texts, Pages!Nulls, Pages!Throws, Pages!Places
  <2>4. stage' = "done" => (buttons' = <<>> <=> link'[frames + 1] = "null")
    BY <2>1, <2>2, <2>3 DEF Pages!Links
  <2>5. Pages!EpisodePlays'
    BY <1>1, <1>3, <1>6, <2>2, <2>4 DEF Pages!EpisodePlays
  <2>6. Pages!LinksRight'
    BY <1>1, <2>5 DEF Pages!LinksRight, Pages!FilmPlays, Pages!GoPlays
  <2>7. buttons' \in Seq(Nat) /\ stage' \in {"done", "error"}
    BY <1>1, <2>1
  <2> QED
    BY <1>1, <2>2, <2>6, <2>7 DEF LinksInv
<1>7. CASE thrown # frames
  <2>1. stage' = "done" /\ UNCHANGED <<link, buttons>>
    BY <1>7 DEF Pages!EpisodeEnds, Pages!OwnLink
  <2>2. Pages!Addresses' = Pages!Addresses /\ Pages!Texts' = Pages!Texts /\ Pages!Throws' = Pages!Throws /\ Pages!Nulls' = Pages!Nulls
    BY <2>1 DEF Pages!Addresses, Pages!Texts, Pages!Nulls, Pages!Throws, Pages!Places
  <2>3. Pages!ButtonsFor(Pages!Texts)'
    BY <1>1, <2>1, <2>2 DEF EpisodeSoFar, Pages!ButtonsFor, Pages!ToSet
  <2>4. ASSUME buttons = <<>> PROVE Pages!Nulls # {}
    <3>1. PICK p \in 1 .. frames : link[p] # "throws"
      BY <1>1, <1>2, <1>3, <1>7 DEF Pages!Addresses, Pages!Texts, Pages!Nulls, Pages!Throws, Pages!Places
    <3>2. link[p] \in Pages!Links /\ link[p] \notin {"address", "empty"}
      BY <1>1, <1>5, <2>4 DEF Pages!Addresses, Pages!Texts, Pages!Nulls, Pages!Throws, Pages!Places
    <3> QED
      BY <1>1, <3>1, <3>2 DEF Pages!Addresses, Pages!Texts, Pages!Nulls, Pages!Throws, Pages!Places, Pages!Links
  <2>5. Pages!EpisodePlays'
    BY <1>1, <1>3, <1>7, <2>1, <2>2, <2>3, <2>4 DEF Pages!EpisodePlays
  <2>6. Pages!LinksRight'
    BY <1>1, <2>5 DEF Pages!LinksRight, Pages!FilmPlays, Pages!GoPlays
  <2> QED
    BY <1>1, <2>1, <2>6 DEF LinksInv
<1> QED
  BY <1>6, <1>7

\* One try of HttpRequestsGo.
LEMMA GoStep == ASSUME LinksInv, Pages!HttpRequestsGo PROVE LinksInv'
<1>1. /\ method = "go" /\ stage = "look" /\ UNCHANGED <<method, frames>>
      /\ GoSoFar /\ link \in Seq(Pages!Links) /\ buttons \in Seq(Nat) /\ thrown \in Nat
      /\ LastCount \in Nat /\ "address" \in Pages!Links /\ "throws" \in Pages!Links
  BY DEF Pages!HttpRequestsGo, LinksInv, Pages!Links
<1>2. CASE link' = Append(link, "address") /\ buttons' = <<1>> /\ stage' = "done" /\ UNCHANGED thrown
  <2>1. Pages!Addresses = {}
    BY <1>1 DEF Pages!Addresses, Pages!Texts, Pages!Nulls, Pages!Throws, Pages!Places, GoSoFar
  <2>2. /\ link' \in Seq(Pages!Links) /\ Len(link') = Len(link) + 1 /\ Len(link) \in Nat
        /\ Pages!Addresses' = {Len(link')}
    BY <1>1, <1>2, <2>1, OneMore
  <2>3. Pages!GoPlays'
    BY <1>1, <1>2, <2>2 DEF Pages!GoPlays, GoSoFar
  <2>4. Pages!LinksRight'
    BY <1>1, <2>3 DEF Pages!LinksRight, Pages!FilmPlays, Pages!EpisodePlays
  <2>5. buttons' \in Seq(Nat)
    BY <1>2
  <2> QED
    BY <1>1, <1>2, <2>2, <2>3, <2>4, <2>5 DEF LinksInv, Pages!GoPlays
<1>3. CASE /\ link' = Append(link, "throws")
           /\ IF Pages!GivesUp THEN buttons' = <<0>> /\ stage' = "done" /\ UNCHANGED thrown
              ELSE thrown' = thrown + 1 /\ UNCHANGED <<buttons, stage>>
  <2>1. /\ link' \in Seq(Pages!Links) /\ Len(link') = Len(link) + 1 /\ Len(link) \in Nat
        /\ \A p \in 1 .. Len(link) : link'[p] = link[p]
        /\ link'[Len(link) + 1] = "throws"
    BY <1>1, <1>3, OneMore
  <2>2. \A p \in 1 .. Len(link') : link'[p] = "throws"
    BY <1>1, <2>1 DEF GoSoFar
  <2>3. CASE Pages!GivesUp
    <3>1. thrown = LastCount + 1 /\ Len(link') = LastCount + 2
      BY <1>1, <2>1, <2>3 DEF Pages!GivesUp, GoSoFar
    <3>2. Pages!Throws' = 1 .. LastCount + 2
      BY <2>2, <3>1 DEF Pages!Addresses, Pages!Texts, Pages!Nulls, Pages!Throws, Pages!Places
    <3>3. Pages!GoPlays'
      BY <1>1, <1>3, <2>3, <3>1, <3>2 DEF Pages!GoPlays
    <3>4. Pages!LinksRight'
      BY <1>1, <3>3 DEF Pages!LinksRight, Pages!FilmPlays, Pages!EpisodePlays
    <3>5. buttons' \in Seq(Nat)
      BY <1>3, <2>3, OneButton
    <3> QED
      BY <1>1, <1>3, <2>1, <2>3, <3>1, <3>4, <3>5 DEF LinksInv
  <2>4. CASE ~Pages!GivesUp
    <3>1. GoSoFar' /\ Len(link') <= LastCount + 2
      BY <1>1, <1>3, <2>1, <2>2, <2>4 DEF Pages!GivesUp, GoSoFar
    <3>2. Pages!LinksRight'
      BY <1>1, <1>3, <2>4, <3>1 DEF Pages!LinksRight, Pages!FilmPlays, Pages!EpisodePlays, Pages!GoPlays
    <3> QED
      BY <1>1, <1>3, <2>1, <2>4, <3>1, <3>2 DEF LinksInv
  <2> QED
    BY <2>3, <2>4
<1> QED
  BY <1>2, <1>3 DEF Pages!HttpRequestsGo

\* The invariant is kept by every step.
LEMMA LinksNext == LinksInv /\ [Pages!Next]_(Pages!vars) => LinksInv'
<1> SUFFICES ASSUME LinksInv, [Pages!Next]_(Pages!vars) PROVE LinksInv'
  OBVIOUS
<1>1. CASE UNCHANGED Pages!vars
  <2>1. UNCHANGED <<method, frames, link, thrown, buttons, stage>>
    BY <1>1 DEF Pages!vars
  <2>2. /\ Pages!Addresses' = Pages!Addresses /\ Pages!Texts' = Pages!Texts
        /\ Pages!Throws' = Pages!Throws /\ Pages!Nulls' = Pages!Nulls
    BY <2>1 DEF Pages!Addresses, Pages!Texts, Pages!Nulls, Pages!Throws, Pages!Places
  <2>3. EpisodeSoFar' <=> EpisodeSoFar
    BY <2>1, <2>2 DEF EpisodeSoFar, Pages!ButtonsFor, Pages!ToSet
  <2>4. Pages!LinksRight' <=> Pages!LinksRight
    BY <2>1, <2>2 DEF Pages!LinksRight, Pages!FilmPlays, Pages!EpisodePlays, Pages!GoPlays,
                      Pages!ButtonsFor, Pages!ToSet
  <2> QED
    BY <2>1, <2>2, <2>3, <2>4 DEF LinksInv, FilmSoFar, GoSoFar
<1> QED
  BY <1>1, LoadStep, FilmStep, TranslationStep, EpisodeEndsStep, GoStep DEF Pages!Next

-----------------------------------------------------------------------------
\* The channels of an m3u file.

HIDE ListsAssumption
     DEF Kinds, Fanout!LastAssumption, Pages!LinksAssumption

\* Division with rest, for a width that is not a number.
Rest(n, w, q, r) == q \in Nat /\ r \in 0 .. w - 1 /\ n = w * q + r

LEMMA Division ==
    ASSUME NEW w \in Nat \ {0}, NEW n \in Nat PROVE Rest(n, w, n \div w, n % w)
<1>1. n % w = n - w * (n \div w)
  BY SMTT(30)
<1>2. n \div w \in Int /\ n \div w >= 0
  BY SMTT(30)
<1>3. n % w \in Int /\ 0 <= n % w /\ n % w < w
  BY SMTT(30)
<1> DEFINE t == w * (n \div w)
           r == n % w
<1>4. t \in Int /\ r = n - t /\ r \in 0 .. w - 1
  BY <1>1, <1>2, <1>3
<1>5. n = t + r
  <2> HIDE DEF t, r
  <2> QED
    BY <1>4
<1> QED
  BY <1>2, <1>4, <1>5 DEF Rest

\* There is one quotient and one rest.
LEMMA OneRest ==
    ASSUME NEW w \in Nat \ {0}, NEW q \in Nat, NEW r \in 0 .. w - 1,
           NEW q2 \in Nat, NEW s2 \in 0 .. w - 1, w * q + r = w * q2 + s2
    PROVE  q = q2 /\ r = s2
<1>1. CASE q < q2
  <2>1. w * q2 >= w * (q + 1)
    BY <1>1
  <2>2. w * (q + 1) = w * q + w
    OBVIOUS
  <2> QED
    BY <2>1, <2>2
<1>2. CASE q2 < q
  <2>1. w * q >= w * (q2 + 1)
    BY <1>2
  <2>2. w * (q2 + 1) = w * q2 + w
    OBVIOUS
  <2> QED
    BY <2>1, <2>2
<1>3. CASE q = q2
  BY <1>3
<1> QED
  BY <1>1, <1>2, <1>3

\* The shelf of the n-th channel of a page, and its place on it.
Shelf(n) == ((n - 1) \div Width) + 1
Place(n) == ((n - 1) % Width) + 1

\* Where the n-th channel of a page is.
LEMMA WhereIs ==
    ASSUME M3u!WidthAssumption, NEW n \in Nat \ {0}
    PROVE  /\ Shelf(n) \in Nat \ {0} /\ Place(n) \in 1 .. Width
           /\ n = Width * (Shelf(n) - 1) + Place(n)
<1> DEFINE q == (n - 1) \div Width
           r == (n - 1) % Width
<1>1. q \in Nat /\ r \in 0 .. Width - 1 /\ n - 1 = Width * q + r
  <2>1. Rest(n - 1, Width, q, r)
    BY n - 1 \in Nat, Division, Zenon DEF M3u!WidthAssumption
  <2> QED
    BY <2>1 DEF Rest
<1>2. Shelf(n) = q + 1 /\ Place(n) = r + 1
  BY DEF Shelf, Place
<1> HIDE DEF q, r
<1>3. Width * (Shelf(n) - 1) = Width * q /\ Width * q \in Int
  BY <1>1, <1>2 DEF M3u!WidthAssumption
<1> QED
  BY <1>1, <1>2, <1>3 DEF M3u!WidthAssumption

\* It is nowhere else.
LEMMA OnlyThere ==
    ASSUME M3u!WidthAssumption, NEW n \in Nat \ {0}, NEW s \in Nat \ {0}, NEW p \in 1 .. Width,
           n = Width * (s - 1) + p
    PROVE  s = Shelf(n) /\ p = Place(n)
<1> DEFINE q == s - 1
           r == p - 1
           q2 == Shelf(n) - 1
           s2 == Place(n) - 1
<1>1. q \in Nat /\ r \in 0 .. Width - 1 /\ q2 \in Nat /\ s2 \in 0 .. Width - 1
  BY WhereIs DEF M3u!WidthAssumption
<1>2. n = Width * q2 + Place(n) /\ n = Width * q + p /\ Width * q \in Int /\ Width * q2 \in Int
  BY WhereIs, <1>1 DEF M3u!WidthAssumption
<1>3. Place(n) \in Nat
  BY WhereIs DEF M3u!WidthAssumption
<1>4. Width * q + r = Width * q2 + s2
  BY <1>2, <1>3
<1>5. q = q2 /\ r = s2
  <2> HIDE DEF q, r, q2, s2
  <2> QED
    BY <1>1, <1>4, OneRest DEF M3u!WidthAssumption
<1>6. Shelf(n) \in Nat
  BY WhereIs
<1> QED
  BY <1>3, <1>5, <1>6

\* The next channel's place is the next on the shelf, or the first of the next shelf
\* when the shelf is full.
LEMMA NextPlace ==
    ASSUME M3u!WidthAssumption, NEW n \in Nat \ {0}
    PROVE  /\ n % Width = 0 => /\ Place(n) = Width
                               /\ Shelf(n + 1) = Shelf(n) + 1 /\ Place(n + 1) = 1
           /\ n % Width # 0 => /\ Place(n) < Width
                               /\ Shelf(n + 1) = Shelf(n) /\ Place(n + 1) = Place(n) + 1
<1>1. /\ Shelf(n) \in Nat \ {0} /\ Place(n) \in 1 .. Width
      /\ n = Width * (Shelf(n) - 1) + Place(n)
  BY WhereIs
<1> DEFINE q == Shelf(n) - 1
           p == Place(n)
<1>2. q \in Nat /\ p \in 1 .. Width /\ n = Width * q + p /\ Shelf(n) = q + 1 /\ Place(n) = p
  BY <1>1
<1> DEFINE a == n \div Width
           b == n % Width
<1>3. Rest(n, Width, a, b)
  BY n \in Nat, Division, Zenon DEF M3u!WidthAssumption
<1>4. a \in Nat /\ b \in 0 .. Width - 1 /\ n = Width * a + b
  BY <1>3 DEF Rest
<1> HIDE DEF q, p, a, b
<1>5. CASE p = Width
  <2>1. Width * (q + 1) = Width * q + Width
    BY <1>2 DEF M3u!WidthAssumption
  <2>2. n = Width * (q + 1) + 0
    BY <1>2, <1>5, <2>1 DEF M3u!WidthAssumption
  <2>3. 0 = b
    <3> DEFINE q1 == q + 1
    <3>1. q1 \in Nat /\ 0 \in 0 .. Width - 1 /\ Width * q1 + 0 = Width * a + b
      BY <1>2, <1>4, <2>2 DEF M3u!WidthAssumption
    <3> HIDE DEF q1
    <3> QED
      BY <1>4, <3>1, OneRest DEF M3u!WidthAssumption
  <2>4. n + 1 = Width * ((Shelf(n) + 1) - 1) + 1
    <3>1. (Shelf(n) + 1) - 1 = q + 1 /\ Width * (q + 1) \in Int
      BY <1>2 DEF M3u!WidthAssumption
    <3> QED
      BY <3>1, <2>2
  <2>5. Shelf(n) + 1 = Shelf(n + 1) /\ 1 = Place(n + 1)
    BY <1>2, <2>4, OnlyThere DEF M3u!WidthAssumption
  <2> QED
    BY <1>2, <1>5, <2>3, <2>5 DEF b
<1>6. CASE p < Width
  <2>1. p = b
    <3>1. p \in 0 .. Width - 1
      BY <1>2, <1>6 DEF M3u!WidthAssumption
    <3>2. Width * q + p = Width * a + b
      BY <1>2, <1>4
    <3>3. q \in Nat /\ a \in Nat /\ b \in 0 .. Width - 1 /\ Width \in Nat \ {0}
      BY <1>2, <1>4 DEF M3u!WidthAssumption
    <3> QED
      BY <3>1, <3>2, <3>3, OneRest
  <2>2. n + 1 = Width * (Shelf(n) - 1) + (p + 1)
    BY <1>2 DEF M3u!WidthAssumption
  <2>3. Shelf(n) = Shelf(n + 1) /\ p + 1 = Place(n + 1)
    BY <1>2, <1>6, <2>2, OnlyThere DEF M3u!WidthAssumption
  <2> QED
    BY <1>2, <1>6, <2>1, <2>3 DEF b
<1> QED
  BY <1>2, <1>5, <1>6 DEF M3u!WidthAssumption

\* An earlier channel is on no later shelf, and not past the last one's place.
LEMMA Earlier ==
    ASSUME M3u!WidthAssumption, NEW n \in Nat \ {0}, NEW j \in 1 .. n
    PROVE  Shelf(j) <= Shelf(n) /\ (Shelf(j) = Shelf(n) => Place(j) <= Place(n))
<1>1. /\ Shelf(n) \in Nat \ {0} /\ Place(n) \in 1 .. Width
      /\ n = Width * (Shelf(n) - 1) + Place(n)
  BY WhereIs
<1>2. /\ Shelf(j) \in Nat \ {0} /\ Place(j) \in 1 .. Width
      /\ j = Width * (Shelf(j) - 1) + Place(j)
  BY WhereIs
<1>3. ASSUME Shelf(j) > Shelf(n) PROVE FALSE
  <2> DEFINE q == Shelf(n)
             t == Shelf(j) - 1
  <2>1. q \in Nat /\ t \in Nat /\ t >= q
    BY <1>1, <1>2, <1>3
  <2>2. Width * t >= Width * q
    BY <2>1 DEF M3u!WidthAssumption
  <2>3. Width * q = Width * (q - 1) + Width
    BY <2>1 DEF M3u!WidthAssumption
  <2>4. Width * t \in Int /\ Width * (q - 1) \in Int
    BY <2>1 DEF M3u!WidthAssumption
  <2> QED
    BY <1>1, <1>2, <2>2, <2>3, <2>4 DEF M3u!WidthAssumption
<1>4. Shelf(j) = Shelf(n) => Place(j) <= Place(n)
  <2>1. Width * (Shelf(n) - 1) \in Int
    BY <1>1 DEF M3u!WidthAssumption
  <2> QED
    BY <1>1, <1>2, <2>1
<1> QED
  BY <1>1, <1>2, <1>3, <1>4

\* What a page shows when the first n of its channels are on it.
Shown(all, rows, n) ==
    /\ Len(rows) = Shelf(n)
    /\ \A k \in 1 .. Len(rows) : Len(rows[k]) = IF k < Len(rows) THEN Width ELSE Place(n)
    /\ \A j \in 1 .. n : rows[Shelf(j)][Place(j)] = all[j]

\* The first channel of a page begins its first shelf.
LEMMA FirstShown ==
    ASSUME M3u!WidthAssumption, NEW E, NEW all \in Seq(E), Len(all) # 0
    PROVE  Shown(all, <<<<all[1]>>>>, 1)
<1>1. 1 = Width * (1 - 1) + 1 /\ 1 \in 1 .. Width
  BY DEF M3u!WidthAssumption
<1>2. Shelf(1) = 1 /\ Place(1) = 1
  BY <1>1, OnlyThere
<1> DEFINE rows == <<<<all[1]>>>>
<1>3. Len(rows) = 1 /\ Len(rows[1]) = 1 /\ rows[1][1] = all[1]
  OBVIOUS
<1> HIDE DEF rows
<1>4. /\ \A k \in 1 .. Len(rows) : Len(rows[k]) = IF k < Len(rows) THEN Width ELSE Place(1)
      /\ \A j \in 1 .. 1 : rows[Shelf(j)][Place(j)] = all[j]
  <2>1. \A k \in 1 .. 1 : k = 1
    OBVIOUS
  <2>2. ASSUME NEW k \in 1 .. 1
        PROVE  Len(rows[k]) = IF k < Len(rows) THEN Width ELSE Place(1)
    <3>1. k = 1 /\ Len(rows[k]) = 1 /\ ~(k < Len(rows))
      BY <1>3, <2>1
    <3> QED
      BY <1>2, <3>1
  <2>3. ASSUME NEW j \in 1 .. 1 PROVE rows[Shelf(j)][Place(j)] = all[j]
    <3>1. j = 1
      BY <2>1
    <3> QED
      BY <1>2, <1>3, <3>1
  <2> QED
    BY <1>3, <2>2, <2>3
<1>5. Shown(all, rows, 1)
  BY <1>2, <1>3, <1>4 DEF Shown
<1> QED
  BY <1>5 DEF rows

\* A channel after a full shelf begins the next one.
LEMMA NewShown ==
    ASSUME M3u!WidthAssumption, NEW E, NEW all \in Seq(E), NEW rows \in Seq(Seq(E)),
           NEW n \in 1 .. Len(all) - 1, Shown(all, rows, n), n % Width = 0
    PROVE  Shown(all, Append(rows, <<all[n + 1]>>), n + 1)
<1> DEFINE next == Append(rows, <<all[n + 1]>>)
<1>1. /\ Shelf(n) \in Nat \ {0} /\ Place(n) = Width
      /\ Shelf(n + 1) = Shelf(n) + 1 /\ Place(n + 1) = 1
  BY n \in Nat \ {0}, WhereIs, NextPlace
<1>2. Len(next) = Shelf(n + 1) /\ Len(rows) = Shelf(n) /\ Len(rows) \in Nat
  BY <1>1 DEF Shown
<1>3. next[Len(next)] = <<all[n + 1]>> /\ \A k \in 1 .. Len(rows) : next[k] = rows[k]
  BY <1>1, <1>2
<1>4. \A k \in 1 .. Len(next) : Len(next[k]) = IF k < Len(next) THEN Width ELSE Place(n + 1)
  <2> TAKE k \in 1 .. Len(next)
  <2>1. CASE k = Len(next)
    BY <1>1, <1>2, <1>3, <2>1
  <2>2. CASE k \in 1 .. Len(rows)
    BY <1>1, <1>2, <1>3, <2>2 DEF Shown
  <2> QED
    BY <1>1, <1>2, <2>1, <2>2
<1>5. ASSUME NEW j \in 1 .. n + 1 PROVE next[Shelf(j)][Place(j)] = all[j]
  <2>1. CASE j = n + 1
    BY <1>1, <1>2, <1>3, <2>1
  <2>2. CASE j \in 1 .. n
    <3>1. Shelf(j) \in 1 .. Len(rows)
      <4>1. j \in Nat \ {0} /\ n \in Nat \ {0}
        BY <2>2
      <4>2. Shelf(j) \in Nat \ {0} /\ Shelf(j) <= Shelf(n)
        BY <2>2, <4>1, WhereIs, Earlier
      <4> QED
        BY <1>1, <1>2, <4>2
    <3> QED
      BY <1>3, <2>2, <3>1 DEF Shown
  <2> QED
    BY j \in 1 .. n \/ j = n + 1, <2>1, <2>2
<1> HIDE DEF next
<1>6. Shown(all, next, n + 1)
  BY <1>2, <1>4, <1>5 DEF Shown
<1> QED
  BY <1>6 DEF next

\* A channel after one on a shelf that is not full is next to it.
LEMMA MoreShown ==
    ASSUME M3u!WidthAssumption, NEW E, NEW all \in Seq(E), NEW rows \in Seq(Seq(E)),
           NEW last \in Seq(E), NEW n \in 1 .. Len(all) - 1,
           Shown(all, Append(rows, last), n), n % Width # 0
    PROVE  Shown(all, Append(rows, Append(last, all[n + 1])), n + 1)
<1> DEFINE now == Append(rows, last)
           more == Append(last, all[n + 1])
           next == Append(rows, more)
<1>1. /\ Shelf(n) \in Nat \ {0} /\ Place(n) \in Nat \ {0}
      /\ Shelf(n + 1) = Shelf(n) /\ Place(n + 1) = Place(n) + 1
  <2>1. n \in Nat \ {0} /\ Width \in Nat
    BY DEF M3u!WidthAssumption
  <2> HIDE DEF M3u!WidthAssumption
  <2>2. Shelf(n) \in Nat \ {0} /\ Place(n) \in 1 .. Width
    BY <2>1, WhereIs
  <2> QED
    BY <2>1, <2>2, NextPlace
<1>2. /\ Len(now) = Shelf(n) /\ Len(now) = Len(rows) + 1 /\ Len(next) = Len(now)
      /\ now[Len(now)] = last /\ next[Len(now)] = more
      /\ \A k \in 1 .. Len(rows) : now[k] = rows[k] /\ next[k] = rows[k]
  BY <1>1 DEF Shown
<1>3. Len(last) = Place(n)
  <2>1. Len(now) \in 1 .. Len(now)
    BY <1>1, <1>2
  <2>2. Len(now[Len(now)]) = Place(n)
    BY <2>1 DEF Shown
  <2> QED
    BY <1>2, <2>2
<1>4. /\ Len(more) = Place(n + 1) /\ more[Place(n + 1)] = all[n + 1]
      /\ \A p \in 1 .. Place(n) : more[p] = last[p]
  BY <1>1, <1>3
<1>5. \A k \in 1 .. Len(next) : Len(next[k]) = IF k < Len(next) THEN Width ELSE Place(n + 1)
  <2> TAKE k \in 1 .. Len(next)
  <2>1. CASE k = Len(next)
    BY <1>1, <1>2, <1>4, <2>1
  <2>2. CASE k \in 1 .. Len(rows)
    BY <1>1, <1>2, <2>2 DEF Shown
  <2> QED
    BY <1>1, <1>2, <2>1, <2>2
<1>6. ASSUME NEW j \in 1 .. n + 1 PROVE next[Shelf(j)][Place(j)] = all[j]
  <2>1. CASE j = n + 1
    BY <1>1, <1>2, <1>4, <2>1
  <2>2. CASE j \in 1 .. n
    <3>1. /\ Shelf(j) \in 1 .. Len(now) /\ Place(j) \in Nat \ {0}
          /\ Shelf(j) = Shelf(n) => Place(j) \in 1 .. Place(n)
      <4>1. j \in Nat \ {0} /\ n \in Nat \ {0} /\ Width \in Nat
        BY <2>2 DEF M3u!WidthAssumption
      <4>2. Shelf(j) \in Nat \ {0} /\ Place(j) \in 1 .. Width
        BY <4>1, WhereIs
      <4>3. Shelf(j) <= Shelf(n) /\ (Shelf(j) = Shelf(n) => Place(j) <= Place(n))
        BY <2>2, <4>1, Earlier
      <4>4. Shelf(j) \in 1 .. Len(now)
        BY <1>1, <1>2, <4>2, <4>3
      <4>5. Shelf(j) = Shelf(n) => Place(j) \in 1 .. Place(n)
        BY <1>1, <4>1, <4>2, <4>3
      <4> QED
        BY <4>1, <4>2, <4>4, <4>5
    <3>2. now[Shelf(j)][Place(j)] = all[j]
      BY <2>2 DEF Shown
    <3>3. CASE Shelf(j) = Len(now)
      BY <1>1, <1>2, <1>4, <3>1, <3>2, <3>3
    <3>4. CASE Shelf(j) \in 1 .. Len(rows)
      BY <1>2, <3>2, <3>4
    <3>5. Shelf(j) = Len(now) \/ Shelf(j) \in 1 .. Len(rows)
      <4>1. Len(rows) \in Nat /\ Len(now) = Len(rows) + 1
        BY <1>2
      <4> QED
        BY <3>1, <4>1
    <3> QED
      BY <3>3, <3>4, <3>5
  <2> QED
    BY j \in 1 .. n \/ j = n + 1, <2>1, <2>2
<1> HIDE DEF next
<1>7. Shown(all, next, n + 1)
  BY <1>1, <1>2, <1>5, <1>6 DEF Shown
<1> QED
  BY <1>7 DEF next

\* An entry of the dictionaries: the lines it is made of need not be the right ones.
Entry == [name : M3u!Texts, category : M3u!Texts, url : M3u!Texts \union {"blank"}]

\* What the dictionaries are after any number of channels, right or wrong.
Dictionary ==
    /\ keys \in Seq(M3u!Texts)
    /\ \A a, b \in 1 .. Len(keys) : keys[a] = keys[b] => a = b
    /\ channels \in [M3u!Texts -> Seq(Entry)]
    /\ \A c \in M3u!Texts : \A a \in 1 .. Len(channels[c]) : channels[c][a].category = c
    /\ \A c \in M3u!Texts : channels[c] # <<>> <=> \E a \in 1 .. Len(keys) : keys[a] = c

\* Where the loop is: at the first line of a channel, with those before it read; past
\* a blank line inside, at a line that is not a name; or past a blank line at the end.
Reading ==
    \/ \E m \in 0 .. Len(file) : i = 3 * m + 1 /\ (blank = 0 \/ i <= blank) /\ M3u!Reads(m)
    \/ \E m \in 0 .. Len(file) : i = 3 * m + 1 /\ blank \in 1 .. 3 * Len(file) /\ blank < i
    \/ blank = 3 * Len(file) + 1 /\ i = 3 * Len(file) + 4 /\ M3u!Reads(Len(file))

\* The invariant of the reading.
FileInv ==
    /\ file \in M3u!Files /\ blank \in 0 .. 3 * Len(file) + 1 /\ asked \in Categories
    /\ Dictionary
    /\ Reading
    /\ M3u!Made => i > M3u!Lines

\* The file is a sequence of channels.
LEMMA FileIs ==
    ASSUME M3u!ChannelsAssumption, file \in M3u!Files
    PROVE  /\ Len(file) \in Nat /\ file \in [1 .. Len(file) -> M3u!Channels]
           /\ \A k \in 1 .. Len(file) : file[k] \in M3u!Channels
<1>1. PICK n \in 0 .. MaxChannels : file \in [1 .. n -> M3u!Channels]
  BY DEF M3u!Files
<1>2. Len(file) = n /\ n \in Nat
  BY <1>1 DEF M3u!ChannelsAssumption
<1> QED
  BY <1>1, <1>2

\* What is in a category after one more.
LEMMA AddedIs ==
    ASSUME NEW own \in Seq(Entry), NEW ch \in Entry
    PROVE  LET new == M3u!Added(own, ch)
           IN  /\ new \in Seq(Entry) /\ new # <<>>
               /\ \A a \in 1 .. Len(new) :
                     new[a] = ch \/ (a \in 1 .. Len(own) /\ new[a] = own[a])
               /\ (\E k \in 1 .. Len(own) : own[k].name = ch.name) =>
                     /\ Len(new) = Len(own)
                     /\ \A a \in 1 .. Len(own) :
                           new[a] = IF own[a].name = ch.name THEN ch ELSE own[a]
               /\ ~(\E k \in 1 .. Len(own) : own[k].name = ch.name) =>
                     new = Append(own, ch)
<1>1. CASE \E k \in 1 .. Len(own) : own[k].name = ch.name
  <2> DEFINE new == [k \in 1 .. Len(own) |-> IF own[k].name = ch.name THEN ch ELSE own[k]]
  <2>1. M3u!Added(own, ch) = new
    BY <1>1 DEF M3u!Added
  <2>2. \A k \in 1 .. Len(own) : own[k] \in Entry
    OBVIOUS
  <2>3. new \in [1 .. Len(own) -> Entry] /\ Len(own) \in Nat
    BY <2>2
  <2>4. new \in Seq(Entry) /\ Len(new) = Len(own)
    BY <2>3
  <2>5. new # <<>>
    BY <1>1, <2>3, <2>4
  <2> QED
    BY <1>1, <2>1, <2>4, <2>5
<1>2. CASE ~(\E k \in 1 .. Len(own) : own[k].name = ch.name)
  <2>1. M3u!Added(own, ch) = Append(own, ch)
    BY <1>2 DEF M3u!Added
  <2> QED
    BY <1>2, <2>1
<1> QED
  BY <1>1, <1>2

\* The category of the next channel of the file, after the channel was added.
LEMMA AddedReads ==
    ASSUME M3u!ChannelsAssumption, file \in M3u!Files, NEW m \in 0 .. Len(file) - 1,
           NEW own \in Seq(Entry), M3u!ChannelsOf(m, own, file[m + 1].category)
    PROVE  M3u!ChannelsOf(m + 1, M3u!Added(own, file[m + 1]), file[m + 1].category)
<1> DEFINE ch == file[m + 1]
           c == ch.category
           new == M3u!Added(own, ch)
<1>1. /\ Len(file) \in Nat /\ \A k \in 1 .. Len(file) : file[k] \in M3u!Channels
      /\ ch \in M3u!Channels /\ ch \in Entry
  BY FileIs DEF M3u!Channels, Entry, M3u!Texts
<1>2. /\ \A k \in 1 .. m : file[k].category = c => \E a \in 1 .. Len(own) : own[a].name = file[k].name
      /\ \A a \in 1 .. Len(own) :
            /\ own[a].category = c
            /\ \E k \in 1 .. m : file[k] = own[a] /\ \A l \in k + 1 .. m : ~M3u!Same(file[l], own[a])
      /\ \A a, b \in 1 .. Len(own) : a < b =>
            \E k \in 1 .. m : M3u!Same(file[k], own[a]) /\ \A l \in 1 .. k : ~M3u!Same(file[l], own[b])
  BY DEF M3u!ChannelsOf
<1>3. /\ new \in Seq(Entry)
      /\ (\E k \in 1 .. Len(own) : own[k].name = ch.name) =>
            /\ Len(new) = Len(own)
            /\ \A a \in 1 .. Len(own) : new[a] = IF own[a].name = ch.name THEN ch ELSE own[a]
      /\ ~(\E k \in 1 .. Len(own) : own[k].name = ch.name) => new = Append(own, ch)
  BY <1>1, AddedIs
<1>4. m \in Nat /\ m + 1 \in Nat /\ file[m + 1] = ch /\ ch.category = c
  BY <1>1
<1> HIDE DEF ch, c, new
<1>5. CASE \E k \in 1 .. Len(own) : own[k].name = ch.name
  <2>1. /\ Len(new) = Len(own) /\ Len(own) \in Nat
        /\ \A a \in 1 .. Len(own) : /\ new[a] = IF own[a].name = ch.name THEN ch ELSE own[a]
                                    /\ new[a].name = own[a].name /\ new[a].category = c
    <3>1. /\ Len(new) = Len(own) /\ Len(own) \in Nat
          /\ \A a \in 1 .. Len(own) : new[a] = IF own[a].name = ch.name THEN ch ELSE own[a]
      BY <1>3, <1>5
    <3>2. \A a \in 1 .. Len(own) : own[a].category = c
      BY <1>2
    <3>3. ASSUME NEW a \in 1 .. Len(own) PROVE new[a].name = own[a].name /\ new[a].category = c
      BY <1>4, <3>1, <3>2
    <3> QED
      BY <3>1, <3>3
  <2>2. \A a \in 1 .. Len(own), x \in M3u!Channels : M3u!Same(x, new[a]) <=> M3u!Same(x, own[a])
    BY <1>2, <2>1 DEF M3u!Same
  <2>3. ASSUME NEW k \in 1 .. m + 1, file[k].category = c
        PROVE  \E a \in 1 .. Len(new) : new[a].name = file[k].name
    <3>1. CASE k \in 1 .. m
      <4>1. PICK a \in 1 .. Len(own) : own[a].name = file[k].name
        BY <1>2, <2>3, <3>1
      <4>2. a \in 1 .. Len(new) /\ new[a].name = own[a].name
        BY <2>1
      <4> QED
        BY <4>1, <4>2
    <3>2. CASE k = m + 1
      <4>1. PICK a \in 1 .. Len(own) : own[a].name = ch.name
        BY <1>5
      <4>2. file[k] = ch /\ new[a].name = ch.name /\ a \in 1 .. Len(new)
        BY <1>4, <2>1, <3>2, <4>1
      <4> QED
        BY <4>2
    <3> QED
      BY <1>4, <3>1, <3>2
  <2>4. ASSUME NEW a \in 1 .. Len(new)
        PROVE  \E k \in 1 .. m + 1 : file[k] = new[a] /\ \A l \in k + 1 .. m + 1 : ~M3u!Same(file[l], new[a])
    <3>1. CASE own[a].name = ch.name
      <4>1. new[a] = file[m + 1] /\ m + 1 \in 1 .. m + 1
        BY <1>4, <2>1, <3>1
      <4>2. \A l \in (m + 1) + 1 .. m + 1 : FALSE
        BY <1>4
      <4> QED
        BY <4>1, <4>2
    <3>2. CASE own[a].name # ch.name
      <4>1. PICK k \in 1 .. m : file[k] = own[a] /\ \A l \in k + 1 .. m : ~M3u!Same(file[l], own[a])
        BY <1>2, <2>1
      <4>2. ASSUME NEW l \in k + 1 .. m + 1 PROVE ~M3u!Same(file[l], own[a])
        <5>1. CASE l = m + 1
          BY <1>4, <3>2, <5>1 DEF M3u!Same
        <5> QED
          BY <1>4, <4>1, <5>1
      <4> QED
        BY <1>4, <2>1, <3>2, <4>1, <4>2
    <3> QED
      BY <3>1, <3>2
  <2>5. ASSUME NEW a \in 1 .. Len(new), NEW b \in 1 .. Len(new), a < b
        PROVE  \E k \in 1 .. m + 1 : M3u!Same(file[k], new[a]) /\ \A l \in 1 .. k : ~M3u!Same(file[l], new[b])
    <3>1. PICK k \in 1 .. m : M3u!Same(file[k], own[a]) /\ \A l \in 1 .. k : ~M3u!Same(file[l], own[b])
      <4>1. a \in 1 .. Len(own) /\ b \in 1 .. Len(own)
        BY <2>1
      <4> QED
        BY <1>2, <2>5, <4>1
    <3>2. k \in 1 .. m + 1 /\ \A l \in 1 .. k : file[l] \in M3u!Channels
      BY <1>1, <1>4
    <3>3. M3u!Same(file[k], new[a]) /\ \A l \in 1 .. k : ~M3u!Same(file[l], new[b])
      BY <2>1, <2>2, <3>1, <3>2
    <3> QED
      BY <3>2, <3>3
  <2>6. M3u!ChannelsOf(m + 1, new, c)
    BY <2>1, <2>3, <2>4, <2>5 DEF M3u!ChannelsOf
  <2> QED
    BY <2>6 DEF new, c, ch
<1>6. CASE ~(\E k \in 1 .. Len(own) : own[k].name = ch.name)
  <2>1. /\ Len(new) = Len(own) + 1 /\ Len(own) \in Nat /\ new[Len(own) + 1] = ch
        /\ \A a \in 1 .. Len(own) : new[a] = own[a]
    <3>1. new = Append(own, ch)
      BY <1>3, <1>6
    <3>2. ch \in Entry /\ own \in Seq(Entry)
      BY <1>1 DEF ch
    <3> QED
      BY <3>1, <3>2
  <2>2. ASSUME NEW a \in 1 .. Len(new) PROVE a \in 1 .. Len(own) \/ a = Len(own) + 1
    BY <2>1
  <2>3. ASSUME NEW k \in 1 .. m + 1, file[k].category = c
        PROVE  \E a \in 1 .. Len(new) : new[a].name = file[k].name
    <3>1. CASE k \in 1 .. m
      <4>1. PICK a \in 1 .. Len(own) : own[a].name = file[k].name
        BY <1>2, <2>3, <3>1
      <4>2. a \in 1 .. Len(new) /\ new[a].name = own[a].name
        BY <2>1
      <4> QED
        BY <4>1, <4>2
    <3>2. CASE k = m + 1
      <4>1. file[k] = ch /\ Len(own) + 1 \in 1 .. Len(new)
        BY <1>4, <2>1, <3>2
      <4> QED
        BY <2>1, <4>1
    <3> QED
      BY <1>4, <3>1, <3>2
  <2>4. ASSUME NEW a \in 1 .. Len(new)
        PROVE  /\ new[a].category = c
               /\ \E k \in 1 .. m + 1 :
                     file[k] = new[a] /\ \A l \in k + 1 .. m + 1 : ~M3u!Same(file[l], new[a])
    <3>1. CASE a = Len(own) + 1
      <4>1. new[a] = file[m + 1] /\ m + 1 \in 1 .. m + 1
        BY <1>4, <2>1, <3>1
      <4>2. \A l \in (m + 1) + 1 .. m + 1 : FALSE
        BY <1>4
      <4> QED
        BY <1>4, <4>1, <4>2
    <3>2. CASE a \in 1 .. Len(own)
      <4>1. PICK k \in 1 .. m : file[k] = own[a] /\ \A l \in k + 1 .. m : ~M3u!Same(file[l], own[a])
        BY <1>2, <3>2
      <4>2. ASSUME NEW l \in k + 1 .. m + 1 PROVE ~M3u!Same(file[l], own[a])
        <5>1. CASE l = m + 1
          BY <1>4, <1>6, <3>2, <5>1 DEF M3u!Same
        <5> QED
          BY <1>4, <4>1, <5>1
      <4>3. own[a].category = c
        BY <1>2, <3>2
      <4> QED
        BY <1>4, <2>1, <3>2, <4>1, <4>2, <4>3
    <3> QED
      BY <2>2, <3>1, <3>2
  <2>5. ASSUME NEW a \in 1 .. Len(new), NEW b \in 1 .. Len(new), a < b
        PROVE  \E k \in 1 .. m + 1 : M3u!Same(file[k], new[a]) /\ \A l \in 1 .. k : ~M3u!Same(file[l], new[b])
    <3>1. a \in 1 .. Len(own)
      BY <2>1, <2>5
    <3>2. CASE b \in 1 .. Len(own)
      <4>1. PICK k \in 1 .. m : M3u!Same(file[k], own[a]) /\ \A l \in 1 .. k : ~M3u!Same(file[l], own[b])
        BY <1>2, <2>5, <3>1, <3>2
      <4> QED
        BY <1>4, <2>1, <3>1, <3>2, <4>1
    <3>3. CASE b = Len(own) + 1
      <4>1. PICK k \in 1 .. m : file[k] = own[a]
        BY <1>2, <3>1
      <4>2. ASSUME NEW l \in 1 .. k PROVE ~M3u!Same(file[l], ch)
        <5>1. l \in 1 .. m
          BY <1>4
        <5> QED
          BY <1>2, <1>4, <1>6, <5>1 DEF M3u!Same
      <4>3. M3u!Same(file[k], new[a]) /\ new[b] = ch /\ k \in 1 .. m + 1
        BY <1>4, <2>1, <3>1, <3>3, <4>1 DEF M3u!Same
      <4> QED
        BY <4>2, <4>3
    <3> QED
      BY <2>2, <3>2, <3>3
  <2>6. M3u!ChannelsOf(m + 1, new, c)
    BY <2>3, <2>4, <2>5 DEF M3u!ChannelsOf
  <2> QED
    BY <2>6 DEF new, c, ch
<1> QED
  BY <1>5, <1>6

\* The other categories are as they were.
LEMMA OtherReads ==
    ASSUME M3u!ChannelsAssumption, file \in M3u!Files, NEW m \in 0 .. Len(file) - 1,
           NEW own, NEW c, M3u!ChannelsOf(m, own, c), c # file[m + 1].category
    PROVE  M3u!ChannelsOf(m + 1, own, c)
<1>1. Len(file) \in Nat /\ m \in Nat
  BY FileIs
<1>2. /\ \A k \in 1 .. m : file[k].category = c => \E a \in 1 .. Len(own) : own[a].name = file[k].name
      /\ \A a \in 1 .. Len(own) :
            /\ own[a].category = c
            /\ \E k \in 1 .. m : file[k] = own[a] /\ \A l \in k + 1 .. m : ~M3u!Same(file[l], own[a])
      /\ \A a, b \in 1 .. Len(own) : a < b =>
            \E k \in 1 .. m : M3u!Same(file[k], own[a]) /\ \A l \in 1 .. k : ~M3u!Same(file[l], own[b])
  BY DEF M3u!ChannelsOf
<1>3. \A k \in 1 .. m + 1 : k \in 1 .. m \/ k = m + 1
  BY <1>1
<1>4. \A k \in 1 .. m + 1 : file[k].category = c => \E a \in 1 .. Len(own) : own[a].name = file[k].name
  BY <1>2, <1>3
<1>5. ASSUME NEW a \in 1 .. Len(own)
      PROVE  /\ own[a].category = c
             /\ \E k \in 1 .. m + 1 :
                   file[k] = own[a] /\ \A l \in k + 1 .. m + 1 : ~M3u!Same(file[l], own[a])
  <2>1. PICK k \in 1 .. m : file[k] = own[a] /\ \A l \in k + 1 .. m : ~M3u!Same(file[l], own[a])
    BY <1>2
  <2>2. ASSUME NEW l \in k + 1 .. m + 1 PROVE ~M3u!Same(file[l], own[a])
    <3>1. CASE l = m + 1
      BY <1>2, <3>1 DEF M3u!Same
    <3> QED
      BY <1>1, <2>1, <3>1
  <2> QED
    BY <1>1, <1>2, <2>1, <2>2
<1>6. ASSUME NEW a \in 1 .. Len(own), NEW b \in 1 .. Len(own), a < b
      PROVE  \E k \in 1 .. m + 1 : M3u!Same(file[k], own[a]) /\ \A l \in 1 .. k : ~M3u!Same(file[l], own[b])
  <2>1. PICK k \in 1 .. m : M3u!Same(file[k], own[a]) /\ \A l \in 1 .. k : ~M3u!Same(file[l], own[b])
    BY <1>2, <1>6
  <2> QED
    BY <1>1, <2>1
<1> QED
  BY <1>4, <1>5, <1>6 DEF M3u!ChannelsOf

\* A channel is added to the dictionaries, whatever lines it is made of.
LEMMA DictionaryStep ==
    ASSUME Dictionary, NEW ch \in Entry, M3u!AddChannel(ch)
    PROVE  Dictionary'
<1> DEFINE c == ch.category
           new == M3u!Added(channels[c], ch)
<1>1. c \in M3u!Texts /\ channels[c] \in Seq(Entry)
  BY DEF Entry, Dictionary
<1>2. channels' = [channels EXCEPT ![c] = new]
  BY DEF M3u!AddChannel
<1>3. /\ new \in Seq(Entry) /\ new # <<>>
      /\ \A a \in 1 .. Len(new) :
            new[a] = ch \/ (a \in 1 .. Len(channels[c]) /\ new[a] = channels[c][a])
  BY <1>1, AddedIs
<1>4. /\ keys' \in Seq(M3u!Texts)
      /\ \A a, b \in 1 .. Len(keys') : keys'[a] = keys'[b] => a = b
      /\ \A d \in M3u!Texts : (\E a \in 1 .. Len(keys') : keys'[a] = d) <=>
                             (d = c \/ \E a \in 1 .. Len(keys) : keys[a] = d)
  <2>1. CASE \E k \in 1 .. Len(keys) : keys[k] = c
    <3>1. keys' = keys
      BY <2>1 DEF M3u!AddChannel
    <3> QED
      BY <2>1, <3>1 DEF Dictionary
  <2>2. CASE ~(\E k \in 1 .. Len(keys) : keys[k] = c)
    <3>1. keys' = Append(keys, c) /\ keys \in Seq(M3u!Texts)
      BY <2>2 DEF M3u!AddChannel, Dictionary
    <3>2. /\ keys' \in Seq(M3u!Texts) /\ Len(keys') = Len(keys) + 1 /\ Len(keys) \in Nat
          /\ keys'[Len(keys) + 1] = c /\ \A a \in 1 .. Len(keys) : keys'[a] = keys[a]
      BY <1>1, <3>1
    <3>3. \A a \in 1 .. Len(keys') : a \in 1 .. Len(keys) \/ a = Len(keys) + 1
      BY <3>2
    <3>4. \A a, b \in 1 .. Len(keys') : keys'[a] = keys'[b] => a = b
      <4>1. ASSUME NEW a \in 1 .. Len(keys'), NEW b \in 1 .. Len(keys'), keys'[a] = keys'[b]
            PROVE  a = b
        <5>1. CASE a \in 1 .. Len(keys) /\ b \in 1 .. Len(keys)
          BY <3>2, <4>1, <5>1 DEF Dictionary
        <5>2. CASE a \in 1 .. Len(keys) /\ b = Len(keys) + 1
          BY <2>2, <3>2, <4>1, <5>2
        <5>3. CASE a = Len(keys) + 1 /\ b \in 1 .. Len(keys)
          BY <2>2, <3>2, <4>1, <5>3
        <5> QED
          BY <3>3, <5>1, <5>2, <5>3
      <4> QED
        BY <4>1
    <3>5. ASSUME NEW d \in M3u!Texts
          PROVE  (\E a \in 1 .. Len(keys') : keys'[a] = d) <=>
                    (d = c \/ \E a \in 1 .. Len(keys) : keys[a] = d)
      <4>1. \A a \in 1 .. Len(keys) : a \in 1 .. Len(keys')
        BY <3>2
      <4>2. Len(keys) + 1 \in 1 .. Len(keys')
        BY <3>2
      <4> QED
        BY <3>2, <3>3, <4>1, <4>2
    <3> QED
      BY <3>2, <3>4, <3>5
  <2> QED
    BY <2>1, <2>2
<1> HIDE DEF c, new
<1>5. channels' \in [M3u!Texts -> Seq(Entry)]
  BY <1>2, <1>3 DEF Dictionary
<1>6. channels'[c] = new /\ \A d \in M3u!Texts : d # c => channels'[d] = channels[d]
  BY <1>1, <1>2 DEF Dictionary
<1>7. ASSUME NEW d \in M3u!Texts
      PROVE  /\ \A a \in 1 .. Len(channels'[d]) : channels'[d][a].category = d
             /\ channels'[d] # <<>> <=> (d = c \/ \E a \in 1 .. Len(keys) : keys[a] = d)
  <2>1. CASE d = c
    <3>1. ch.category = c
      BY DEF c
    <3>2. channels'[d] = new
      BY <1>6, <2>1
    <3>3. \A a \in 1 .. Len(channels[c]) : channels[c][a].category = c
      BY <1>1 DEF Dictionary
    <3>4. \A a \in 1 .. Len(new) : new[a].category = c
      BY <1>3, <3>1, <3>3
    <3> QED
      BY <1>3, <2>1, <3>2, <3>4
  <2>2. CASE d # c
    BY <1>6, <2>2 DEF Dictionary
  <2> QED
    BY <2>1, <2>2
<1> QED
  BY <1>4, <1>5, <1>7 DEF Dictionary

\* The keys after the next channel of the file.
LEMMA KeysRead ==
    ASSUME M3u!ChannelsAssumption, file \in M3u!Files, keys \in Seq(M3u!Texts), NEW m \in 0 .. Len(file) - 1,
           M3u!KeysOf(m), M3u!AddChannel(file[m + 1]), file' = file
    PROVE  M3u!KeysOf(m + 1)'
<1> DEFINE c == file[m + 1].category
<1>1. Len(file) \in Nat /\ m \in Nat /\ c \in M3u!Texts
  BY FileIs DEF M3u!Channels, M3u!Texts
<1>2. /\ \A k \in 1 .. m : \E a \in 1 .. Len(keys) : keys[a] = file[k].category
      /\ \A a \in 1 .. Len(keys) : \E k \in 1 .. m : file[k].category = keys[a]
      /\ \A a, b \in 1 .. Len(keys) : a < b =>
            \E k \in 1 .. m : /\ file[k].category = keys[a]
                              /\ \A l \in 1 .. k : file[l].category # keys[b]
  BY DEF M3u!KeysOf
<1>3. file[m + 1].category = c
  OBVIOUS
<1>4. /\ (\E k \in 1 .. Len(keys) : keys[k] = c) => keys' = keys
      /\ ~(\E k \in 1 .. Len(keys) : keys[k] = c) => keys' = Append(keys, c)
  BY DEF M3u!AddChannel
<1> HIDE DEF c
<1>5. \A k \in 1 .. m + 1 : k \in 1 .. m \/ k = m + 1
  BY <1>1
<1>6. \A k \in 1 .. m : k \in 1 .. m + 1
  BY <1>1
<1>7. CASE \E k \in 1 .. Len(keys) : keys[k] = c
  <2>1. \A k \in 1 .. m + 1 : \E a \in 1 .. Len(keys) : keys[a] = file[k].category
    BY <1>2, <1>3, <1>5, <1>7
  <2>2. \A a \in 1 .. Len(keys) : \E k \in 1 .. m + 1 : file[k].category = keys[a]
    BY <1>2, <1>6
  <2>3. ASSUME NEW a \in 1 .. Len(keys), NEW b \in 1 .. Len(keys), a < b
        PROVE  \E k \in 1 .. m + 1 : /\ file[k].category = keys[a]
                                     /\ \A l \in 1 .. k : file[l].category # keys[b]
    <3>1. PICK k \in 1 .. m : /\ file[k].category = keys[a]
                              /\ \A l \in 1 .. k : file[l].category # keys[b]
      BY <1>2, <2>3
    <3> QED
      BY <1>6, <3>1
  <2>4. keys' = keys
    BY <1>4, <1>7
  <2> QED
    BY <2>1, <2>2, <2>3, <2>4 DEF M3u!KeysOf
<1>8. CASE ~(\E k \in 1 .. Len(keys) : keys[k] = c)
  <2> DEFINE new == keys'
  <2>1. /\ Len(new) = Len(keys) + 1 /\ Len(keys) \in Nat
        /\ new[Len(keys) + 1] = c /\ \A a \in 1 .. Len(keys) : new[a] = keys[a]
    BY <1>1, <1>4, <1>8
  <2> HIDE DEF new
  <2>2. \A a \in 1 .. Len(new) : a \in 1 .. Len(keys) \/ a = Len(keys) + 1
    BY <2>1
  <2>3. Len(keys) + 1 \in 1 .. Len(new) /\ \A a \in 1 .. Len(keys) : a \in 1 .. Len(new)
    BY <2>1
  <2>4. m + 1 \in 1 .. m + 1
    BY <1>1
  <2>5. \A k \in 1 .. m + 1 : \E a \in 1 .. Len(new) : new[a] = file[k].category
    <3> TAKE k \in 1 .. m + 1
    <3>1. CASE k = m + 1
      BY <1>3, <2>1, <2>3, <3>1
    <3>2. CASE k \in 1 .. m
      <4>1. PICK a \in 1 .. Len(keys) : keys[a] = file[k].category
        BY <1>2, <3>2
      <4> QED
        BY <2>1, <2>3, <4>1
    <3> QED
      BY <1>5, <3>1, <3>2
  <2>6. \A a \in 1 .. Len(new) : \E k \in 1 .. m + 1 : file[k].category = new[a]
    <3> TAKE a \in 1 .. Len(new)
    <3>1. CASE a = Len(keys) + 1
      BY <1>3, <2>1, <2>4, <3>1
    <3>2. CASE a \in 1 .. Len(keys)
      <4>1. PICK k \in 1 .. m : file[k].category = keys[a]
        BY <1>2, <3>2
      <4> QED
        BY <1>6, <2>1, <3>2, <4>1
    <3> QED
      BY <2>2, <3>1, <3>2
  <2>7. ASSUME NEW a \in 1 .. Len(new), NEW b \in 1 .. Len(new), a < b
        PROVE  \E k \in 1 .. m + 1 : /\ file[k].category = new[a]
                                     /\ \A l \in 1 .. k : file[l].category # new[b]
    <3>1. a \in 1 .. Len(keys) /\ new[a] = keys[a]
      BY <2>1, <2>7
    <3>2. CASE b \in 1 .. Len(keys)
      <4>1. PICK k \in 1 .. m : /\ file[k].category = keys[a]
                                /\ \A l \in 1 .. k : file[l].category # keys[b]
        BY <1>2, <2>7, <3>1, <3>2
      <4> QED
        BY <1>6, <2>1, <3>1, <3>2, <4>1
    <3>3. CASE b = Len(keys) + 1
      <4>1. PICK k \in 1 .. m : file[k].category = keys[a]
        BY <1>2, <3>1
      <4>2. ASSUME NEW l \in 1 .. k PROVE file[l].category # c
        <5>1. l \in 1 .. m
          BY <1>1
        <5>2. PICK b2 \in 1 .. Len(keys) : keys[b2] = file[l].category
          BY <1>2, <5>1
        <5> QED
          BY <1>8, <5>2
      <4> QED
        BY <1>6, <2>1, <3>1, <3>3, <4>1, <4>2
    <3> QED
      BY <2>2, <3>2, <3>3
  <2>8. M3u!KeysOf(m + 1)'
    BY <2>5, <2>6, <2>7 DEF M3u!KeysOf, new
  <2> QED
    BY <2>8
<1> QED
  BY <1>7, <1>8

\* The dictionaries have one channel of the file more.
LEMMA ReadOne ==
    ASSUME M3u!ChannelsAssumption, file \in M3u!Files, Dictionary, NEW m \in 0 .. Len(file) - 1,
           M3u!Reads(m), M3u!AddChannel(file[m + 1]), file' = file
    PROVE  M3u!Reads(m + 1)'
<1> DEFINE c == file[m + 1].category
<1>1. M3u!KeysOf(m + 1)'
  BY KeysRead DEF M3u!Reads, Dictionary
<1>2. c \in M3u!Texts /\ m + 1 \in 1 .. Len(file)
  BY FileIs DEF M3u!Channels, M3u!Texts
<1>3. /\ channels'[c] = M3u!Added(channels[c], file[m + 1])
      /\ \A d \in M3u!Texts : d # c => channels'[d] = channels[d]
  BY <1>2 DEF M3u!AddChannel, Dictionary
<1>4. ASSUME NEW d \in M3u!Texts PROVE M3u!ChannelsOf(m + 1, channels'[d], d)
  <2>1. M3u!ChannelsOf(m, channels[d], d) /\ channels[d] \in Seq(Entry)
    BY DEF M3u!Reads, Dictionary
  <2>2. CASE d = c
    BY <1>3, <2>1, <2>2, AddedReads
  <2>3. CASE d # c
    BY <1>3, <2>1, <2>3, OtherReads
  <2> QED
    BY <2>2, <2>3
<1>5. \A d \in M3u!Texts : M3u!ChannelsOf(m + 1, channels[d], d)'
  <2>1. ASSUME NEW d \in M3u!Texts PROVE M3u!ChannelsOf(m + 1, channels[d], d)'
    <3>1. M3u!ChannelsOf(m + 1, channels'[d], d)
      BY <1>4
    <3> QED
      BY <3>1 DEF M3u!ChannelsOf, M3u!Same
  <2> QED
    BY <2>1
<1> QED
  BY <1>1, <1>5 DEF M3u!Reads

\* What the lines of the file are.
LEMMA LineIs ==
    ASSUME M3u!ChannelsAssumption, file \in M3u!Files, NEW m \in 0 .. Len(file) - 1
    PROVE  /\ M3u!FileLine(3 * m + 1) = [kind |-> "name", is |-> file[m + 1].name]
           /\ M3u!FileLine(3 * m + 2) = [kind |-> "category", is |-> file[m + 1].category]
           /\ M3u!FileLine(3 * m + 3) = [kind |-> "url", is |-> file[m + 1].url]
<1>1. m \in Nat
  BY FileIs
<1>2. /\ ((3 * m + 1) - 1) \div 3 = m /\ (3 * m + 1) % 3 = 1
      /\ ((3 * m + 2) - 1) \div 3 = m /\ (3 * m + 2) % 3 = 2
      /\ ((3 * m + 3) - 1) \div 3 = m /\ (3 * m + 3) % 3 = 0
  BY <1>1
<1> QED
  BY <1>2 DEF M3u!FileLine

\* Which of the lines is blank, and what the others say.
LEMMA EveryLine ==
    ASSUME M3u!ChannelsAssumption, file \in M3u!Files, blank \in 0 .. 3 * Len(file) + 1,
           NEW k \in 1 .. M3u!Lines
    PROVE  /\ M3u!Line(k).kind = "blank" <=> k = blank
           /\ k # blank => M3u!Line(k).is \in M3u!Texts
           /\ k = blank => M3u!Line(k).is = "blank"
<1>1. Len(file) \in Nat
  BY FileIs
<1>2. ASSUME NEW l \in 1 .. 3 * Len(file)
      PROVE  M3u!FileLine(l).kind # "blank" /\ M3u!FileLine(l).is \in M3u!Texts
  <2>1. ((l - 1) \div 3) + 1 \in 1 .. Len(file)
    BY <1>1
  <2>2. file[((l - 1) \div 3) + 1] \in M3u!Channels
    BY <2>1, FileIs
  <2> QED
    BY <2>2 DEF M3u!FileLine, M3u!Channels, M3u!Texts
<1>3. /\ blank = 0 \/ k < blank => k \in 1 .. 3 * Len(file)
      /\ blank # 0 /\ blank < k => k - 1 \in 1 .. 3 * Len(file)
  BY <1>1 DEF M3u!Lines
<1>4. CASE blank = 0 \/ k < blank
  BY <1>2, <1>3, <1>4 DEF M3u!Line
<1>5. CASE blank # 0 /\ k = blank
  BY <1>5 DEF M3u!Line
<1>6. CASE blank # 0 /\ blank < k
  <2>1. M3u!Line(k) = M3u!FileLine(k - 1)
    BY <1>6 DEF M3u!Line
  <2> QED
    BY <1>2, <1>3, <1>6, <2>1
<1> QED
  BY <1>1, <1>4, <1>5, <1>6 DEF M3u!Lines

\* Nothing is read before the first line.
LEMMA FileInit == ASSUME M3u!ChannelsAssumption, M3u!Init PROVE FileInv
<1>1. Len(file) \in Nat
  BY FileIs DEF M3u!Init
<1>2. Dictionary
  <2>1. channels \in [M3u!Texts -> Seq(Entry)] /\ \A c \in M3u!Texts : channels[c] = <<>>
    BY DEF M3u!Init
  <2> QED
    BY <2>1 DEF M3u!Init, Dictionary
<1>3. M3u!Reads(0)
  <2>1. \A c \in M3u!Texts : channels[c] = <<>>
    BY DEF M3u!Init
  <2>2. ASSUME NEW c \in M3u!Texts PROVE M3u!ChannelsOf(0, channels[c], c)
    BY <2>1 DEF M3u!ChannelsOf
  <2>3. M3u!KeysOf(0)
    BY DEF M3u!Init, M3u!KeysOf
  <2> QED
    BY <2>2, <2>3 DEF M3u!Reads
<1>4. Reading
  BY <1>1, <1>3 DEF M3u!Init, Reading
<1> QED
  BY <1>2, <1>4 DEF M3u!Init, FileInv, M3u!Made

\* A turn of the loop over the lines.
LEMMA ParseStep ==
    ASSUME M3u!ChannelsAssumption, FileInv, M3u!Parse
    PROVE  FileInv'
<1> DEFINE ch == [name |-> M3u!Line(i).is, category |-> M3u!Line(i + 1).is, url |-> M3u!Line(i + 2).is]
           L == Len(file)
<1>1. /\ L \in Nat /\ M3u!Lines \in Nat /\ M3u!Lines \in {3 * L, 3 * L + 1}
      /\ blank = 0 => M3u!Lines = 3 * L
      /\ blank # 0 => M3u!Lines = 3 * L + 1
  BY FileIs DEF FileInv, M3u!Lines
<1>2. /\ i + 2 <= M3u!Lines /\ M3u!Line(i).kind # "blank" /\ M3u!Line(i + 1).kind # "blank"
      /\ M3u!AddChannel(ch) /\ i' = i + 3
      /\ UNCHANGED <<file, blank, asked, state>> /\ state = "parse"
  BY DEF M3u!Parse, M3u!Parses, M3u!HasName, M3u!HasCategory, M3u!Asking
<1>3. PICK m \in 0 .. L : /\ i = 3 * m + 1
                          /\ \/ (blank = 0 \/ i <= blank) /\ M3u!Reads(m)
                             \/ blank \in 1 .. 3 * L /\ blank < i
  BY <1>1, <1>2 DEF FileInv, Reading
<1>4. i \in Nat /\ m + 1 \in 1 .. L /\ i \in 1 .. M3u!Lines /\ i + 1 \in 1 .. M3u!Lines /\ i + 2 \in 1 .. M3u!Lines
  BY <1>1, <1>2, <1>3
<1>5. i # blank /\ i + 1 # blank
  BY <1>2, <1>4, EveryLine DEF FileInv
<1>6. M3u!Line(i).is \in M3u!Texts /\ M3u!Line(i + 1).is \in M3u!Texts /\ M3u!Line(i + 2).is \in M3u!Texts \union {"blank"}
  BY <1>4, <1>5, EveryLine DEF FileInv
<1>7. ch \in Entry
  BY <1>6 DEF Entry
<1>8. Dictionary'
  BY <1>2, <1>7, DictionaryStep DEF FileInv
<1>9. ASSUME blank = 0 \/ i + 2 < blank PROVE ch = file[m + 1]
  <2>1. M3u!Line(i) = M3u!FileLine(i) /\ M3u!Line(i + 1) = M3u!FileLine(i + 1) /\ M3u!Line(i + 2) = M3u!FileLine(i + 2)
    BY <1>1, <1>4, <1>9 DEF M3u!Line, FileInv
  <2>2. i + 1 = 3 * m + 2 /\ i + 2 = 3 * m + 3 /\ m \in 0 .. Len(file) - 1
    BY <1>1, <1>3, <1>4
  <2>3. ch = [name |-> file[m + 1].name, category |-> file[m + 1].category, url |-> file[m + 1].url]
    <3>1. /\ M3u!FileLine(3 * m + 1) = [kind |-> "name", is |-> file[m + 1].name]
          /\ M3u!FileLine(3 * m + 2) = [kind |-> "category", is |-> file[m + 1].category]
          /\ M3u!FileLine(3 * m + 3) = [kind |-> "url", is |-> file[m + 1].url]
      BY <2>2, LineIs DEF FileInv
    <3> QED
      BY <1>3, <2>1, <2>2, <3>1
  <2>4. file[m + 1] \in M3u!Channels
    BY <1>4, FileIs DEF FileInv
  <2> QED
    BY <2>3, <2>4 DEF M3u!Channels
<1> HIDE DEF ch
<1>10. Reading'
  <2>1. i' = 3 * (m + 1) + 1 /\ m + 1 \in 0 .. L /\ L = Len(file') /\ m \in 0 .. Len(file) - 1
    BY <1>1, <1>2, <1>3, <1>4
  <2>2. CASE (blank = 0 \/ i + 2 < blank) /\ M3u!Reads(m)
    <3>1. M3u!Reads(m + 1)'
      BY <1>2, <1>9, <2>1, <2>2, ReadOne DEF FileInv
    <3>2. blank' = 0 \/ i' <= blank'
      BY <1>1, <1>2, <1>4, <2>2 DEF FileInv
    <3> DEFINE n == m + 1
    <3>3. n \in 0 .. Len(file)' /\ i' = 3 * n + 1 /\ M3u!Reads(n)'
      BY <2>1, <3>1
    <3> HIDE DEF n
    <3> QED
      BY <3>2, <3>3 DEF Reading
  <2>3. CASE blank \in 1 .. 3 * L /\ blank < i + 3
    <3> DEFINE n == m + 1
    <3>1. /\ n \in 0 .. Len(file)' /\ i' = 3 * n + 1
          /\ blank' \in 1 .. 3 * Len(file)' /\ blank' < i'
      BY <1>2, <2>1, <2>3
    <3> HIDE DEF n
    <3> QED
      BY <3>1 DEF Reading
  <2>4. ((blank = 0 \/ i + 2 < blank) /\ M3u!Reads(m)) \/ (blank \in 1 .. 3 * L /\ blank < i + 3)
    <3>1. blank \in 0 .. 3 * L + 1 /\ i + 2 <= 3 * L + 1
      BY <1>1, <1>2, <1>4 DEF FileInv
    <3>2. i + 2 = 3 * L + 1 => 3 * m + 3 = 3 * L + 1
      BY <1>3
    <3>3. i + 2 <= 3 * L
      BY <1>1, <1>3, <3>1, <3>2
    <3> QED
      BY <1>1, <1>3, <1>4, <3>1, <3>3
  <2> QED
    BY <2>2, <2>3, <2>4
<1> QED
  BY <1>2, <1>8, <1>10 DEF FileInv, M3u!Made

\* The dictionaries and lines are what they were where those variables are.
LEMMA ReadsStays ==
    ASSUME NEW m, M3u!Reads(m), UNCHANGED <<file, keys, channels>>
    PROVE  M3u!Reads(m)'
<1>1. M3u!KeysOf(m)'
  <2>1. M3u!KeysOf(m) /\ keys' = keys /\ file' = file
    BY DEF M3u!Reads
  <2>2. /\ (\A k \in 1 .. m : \E a \in 1 .. Len(keys) : keys[a] = file[k].category)'
        /\ (\A a \in 1 .. Len(keys) : \E k \in 1 .. m : file[k].category = keys[a])'
    BY <2>1 DEF M3u!KeysOf
  <2>3. (\A a, b \in 1 .. Len(keys) : a < b =>
            \E k \in 1 .. m : /\ file[k].category = keys[a]
                              /\ \A l \in 1 .. k : file[l].category # keys[b])'
    BY <2>1 DEF M3u!KeysOf
  <2> QED
    BY <2>2, <2>3 DEF M3u!KeysOf
<1>2. ASSUME NEW d \in M3u!Texts PROVE M3u!ChannelsOf(m, channels[d], d)'
  <2>1. M3u!ChannelsOf(m, channels[d], d)
    BY DEF M3u!Reads
  <2> QED
    BY <2>1 DEF M3u!ChannelsOf, M3u!Same
<1>3. \A d \in M3u!Texts : M3u!ChannelsOf(m, channels[d], d)'
  BY <1>2
<1> QED
  BY <1>1, <1>3 DEF M3u!Reads

\* A turn at the blank line: the rest is read at the wrong places, or it was the end.
LEMMA SkipStep ==
    ASSUME M3u!ChannelsAssumption, FileInv, M3u!SkipBlank
    PROVE  FileInv'
<1> DEFINE L == Len(file)
<1>1. L \in Nat /\ M3u!Lines \in {3 * L, 3 * L + 1}
  BY FileIs DEF FileInv, M3u!Lines
<1>2. /\ i <= M3u!Lines /\ M3u!Line(i).kind = "blank" /\ i' = i + 3 /\ state = "parse"
      /\ UNCHANGED <<file, blank, asked, state, keys, channels>>
  BY DEF M3u!SkipBlank, M3u!Asking
<1>3. PICK m \in 0 .. L : /\ i = 3 * m + 1
                          /\ \/ (blank = 0 \/ i <= blank) /\ M3u!Reads(m)
                             \/ blank \in 1 .. 3 * L /\ blank < i
  BY <1>1, <1>2 DEF FileInv, Reading
<1>4. i \in 1 .. M3u!Lines
  BY <1>1, <1>2, <1>3
<1>5. i = blank
  BY <1>2, <1>4, EveryLine DEF FileInv
<1>6. Dictionary'
  BY <1>2 DEF FileInv, Dictionary
<1>7. M3u!Reads(m) /\ M3u!Reads(m)'
  BY <1>2, <1>3, <1>4, <1>5, ReadsStays
<1>8. Reading'
  <2>1. CASE m = L
    <3>1. blank' = 3 * Len(file)' + 1 /\ i' = 3 * Len(file)' + 4
      BY <1>1, <1>2, <1>3, <1>5, <2>1
    <3>2. M3u!Reads(Len(file))'
      <4>1. M3u!Reads(Len(file))
        BY <1>7, <2>1
      <4> QED
        BY <1>1, <1>2, <4>1, ReadsStays
    <3> QED
      BY <3>1, <3>2 DEF Reading
  <2>2. CASE m < L
    <3>1. /\ m + 1 \in 0 .. Len(file)' /\ i' = 3 * (m + 1) + 1
          /\ blank' \in 1 .. 3 * Len(file)' /\ blank' < i'
      BY <1>1, <1>2, <1>3, <1>4, <1>5, <2>2
    <3> QED
      BY <3>1 DEF Reading
  <2> QED
    BY <1>1, <2>1, <2>2
<1> QED
  BY <1>2, <1>6, <1>8 DEF FileInv, M3u!Made

\* The other steps leave the file and the dictionaries alone.
LEMMA FileStays ==
    ASSUME FileInv, UNCHANGED <<file, blank, asked, i, keys, channels>>, M3u!Made' => M3u!Made \/ i > M3u!Lines
    PROVE  FileInv'
<1>1. Dictionary' /\ (M3u!Made => i > M3u!Lines)' /\ (file \in M3u!Files)'
      /\ (blank \in 0 .. 3 * Len(file) + 1)' /\ (asked \in Categories)'
  BY DEF FileInv, Dictionary, M3u!Lines
<1>2. Reading'
  <2>1. CASE \E m \in 0 .. Len(file) : i = 3 * m + 1 /\ (blank = 0 \/ i <= blank) /\ M3u!Reads(m)
    BY <2>1, ReadsStays DEF Reading
  <2>2. CASE \E m \in 0 .. Len(file) : i = 3 * m + 1 /\ blank \in 1 .. 3 * Len(file) /\ blank < i
    BY <2>2 DEF Reading
  <2>3. CASE blank = 3 * Len(file) + 1 /\ i = 3 * Len(file) + 4 /\ M3u!Reads(Len(file))
    <3>1. M3u!Reads(Len(file))'
      <4> DEFINE L == Len(file)
      <4>1. M3u!Reads(L) /\ L' = L
        BY <2>3
      <4> QED
        BY <2>3, ReadsStays DEF M3u!Reads, M3u!KeysOf, M3u!ChannelsOf, M3u!Same
    <3> QED
      BY <2>3, <3>1 DEF Reading
  <2> QED
    BY <2>1, <2>2, <2>3 DEF FileInv, Reading
<1> QED
  BY <1>1, <1>2 DEF FileInv

\* The reading keeps its invariant.
LEMMA FileNext == ASSUME M3u!ChannelsAssumption, FileInv, [M3u!Next]_(M3u!vars) PROVE FileInv'
<1>1. CASE UNCHANGED M3u!vars
  BY <1>1, FileStays DEF M3u!vars, M3u!Made
<1>2. CASE M3u!ParseThrows \/ M3u!Parsed
  <2>1. i \in Nat /\ M3u!Lines \in Nat
    <3>1. Len(file) \in Nat
      BY FileIs DEF FileInv
    <3> QED
      BY <3>1 DEF FileInv, Reading, M3u!Lines
  <2> QED
    BY <1>2, <2>1, FileStays DEF M3u!ParseThrows, M3u!Parsed, M3u!Asking, M3u!Made
<1>3. CASE M3u!CreateXCategories \/ M3u!AddCategory \/ M3u!CreateM3U8Channels \/ M3u!Shelve
  BY <1>3, FileStays DEF M3u!CreateXCategories, M3u!AddCategory, M3u!CreateM3U8Channels, M3u!Shelve, M3u!Asking, M3u!Made
<1> QED
  BY <1>1, <1>2, <1>3, ParseStep, SkipStep DEF M3u!Next

\* What is shown of a file is all of it.
LEMMA FileHolds == ASSUME M3u!ChannelsAssumption, FileInv PROVE M3u!ParsedRight /\ M3u!NoPartOfFile
<1> SUFFICES ASSUME M3u!Made PROVE M3u!Reads(Len(file)) /\ blank \in {0, 3 * Len(file) + 1}
  BY DEF M3u!ParsedRight, M3u!NoPartOfFile
<1>1. /\ Len(file) \in Nat /\ blank \in 0 .. 3 * Len(file) + 1 /\ i > M3u!Lines
      /\ M3u!Lines = 3 * Len(file) + (IF blank = 0 THEN 0 ELSE 1)
  BY FileIs DEF FileInv, M3u!Lines
<1>2. CASE \E m \in 0 .. Len(file) : i = 3 * m + 1 /\ (blank = 0 \/ i <= blank) /\ M3u!Reads(m)
  <2>1. PICK m \in 0 .. Len(file) : i = 3 * m + 1 /\ (blank = 0 \/ i <= blank) /\ M3u!Reads(m)
    BY <1>2
  <2>2. m = Len(file)
    BY <1>1, <2>1
  <2> QED
    BY <1>1, <2>1, <2>2
<1>3. CASE \E m \in 0 .. Len(file) : i = 3 * m + 1 /\ blank \in 1 .. 3 * Len(file) /\ blank < i
  BY <1>1, <1>3
<1>4. CASE blank = 3 * Len(file) + 1 /\ i = 3 * Len(file) + 4 /\ M3u!Reads(Len(file))
  BY <1>4
<1> QED
  BY <1>2, <1>3, <1>4 DEF FileInv, Reading

\* The invariant of the page: what Shown says, of the shelves and the one being filled.
PageInv ==
    /\ onShelves \in Nat /\ group \in Seq(Entry) /\ shelves \in Seq(Seq(Entry))
    /\ state \notin {"shelve", "answered"} => onShelves = 0 /\ group = <<>> /\ shelves = <<>>
    /\ state = "shelve" =>
          /\ onShelves < Len(channels[asked])
          /\ onShelves = 0 => group = <<>> /\ shelves = <<>>
          /\ onShelves # 0 => Shown(channels[asked], Append(shelves, group), onShelves)
    /\ state = "answered" /\ onShelves # 0 =>
          onShelves = Len(channels[asked]) /\ Shown(channels[asked], shelves, onShelves)

\* The page is empty before it is asked for.
LEMMA PageInit == M3u!Init => PageInv
  BY DEF M3u!Init, PageInv

\* The category of the page has its channels, if it has any.
LEMMA AskedIs ==
    ASSUME FileInv PROVE asked \in M3u!Texts /\ channels[asked] \in Seq(Entry)
  BY DEF FileInv, Dictionary, M3u!Texts

\* A turn of the loop that makes the shelves.
LEMMA ShelveStep ==
    ASSUME M3u!WidthAssumption, FileInv, PageInv, M3u!Shelve
    PROVE  PageInv'
<1> DEFINE all    == channels[asked]
           anew   == onShelves % Width = 0 /\ onShelves # 0
           before == IF anew THEN Append(shelves, group) ELSE shelves
           filled == Append(IF anew THEN <<>> ELSE group, all[onShelves + 1])
           last   == onShelves + 1 = Len(all)
           next   == Append(before, filled)
<1>1. /\ all \in Seq(Entry) /\ onShelves \in Nat /\ onShelves < Len(all) /\ Len(all) \in Nat
      /\ onShelves = 0 => group = <<>> /\ shelves = <<>>
      /\ onShelves # 0 => Shown(all, Append(shelves, group), onShelves)
      /\ group \in Seq(Entry) /\ shelves \in Seq(Seq(Entry))
  BY AskedIs DEF M3u!Shelve, PageInv
<1>2. /\ onShelves' = onShelves + 1 /\ group' = filled
      /\ shelves' = IF last THEN next ELSE before
      /\ state' = IF last THEN "answered" ELSE "shelve"
      /\ channels' = channels /\ asked' = asked
  BY Zenon DEF M3u!Shelve, M3u!Asking
<1>3. all' = all
  BY <1>2
<1>4. all[onShelves + 1] \in Entry
  BY <1>1
<1>5. filled \in Seq(Entry) /\ before \in Seq(Seq(Entry)) /\ next \in Seq(Seq(Entry))
  <2>1. /\ Append(group, all[onShelves + 1]) \in Seq(Entry) /\ Append(<<>>, all[onShelves + 1]) \in Seq(Entry)
        /\ Append(shelves, group) \in Seq(Seq(Entry))
    BY <1>1, <1>4
  <2>2. filled \in Seq(Entry) /\ before \in Seq(Seq(Entry))
    BY <1>1, <2>1
  <2> HIDE DEF filled, before
  <2> QED
    BY <2>2
<1>6. Shown(all, next, onShelves + 1)
  <2>1. CASE onShelves = 0
    <3>1. next = <<<<all[1]>>>> /\ Len(all) # 0
      BY <1>1, <2>1
    <3> HIDE DEF next, all
    <3> QED
      BY <1>1, <2>1, <3>1, FirstShown
  <2>2. CASE onShelves # 0 /\ onShelves % Width = 0
    <3> DEFINE rows == Append(shelves, group)
    <3>1. /\ next = Append(rows, <<all[onShelves + 1]>>) /\ rows \in Seq(Seq(Entry))
          /\ onShelves \in 1 .. Len(all) - 1 /\ Shown(all, rows, onShelves)
      BY <1>1, <2>2
    <3> HIDE DEF next, all, rows
    <3> QED
      BY <1>1, <2>2, <3>1, NewShown
  <2>3. CASE onShelves # 0 /\ onShelves % Width # 0
    <3>1. /\ next = Append(shelves, Append(group, all[onShelves + 1]))
          /\ onShelves \in 1 .. Len(all) - 1
      BY <1>1, <2>3
    <3> HIDE DEF next, all
    <3> QED
      BY <1>1, <2>3, <3>1, MoreShown
  <2> QED
    BY <2>1, <2>2, <2>3
<1> HIDE DEF filled, before, all
<1>7. CASE last
  BY <1>1, <1>2, <1>3, <1>5, <1>6, <1>7 DEF PageInv, all
<1>8. CASE ~last
  <2>1. onShelves' < Len(all)
    BY <1>1, <1>2, <1>8
  <2>2. Append(shelves', group') = next
    BY <1>2, <1>8
  <2> QED
    BY <1>1, <1>2, <1>3, <1>5, <1>6, <1>8, <2>1, <2>2 DEF PageInv, all
<1> QED
  BY <1>7, <1>8

\* The page keeps its invariant.
LEMMA PageNext ==
    ASSUME M3u!WidthAssumption, FileInv, PageInv, [M3u!Next]_(M3u!vars) PROVE PageInv'
<1>1. CASE UNCHANGED M3u!vars
  BY <1>1, Zenon DEF M3u!vars, PageInv, Shown
<1>2. CASE M3u!Parse \/ M3u!SkipBlank \/ M3u!ParseThrows \/ M3u!Parsed \/ M3u!CreateXCategories
  <2>1. UNCHANGED <<onShelves, group, shelves>> /\ state \notin {"shelve", "answered"} /\ state' # "shelve"
    BY <1>2 DEF M3u!Parse, M3u!SkipBlank, M3u!ParseThrows, M3u!Parsed, M3u!CreateXCategories, M3u!NoPage
  <2> QED
    BY <2>1 DEF PageInv
<1>3. CASE M3u!AddCategory
  <2>1. UNCHANGED <<onShelves, group, shelves>> /\ state = "menu" /\ state' # "shelve"
    BY <1>3 DEF M3u!AddCategory
  <2> QED
    BY <2>1 DEF PageInv
<1>4. CASE M3u!CreateM3U8Channels
  <2>1. /\ UNCHANGED <<onShelves, group, shelves, channels, asked>> /\ state = "parsed"
        /\ state' = "answered" \/ (state' = "shelve" /\ channels[asked] # <<>>)
    BY <1>4 DEF M3u!CreateM3U8Channels, M3u!NoPage, M3u!Asking
  <2>2. channels[asked] # <<>> => 0 < Len(channels[asked])
    BY AskedIs
  <2> QED
    BY <2>1, <2>2 DEF PageInv
<1> QED
  BY <1>1, <1>2, <1>3, <1>4, ShelveStep DEF M3u!Next

\* The page is what the invariant says when it is answered.
LEMMA PageHolds == PageInv => M3u!ShelvesRight
<1> SUFFICES ASSUME PageInv, state = "answered", onShelves # 0 PROVE M3u!ShelvesRight
  BY DEF M3u!ShelvesRight
<1>1. Shown(channels[asked], shelves, Len(channels[asked]))
  BY DEF PageInv
<1> QED
  BY <1>1, Zenon DEF M3u!ShelvesRight, Shown, Shelf, Place

-----------------------------------------------------------------------------

\* The pictures of a category in the menu, and whether it has its line.
OwnAt(c) == {k \in 1 .. Len(menu.images) : menu.images[k].category = c}
Listed(c) == \E a \in 1 .. Len(menu.items) : menu.items[a] = c

\* The invariant of the menu: the categories so far have their line and their pictures.
MenuInv ==
    /\ menu.items \in Seq(M3u!Texts) /\ menu.images \in Seq(Entry)
    /\ state \notin {"menu", "answered"} => menu.items = <<>> /\ menu.images = <<>>
    /\ Len(menu.items) <= Len(keys)
    /\ \A a \in 1 .. Len(menu.items) : menu.items[a] = keys[a]
    /\ state = "menu" => Len(menu.items) < Len(keys)
    /\ state = "answered" /\ menu.items # <<>> => Len(menu.items) = Len(keys)
    /\ \A c \in M3u!Texts :
          /\ Listed(c) => OwnAt(c) # {} /\ Cardinality(OwnAt(c)) <= Previews
          /\ ~Listed(c) => OwnAt(c) = {}

\* The menu is empty at first.
LEMMA MenuInit == M3u!Init => MenuInv
<1> SUFFICES ASSUME M3u!Init PROVE MenuInv
  OBVIOUS
<1>1. menu.items = <<>> /\ menu.images = <<>> /\ keys = <<>> /\ state = "parse"
  BY DEF M3u!Init
<1>2. \A c : ~Listed(c) /\ OwnAt(c) = {}
  BY <1>1 DEF Listed, OwnAt
<1> QED
  BY <1>1, <1>2 DEF MenuInv

\* A turn of the loop that makes the menu: the category's pictures are the last ones.
LEMMA AddCategoryStep ==
    ASSUME M3u!WidthAssumption, FileInv, MenuInv, M3u!AddCategory
    PROVE  MenuInv'
<1> DEFINE n    == Len(menu.items) + 1
           cat  == keys[n]
           own  == channels[cat]
           part == IF Len(own) <= Previews THEN own ELSE SubSeq(own, 1, Previews)
           items == menu.items
           images == menu.images
<1>1. /\ state = "menu" /\ keys' = keys
      /\ menu' = [items |-> Append(items, cat), images |-> images \o part]
      /\ state' = IF n = Len(keys) THEN "answered" ELSE "menu"
  BY DEF M3u!AddCategory
<1>2. /\ items \in Seq(M3u!Texts) /\ images \in Seq(Entry) /\ n \in 1 .. Len(keys)
      /\ keys \in Seq(M3u!Texts) /\ cat \in M3u!Texts /\ n = Len(items) + 1
      /\ \A a \in 1 .. Len(items) : items[a] = keys[a]
  BY <1>1 DEF MenuInv, FileInv, Dictionary
<1>3. own \in Seq(Entry) /\ own # <<>> /\ \A a \in 1 .. Len(own) : own[a].category = cat
  BY <1>2 DEF FileInv, Dictionary
<1>4. /\ part \in Seq(Entry) /\ Len(part) \in 1 .. Previews
      /\ \A a \in 1 .. Len(part) : part[a].category = cat
  <2> HIDE DEF own, cat
  <2>1. Len(own) \in Nat \ {0} /\ Previews \in Nat \ {0}
    BY <1>3 DEF M3u!WidthAssumption
  <2>2. CASE Len(own) <= Previews
    BY <1>3, <2>1, <2>2
  <2>3. CASE ~(Len(own) <= Previews)
    <3>1. /\ part = SubSeq(own, 1, Previews) /\ Previews <= Len(own)
      BY <2>1, <2>3
    <3>2. Len(SubSeq(own, 1, Previews)) = Previews /\ SubSeq(own, 1, Previews) \in Seq(Entry)
      BY <1>3, <2>1, <3>1
    <3>3. \A a \in 1 .. Previews : SubSeq(own, 1, Previews)[a] = own[a]
      BY <1>3, <2>1, <3>1
    <3> QED
      BY <1>3, <2>1, <3>1, <3>2, <3>3
  <2> QED
    BY <2>2, <2>3
<1> DEFINE items2 == Append(items, cat)
           images2 == images \o part
<1>5. menu'.items = items2 /\ menu'.images = images2
  BY <1>1
<1> HIDE DEF part, own, cat
<1>6. /\ items2 \in Seq(M3u!Texts) /\ Len(items2) = n
      /\ items2[n] = cat /\ \A a \in 1 .. Len(items) : items2[a] = items[a]
  BY <1>2
<1>7. /\ images2 \in Seq(Entry) /\ Len(images2) = Len(images) + Len(part)
      /\ \A k \in 1 .. Len(images) : images2[k] = images[k]
      /\ \A k \in Len(images) + 1 .. Len(images) + Len(part) : images2[k].category = cat
  <2>1. \A k \in Len(images) + 1 .. Len(images) + Len(part) :
            k - Len(images) \in 1 .. Len(part) /\ images2[k] = part[k - Len(images)]
    BY <1>2, <1>4
  <2> QED
    BY <1>2, <1>4, <2>1
<1> HIDE DEF items2, images2
<1>8. ~Listed(cat)
  <2>1. ASSUME NEW a \in 1 .. Len(items), items[a] = cat PROVE FALSE
    <3>1. a \in 1 .. Len(keys) /\ keys[a] = keys[n] /\ a # n
      BY <1>2, <2>1 DEF cat
    <3> QED
      BY <1>2, <3>1 DEF FileInv, Dictionary
  <2> QED
    BY <2>1 DEF Listed
<1>9. ASSUME NEW c \in M3u!Texts, c # cat
      PROVE  OwnAt(c)' = OwnAt(c) /\ (Listed(c)' <=> Listed(c))
  <2>1. ASSUME NEW k PROVE k \in OwnAt(c)' <=> k \in OwnAt(c)
    <3>1. \A l \in 1 .. Len(images2) : l \in 1 .. Len(images) \/ l \in Len(images) + 1 .. Len(images) + Len(part)
      BY <1>2, <1>4, <1>7
    <3>2. \A l \in 1 .. Len(images) : l \in 1 .. Len(images2)
      BY <1>2, <1>4, <1>7
    <3> QED
      BY <1>5, <1>7, <1>9, <3>1, <3>2 DEF OwnAt
  <2>2. OwnAt(c)' = OwnAt(c)
    BY <2>1
  <2>3. \A a \in 1 .. n : a \in 1 .. Len(items) \/ a = n
    BY <1>2
  <2>4. \A a \in 1 .. Len(items) : a \in 1 .. n
    BY <1>2
  <2>5. Listed(c)' <=> Listed(c)
    BY <1>5, <1>6, <1>9, <2>3, <2>4 DEF Listed
  <2> QED
    BY <2>2, <2>5
<1>10. PICK d \in M3u!Texts : d = cat
  BY <1>2
<1>11. Listed(d)' /\ OwnAt(d)' # {} /\ Cardinality(OwnAt(d)') <= Previews
  <2> DEFINE from == Len(images) + 1
             to   == Len(images) + Len(part)
  <2>1. Listed(d)'
    <3>1. n \in 1 .. Len(menu'.items) /\ menu'.items[n] = d
      BY <1>2, <1>5, <1>6, <1>10
    <3> QED
      BY <3>1 DEF Listed
  <2>2. Len(images) \in Nat /\ from \in Int /\ to \in Int /\ Len(part) = to - from + 1 /\ from <= to
    BY <1>2, <1>4
  <2>3. \A k \in 1 .. Len(images) : images[k].category # cat
    BY <1>2, <1>8, <1>10 DEF MenuInv, OwnAt
  <2>4. OwnAt(d)' = from .. to
    <3>1. ASSUME NEW k PROVE k \in OwnAt(d)' <=> k \in from .. to
      <4>1. k \in 1 .. Len(images2) <=> k \in 1 .. Len(images) \/ k \in from .. to
        BY <1>2, <1>4, <1>7
      <4>2. k \in 1 .. Len(images) => images2[k].category # cat
        BY <1>7, <2>3
      <4>3. k \in from .. to => images2[k].category = cat
        BY <1>7
      <4> QED
        BY <1>5, <1>10, <4>1, <4>2, <4>3 DEF OwnAt
    <3> QED
      BY <3>1
  <2>5. Cardinality(from .. to) = Len(part)
    <3> HIDE DEF from, to
    <3>1. Cardinality(from .. to) = IF from > to THEN 0 ELSE to - from + 1
      BY <2>2, FS_Interval
    <3> QED
      BY <2>2, <3>1
  <2>6. from \in from .. to
    BY <2>2
  <2> QED
    <3>1. Len(part) <= Previews
      BY <1>4 DEF M3u!WidthAssumption
    <3> QED
      BY <2>1, <2>4, <2>5, <2>6, <3>1, Zenon
<1>12. ASSUME NEW c \in M3u!Texts
       PROVE  /\ Listed(c)' => OwnAt(c)' # {} /\ Cardinality(OwnAt(c)') <= Previews
              /\ ~Listed(c)' => OwnAt(c)' = {}
  <2>1. CASE c = cat
    <3>1. c = d
      BY <1>10, <2>1
    <3> QED
      BY <1>11, <3>1
  <2>2. CASE c # cat
    <3>1. OwnAt(c)' = OwnAt(c) /\ (Listed(c)' <=> Listed(c))
      BY <1>9, <2>2
    <3>2. /\ Listed(c) => OwnAt(c) # {} /\ Cardinality(OwnAt(c)) <= Previews
          /\ ~Listed(c) => OwnAt(c) = {}
      BY DEF MenuInv
    <3> QED
      BY <3>1, <3>2
  <2> QED
    BY <2>1, <2>2
<1>13. /\ (menu.items \in Seq(M3u!Texts) /\ menu.images \in Seq(Entry))'
       /\ (state \notin {"menu", "answered"} => menu.items = <<>> /\ menu.images = <<>>)'
       /\ (Len(menu.items) <= Len(keys))'
       /\ (state = "menu" => Len(menu.items) < Len(keys))'
       /\ (state = "answered" /\ menu.items # <<>> => Len(menu.items) = Len(keys))'
  <2>1. Len(menu'.items) = n /\ menu'.items # <<>> /\ Len(keys) \in Nat /\ n <= Len(keys)
    BY <1>2, <1>5, <1>6
  <2>2. menu'.items \in Seq(M3u!Texts) /\ menu'.images \in Seq(Entry)
    BY <1>5, <1>6, <1>7
  <2>3. state' = "menu" => n < Len(keys)
    BY <1>1, <2>1
  <2>4. state' = "answered" => n = Len(keys)
    BY <1>1
  <2>5. state' \in {"menu", "answered"}
    BY <1>1
  <2> QED
    BY <1>1, <2>1, <2>2, <2>3, <2>4, <2>5
<1>14. (\A a \in 1 .. Len(menu.items) : menu.items[a] = keys[a])'
  <2>1. \A a \in 1 .. n : a \in 1 .. Len(items) \/ a = n
    BY <1>2
  <2>2. \A a \in 1 .. n : items2[a] = keys[a]
    BY <1>2, <1>6, <2>1 DEF cat
  <2> QED
    BY <1>1, <1>5, <1>6, <2>2
<1> QED
  BY <1>12, <1>13, <1>14 DEF MenuInv

\* The keys are a sequence after a step, too.
LEMMA ParseKeys == ASSUME FileInv, FileInv' PROVE Len(keys') \in Nat
  BY DEF FileInv, Dictionary

\* The menu keeps its invariant.
LEMMA MenuNext ==
    ASSUME M3u!WidthAssumption, FileInv, FileInv', MenuInv, [M3u!Next]_(M3u!vars) PROVE MenuInv'
<1>1. CASE UNCHANGED M3u!vars
  BY <1>1 DEF M3u!vars, MenuInv, Listed, OwnAt
<1>2. CASE M3u!Parse \/ M3u!SkipBlank \/ M3u!ParseThrows \/ M3u!Parsed
  <2>1. menu' = menu /\ menu.items = <<>> /\ menu.images = <<>> /\ state' # "menu"
    BY <1>2 DEF M3u!Parse, M3u!SkipBlank, M3u!ParseThrows, M3u!Parsed, M3u!NoPage, MenuInv
  <2>2. \A c : Listed(c)' = FALSE /\ OwnAt(c)' = {}
    BY <2>1 DEF Listed, OwnAt
  <2>3. Len(keys') \in Nat
    BY ParseKeys
  <2> QED
    BY <2>1, <2>2, <2>3 DEF MenuInv
<1>3. CASE M3u!CreateXCategories
  <2>1. /\ UNCHANGED <<menu, keys>> /\ menu.items = <<>> /\ menu.images = <<>>
        /\ state' = "answered" \/ (state' = "menu" /\ keys # <<>>)
    BY <1>3 DEF M3u!CreateXCategories, M3u!NoPage, MenuInv
  <2>2. keys # <<>> => 0 < Len(keys)
    BY DEF FileInv, Dictionary
  <2> QED
    BY <2>1, <2>2 DEF MenuInv, Listed, OwnAt
<1>4. CASE M3u!CreateM3U8Channels \/ M3u!Shelve
  <2>1. /\ UNCHANGED <<menu, keys>> /\ menu.items = <<>> /\ menu.images = <<>>
        /\ state' # "menu"
    BY <1>4 DEF M3u!CreateM3U8Channels, M3u!Shelve, M3u!NoPage, MenuInv
  <2> QED
    BY <2>1 DEF MenuInv, Listed, OwnAt
<1> QED
  BY <1>1, <1>2, <1>3, <1>4, AddCategoryStep DEF M3u!Next

\* The instance's Cardinality is the one of FiniteSetTheorems.
LEMMA M3uCardinality == ASSUME NEW S PROVE M3u!Cardinality(S) = Cardinality(S)
  BY Zenon DEF M3u!Cardinality, Cardinality

\* The menu is what the invariant says when it is answered.
LEMMA MenuHolds == ASSUME FileInv, MenuInv PROVE M3u!MenuRight
<1> SUFFICES ASSUME state = "answered", menu.items # <<>>
             PROVE  /\ menu.items = keys
                    /\ \A c \in M3u!Texts : channels[c] # <<>> =>
                          /\ \E a \in 1 .. Len(keys) : keys[a] = c
                          /\ OwnAt(c) # {} /\ Cardinality(OwnAt(c)) <= Previews
  BY M3uCardinality, Zenon DEF M3u!MenuRight, OwnAt
<1>1. /\ menu.items \in Seq(M3u!Texts) /\ keys \in Seq(M3u!Texts) /\ Len(menu.items) = Len(keys)
      /\ \A a \in 1 .. Len(menu.items) : menu.items[a] = keys[a]
  BY DEF MenuInv, FileInv, Dictionary
<1>2. menu.items = keys
  BY <1>1
<1>3. ASSUME NEW c \in M3u!Texts, channels[c] # <<>>
      PROVE  /\ \E a \in 1 .. Len(keys) : keys[a] = c
             /\ OwnAt(c) # {} /\ Cardinality(OwnAt(c)) <= Previews
  <2>1. \E a \in 1 .. Len(keys) : keys[a] = c
    BY <1>3 DEF FileInv, Dictionary
  <2>2. Listed(c)
    BY <1>1, <2>1 DEF Listed
  <2> QED
    BY <2>1, <2>2 DEF MenuInv
<1> QED
  BY <1>2, <1>3

-----------------------------------------------------------------------------
\* The file is read, the page and the menu made.

M3uInv == FileInv /\ PageInv /\ MenuInv

\* The constants are what the lemmas above assume of them.
LEMMA M3uAssumed == M3u!WidthAssumption /\ M3u!ChannelsAssumption
  BY ListsAssumption

\* The invariant holds at first.
LEMMA M3uInit == M3u!Init => M3uInv
  BY M3uAssumed, FileInit, PageInit, MenuInit DEF M3uInv

\* And every step keeps it.
LEMMA M3uNext == M3uInv /\ [M3u!Next]_(M3u!vars) => M3uInv'
<1> SUFFICES ASSUME M3uInv, [M3u!Next]_(M3u!vars) PROVE M3uInv'
  OBVIOUS
<1>1. FileInv'
  BY M3uAssumed, FileNext DEF M3uInv
<1> QED
  BY <1>1, M3uAssumed, PageNext, MenuNext DEF M3uInv

\* It is what the run checks.
LEMMA M3uHolds == M3uInv => ChannelsRight
  BY M3uAssumed, FileHolds, PageHolds, MenuHolds DEF M3uInv, ChannelsRight, M3u!PagesRight

-----------------------------------------------------------------------------
\* Beside each other.

\* A behaviour of the run is one of the fan-out's, one of the buttons' and one of
\* the file's.
LEMMA EitherIsPart == SpecEither => Fanout!Spec /\ Pages!Spec /\ M3u!Spec
<1>1. InitEither => Fanout!Init /\ Pages!Init /\ M3u!Init
  BY DEF InitEither
<1>2. [NextEither]_<<subject, vars, fanoutVars, linksVars, m3uVars>> =>
          /\ [Fanout!Next]_(Fanout!vars) /\ [Pages!Next]_(Pages!vars)
          /\ [M3u!Next]_(M3u!vars)
  BY DEF NextEither, fanoutVars, linksVars, m3uVars, Fanout!vars, Pages!vars, M3u!vars
<1> QED
  BY <1>1, <1>2, PTL DEF SpecEither, Fanout!Spec, Pages!Spec, M3u!Spec

\* Whatever tasks meet in the dictionary, what a site's page loses is bounded by
\* the Adds that met, and is nothing if none did, for any number of pages; and the
\* buttons of a page are those of the links that were found, for any number of frames.
THEOREM PagesTheorem == SpecEither => []PagesWhole
<1>1. FanoutInv /\ LinksInv => PagesWhole
  BY FanoutHolds DEF LinksInv, PagesWhole
<1> QED
  BY <1>1, FanoutInit, FanoutNext, LinksInit, LinksNext, EitherIsPart, PTL DEF Fanout!Spec, Pages!Spec

\* What is shown of an m3u file is all of it, each name once and with its last url,
\* in the order of the file; a blank line inside makes the request fail.  The page
\* of a category and the menu are made of just that, for files of any length and
\* shelves of any width.
THEOREM ChannelsTheorem == SpecEither => []ChannelsRight
BY M3uInit, M3uNext, M3uHolds, EitherIsPart, PTL DEF M3u!Spec

=============================================================================
