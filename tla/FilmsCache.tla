------------------------------ MODULE FilmsCache ------------------------------
(***************************************************************************)
(* RussianCartoons.GetCatalogue: the catalogue is kept for a day in the    *)
(* static document _films, which the request that finds it missing or old  *)
(* replaces by an empty one and fills, entry by entry, while it makes its  *)
(* own page.  Other requests meanwhile take the document for the cache.    *)
(***************************************************************************)
EXTENDS Naturals, FiniteSets

CONSTANTS Requests,   \* the requests served at one time
          Entries,    \* the number of entries of the catalogue
          MaxAge      \* bound: the ticks in which the document's age is told apart

EntriesAssumption == Entries \in Nat \ {0}
AgeAssumption     == MaxAge \in Nat

VARIABLES
    films,     \* the static document
    pc,        \* the next step of each request
    next,      \* the entry a filling request adds next
    page,      \* the entries on the page a request has answered with
    up         \* whether the site answers

vars == <<films, pc, next, page, up>>

Index   == 1 .. Entries
Nothing == [i \in Index |-> 0]
Once    == [i \in Index |-> 1]

\* made and root: the document is there, and has its element items with the
\* time; info counts its entries.  fillers and torn are history: how many
\* requests have made themselves the filler of this document, and whether one
\* of them has failed.
Null == [made |-> FALSE, root |-> FALSE, age |-> 0, info |-> Nothing, fillers |-> 0, torn |-> FALSE]
Steps == {"idle", "look", "assign", "root", "load", "fill", "read"}

Init ==
    /\ films = Null
    /\ pc    = [r \in Requests |-> "idle"]
    /\ next  = [r \in Requests |-> 0]
    /\ page  = [r \in Requests |-> Nothing]
    /\ up    = TRUE

Goto(r, step) == pc' = [pc EXCEPT ![r] = step]
Filling == {r \in Requests : pc[r] \in {"root", "load", "fill"}}

\* Mutant of Old: a document is never too old.
OldNever == FALSE

\* The document is more than a day old.
Old == films.age > MaxAge

Begin(r) ==
    /\ pc[r] = "idle"
    /\ Goto(r, "look")
    /\ page' = [page EXCEPT ![r] = Nothing]
    /\ UNCHANGED <<films, next, up>>

\* isCached: a document with a time of the last day is the cache.
Look(r) ==
    /\ pc[r] = "look"
    /\ films.made => films.root
    /\ Goto(r, IF films.made /\ ~Old THEN "read" ELSE "assign")
    /\ UNCHANGED <<films, next, page, up>>

\* The document has no items yet: a null reference.
LookThrows(r) ==
    /\ pc[r] = "look"
    /\ films.made /\ ~films.root
    /\ Goto(r, "idle")
    /\ UNCHANGED <<films, next, page, up>>

\* InitCache: a new document goes into the field, then its element items.
Assign(r) ==
    /\ pc[r] = "assign"
    /\ films' = [Null EXCEPT !.made = TRUE, !.fillers = Cardinality(Filling) + 1]
    /\ Goto(r, "root")
    /\ UNCHANGED <<next, page, up>>

AddRoot(r) ==
    /\ pc[r] = "root"
    /\ ~films.root
    /\ films' = [films EXCEPT !.root = TRUE]
    /\ Goto(r, "load")
    /\ UNCHANGED <<next, page, up>>

\* A filler that stops short; what it added stays.
Fail(r) ==
    /\ Goto(r, "idle")
    /\ next' = [next EXCEPT ![r] = 0]
    /\ films' = [films EXCEPT !.torn = TRUE]

\* Another request's InitCache has given the document in the field its items:
\* a document holds one element only.
AddRootThrows(r) ==
    /\ pc[r] = "root"
    /\ films.root
    /\ Fail(r)
    /\ UNCHANGED <<page, up>>

\* The names of the catalogue come from the site.
Load(r) ==
    /\ pc[r] = "load"
    /\ next' = [next EXCEPT ![r] = 1]
    /\ Goto(r, "fill")
    /\ UNCHANGED <<films, page, up>>

\* Mutant of Fill: the loop ends one entry early.
FillShort(r) ==
    /\ pc[r] = "fill"
    /\ films.root
    /\ films' = [films EXCEPT !.info[next[r]] = @ + 1]
    /\ page' = [page EXCEPT ![r][next[r]] = 1]
    /\ IF next[r] + 1 >= Entries
       THEN Goto(r, "idle") /\ next' = [next EXCEPT ![r] = 0]
       ELSE next' = [next EXCEPT ![r] = @ + 1] /\ UNCHANGED pc
    /\ UNCHANGED up

\* One entry is loaded, put in the document and on the page; the last one
\* ends the request.
Fill(r) ==
    /\ pc[r] = "fill"
    /\ films.root
    /\ films' = [films EXCEPT !.info[next[r]] = @ + 1]
    /\ page' = [page EXCEPT ![r][next[r]] = 1]
    /\ IF next[r] = Entries
       THEN Goto(r, "idle") /\ next' = [next EXCEPT ![r] = 0]
       ELSE next' = [next EXCEPT ![r] = @ + 1] /\ UNCHANGED pc
    /\ UNCHANGED up

\* The site fails, or the document in the field is a new one without items.
FillThrows(r) ==
    /\ \/ pc[r] \in {"load", "fill"} /\ ~up
       \/ pc[r] = "fill" /\ ~films.root
    /\ Fail(r)
    /\ page' = [page EXCEPT ![r] = Nothing]
    /\ UNCHANGED up

\* The page is made of the entries the document has.
Read(r) ==
    /\ pc[r] = "read"
    /\ page' = [page EXCEPT ![r] = films.info]
    /\ Goto(r, "idle")
    /\ UNCHANGED <<films, next, up>>

GetCatalogue(r) ==
    \/ Look(r) \/ LookThrows(r) \/ Assign(r) \/ AddRoot(r) \/ AddRootThrows(r)
    \/ Load(r) \/ Fill(r) \/ FillThrows(r) \/ Read(r)

\* Bound: the age of a document stops counting when it is old.
Tick ==
    /\ films.root /\ films.age <= MaxAge
    /\ films' = [films EXCEPT !.age = @ + 1]
    /\ UNCHANGED <<pc, next, page, up>>

SiteChanges == up' = ~up /\ UNCHANGED <<films, pc, next, page>>

Next ==
    \/ \E r \in Requests : Begin(r) \/ GetCatalogue(r)
    \/ Tick
    \/ SiteChanges

Spec == Init /\ [][Next]_vars

\* A request that runs goes on, as a call to the site answers or times out; days go by.
Fairness == WF_vars(Tick) /\ \A r \in Requests : WF_vars(GetCatalogue(r))
FairSpec == Spec /\ Fairness

-----------------------------------------------------------------------------
\* Properties.

Docs == [made : BOOLEAN, root : BOOLEAN, age : 0 .. MaxAge + 1, info : [Index -> Nat],
         fillers : 0 .. Cardinality(Requests), torn : BOOLEAN]

\* Every variable keeps its type, and a request that fills adds an entry there is.
TypeOK ==
    /\ films \in Docs
    /\ pc \in [Requests -> Steps]
    /\ next \in [Requests -> 0 .. Entries]
    /\ page \in [Requests -> [Index -> Nat]]
    /\ up \in BOOLEAN
    /\ \A r \in Requests : pc[r] = "fill" <=> next[r] # 0

\* What is served from the cache for a day is the whole catalogue, each entry
\* once, provided one request alone filled it and came to its end.  However many
\* found the document missing, an entry is in it at most once for each of them.
CacheWhole ==
    /\ films.made /\ Filling = {} /\ films.fillers = 1 /\ ~films.torn => films.info = Once
    /\ \A i \in Index : films.info[i] <= films.fillers

\* A document without items, on which every request for the catalogue fails,
\* does not stay; nor does one that a failing filler left incomplete, as long as
\* the catalogue is asked for.
Recovers ==
    /\ films.made /\ ~films.root ~> films.root
    /\ []<>(\E r \in Requests : pc[r] = "look") => (films.torn ~> ~films.torn)

=============================================================================
