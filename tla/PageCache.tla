------------------------------ MODULE PageCache ------------------------------
(***************************************************************************)
(* The page cache of the channel managers: AppleBase.ReadDoc and SaveDoc   *)
(* over the files of AppleCache, and the methods of the site managers that *)
(* read and fill it.  Every request runs a manager of its own, so nothing  *)
(* but the file system orders the steps of two requests: the test that a   *)
(* file exists, the look at its creation time, its deletion, its loading   *)
(* and its writing are separate steps.                                     *)
(***************************************************************************)
EXTENDS Naturals, FiniteSets

CONSTANTS Requests,   \* the requests the service works on at one time
          Titles,     \* the movie titles asked for (a title names a cache file)
          Exts,       \* the values of MultPoisk's parameter ext
          Lifetime,   \* the ticks a file is good for
          Shelves,    \* bound: the sets of file names a behaviour may be about
          Watched,    \* bound: the names the liveness properties are about
          None

VARIABLES file,   \* the files of AppleCache
          freed,  \* the creation time a name has just been freed with (in ticks)
          job,    \* what each request is doing
          up,     \* whether the sites answer every call
          hour,   \* the parity of the hour: no tick goes by unseen
          shelf   \* bound: the names this behaviour is about

vars == <<file, freed, job, up, hour, shelf>>

SiteNames == {"ucoz", "mult", "serialy", "multSerialy", "multPoisk", "multPosikSerial",
              "multPoiskNew", "kino1080", "cartoonHd", "disney", "multBas", "megaserial",
              "bestRussian"}
Names == SiteNames \cup Titles

\* A title that was the name of MultPoisk's file would mix a movie up with it.
ASSUME CacheAssumption ==
    /\ Lifetime \in Nat
    /\ None \notin Names \cup Exts
    /\ "multPoisk" \notin Titles

Ages  == 0 .. Lifetime + 1

\* A page is what one method of one manager makes of one argument.
Pages == {"UcozKino", "Ucoz", "MultPoisk", "Kino1080", "CartoonHd", "OnlyMults", "AdultMult",
          "Baskino", "Megaserial", "BestRussian", "YourCinema"}
         \X (Names \cup Exts)
NoPage == <<None, None>>

\* age counts from the creation time, old from when the page was made;
\* short says that the site failed while the page was made.
Absent == [is |-> "absent", page |-> NoPage, short |-> FALSE, age |-> 0, old |-> 0]
Files == [is : {"absent", "writing", "torn", "whole"}, page : Pages \cup {NoPage},
          short : BOOLEAN, age : Ages, old : Ages]

Idle == [pc |-> "idle", name |-> None, page |-> NoPage, poster |-> None, save |-> None,
         lax |-> FALSE, short |-> FALSE]
Steps == {"idle", "exists", "age", "delete", "load", "loading", "build",
          "saveExists", "create", "write"}
Jobs == [pc : Steps, name : Names \cup {None}, page : Pages \cup {NoPage},
         poster : Names \cup {None}, save : Names \cup {None}, lax : BOOLEAN, short : BOOLEAN]

Init ==
    /\ shelf \in Shelves
    /\ file  = [n \in Names |-> Absent]
    /\ freed = [n \in Names |-> 0]
    /\ job   = [r \in Requests |-> Idle]
    /\ up    = TRUE
    /\ hour  = 0

-----------------------------------------------------------------------------
\* The steps of a request.

At(r, step) == job[r].pc = step
Goto(r, step) == job' = [job EXCEPT ![r].pc = step]
Finish(r) == job' = [job EXCEPT ![r] = Idle]

Opened(n) == \E q \in Requests : At(q, "loading") /\ job[q].name = n

\* ReadDoc returned null: build the page, or answer without posters.
Missed(r) ==
    IF job[r].page = NoPage THEN Finish(r)
    ELSE job' = [job EXCEPT ![r].pc = "build", ![r].name = None]

Exists(r) ==
    /\ At(r, "exists")
    /\ IF file[job[r].name].is = "absent" THEN Missed(r) ELSE Goto(r, "age")
    /\ UNCHANGED <<file, freed, up, hour, shelf>>

\* Mutants of Expired: an hour too late; no look at the age at all.
ExpiredLate(n)  == file[n].is = "absent" \/ file[n].age > Lifetime + 1
ExpiredNever(n) == file[n].is = "absent"

\* The creation time of a file that has gone is the year 1601.
Expired(n) == file[n].is = "absent" \/ file[n].age > Lifetime

CheckAge(r) ==
    /\ At(r, "age")
    /\ Goto(r, IF Expired(job[r].name) THEN "delete" ELSE "load")
    /\ UNCHANGED <<file, freed, up, hour, shelf>>

\* Mutant of Delete: only a file that loads is deleted.
DeleteWhole(r) ==
    LET n == job[r].name IN
    /\ At(r, "delete")
    /\ Missed(r)
    /\ IF file[n].is # "whole" \/ Opened(n)
       THEN UNCHANGED <<file, freed>>
       ELSE /\ file'  = [file EXCEPT ![n] = Absent]
            /\ freed' = [freed EXCEPT ![n] = file[n].age]
    /\ UNCHANGED <<up, hour, shelf>>

\* A file somebody has open is not deleted; the exception is swallowed.
Delete(r) ==
    LET n == job[r].name IN
    /\ At(r, "delete")
    /\ Missed(r)
    /\ IF file[n].is \in {"absent", "writing"} \/ Opened(n)
       THEN UNCHANGED <<file, freed>>
       ELSE /\ file'  = [file EXCEPT ![n] = Absent]
            /\ freed' = [freed EXCEPT ![n] = file[n].age]
    /\ UNCHANGED <<up, hour, shelf>>

\* A file that is gone or being written cannot be opened.
Open(r) ==
    /\ At(r, "load")
    /\ IF file[job[r].name].is \in {"absent", "writing"} THEN Missed(r) ELSE Goto(r, "loading")
    /\ UNCHANGED <<file, freed, up, hour, shelf>>

Load(r) ==
    /\ At(r, "loading")
    /\ IF file[job[r].name].is = "torn" THEN Missed(r) ELSE Finish(r)
    /\ UNCHANGED <<file, freed, up, hour, shelf>>

ReadDoc(r) == Exists(r) \/ CheckAge(r) \/ Delete(r) \/ Open(r) \/ Load(r)

\* What follows a page that was made: posters from another file, or SaveDoc.
MadePage(r, short) ==
    job' = [job EXCEPT ![r] =
        IF job[r].poster # None THEN [Idle EXCEPT !.pc = "exists", !.name = job[r].poster]
        ELSE IF job[r].save # None THEN [@ EXCEPT !.pc = "saveExists", !.short = short]
        ELSE Idle]

\* The page is made from the site.  Of a site that fails, a lax method keeps
\* what it got; any method may throw.
Build(r) ==
    /\ At(r, "build")
    /\ \/ MadePage(r, FALSE)
       \/ ~up /\ job[r].lax /\ MadePage(r, TRUE)
       \/ ~up /\ Finish(r)
    /\ UNCHANGED <<file, freed, up, hour, shelf>>

SaveExists(r) ==
    /\ At(r, "saveExists")
    /\ IF file[job[r].save].is = "absent" THEN Goto(r, "create") ELSE Finish(r)
    /\ UNCHANGED <<file, freed, up, hour, shelf>>

\* Creation times of a file made by Save: a file written over keeps its own,
\* and a name just freed may be given back the one it had.
BirthAges(n) == IF file[n].is = "absent" THEN {0, freed[n]} ELSE {file[n].age}

Create(r) ==
    LET n == job[r].save IN
    /\ At(r, "create")
    /\ IF file[n].is = "writing" \/ Opened(n)
       THEN Finish(r) /\ UNCHANGED file
       ELSE /\ Goto(r, "write")
            /\ \E a \in BirthAges(n) :
                 file' = [file EXCEPT ![n] = [Absent EXCEPT !.is = "writing", !.age = a]]
    /\ UNCHANGED <<freed, up, hour, shelf>>

Written(r) == [page |-> job[r].page, short |-> job[r].short]

EndWrite(r) ==
    LET n == job[r].save IN
    /\ At(r, "write")
    /\ file' = [file EXCEPT ![n].is = "whole", ![n].page = Written(r).page,
                            ![n].short = Written(r).short]
    /\ Finish(r)
    /\ UNCHANGED <<freed, up, hour, shelf>>

\* Save throws on text that XML cannot hold; what was written stays.
WriteThrows(r) ==
    /\ At(r, "write")
    /\ file' = [file EXCEPT ![job[r].save].is = "torn"]
    /\ Finish(r)
    /\ UNCHANGED <<freed, up, hour, shelf>>

SaveDoc(r) == SaveExists(r) \/ Create(r) \/ EndWrite(r) \/ WriteThrows(r)

-----------------------------------------------------------------------------
\* The methods of the managers.

\* Names a job needs are on the shelf; the job starts at its first step.
Begin(r, j) ==
    /\ At(r, "idle")
    /\ {j.name, j.poster, j.save} \subseteq shelf \cup {None}
    /\ {j.name, j.poster, j.save} \cap shelf # {}
    /\ job' = [job EXCEPT ![r] = j]
    /\ UNCHANGED <<file, freed, up, hour, shelf>>

\* A page kept under n by the method that also reads it there.
Cached(site, n) ==
    [Idle EXCEPT !.pc = "exists", !.name = n, !.page = <<site, n>>, !.save = n]
Lax(j) == [j EXCEPT !.lax = TRUE]
\* A page that is made without a look at the cache first.
Made(site, n) == [Idle EXCEPT !.pc = "build", !.page = <<site, n>>]

UcozKinoGetContent(r) == \E n \in {"ucoz", "mult", "serialy"} : Begin(r, Cached("UcozKino", n))
UcozGetContent(r) == Begin(r, Cached("Ucoz", "multSerialy"))
Kino1080GetContent(r) == Begin(r, Lax(Cached("Kino1080", "kino1080")))
CartoonHdGetCategories(r) == Begin(r, Lax(Cached("CartoonHd", "cartoonHd")))
OnlyMultsGetCategories(r) == Begin(r, Cached("OnlyMults", "disney"))
BaskinoGetCategories(r) == Begin(r, Cached("Baskino", "multBas"))
\* Mutant of MegaserialGetCategories: the failure of a call is swallowed.
MegaserialLax(r) == Begin(r, Lax(Cached("Megaserial", "megaserial")))
MegaserialGetCategories(r) == Begin(r, Cached("Megaserial", "megaserial"))
GetBestRussian(r) == Begin(r, Cached("BestRussian", "bestRussian"))

\* Whatever ext asks for, the name of the file is the same.
MultPoisk(r) ==
    \E ext \in Exts :
        Begin(r, Lax([Cached("MultPoisk", "multPoisk") EXCEPT !.page = <<"MultPoisk", ext>>]))
\* Mutant of MultPoiskOther: both catalogues are given one name.
MultPoiskOneName(r) ==
    \E n \in {"multPosikSerial", "multPoiskNew"} :
        Begin(r, Lax([Cached("MultPoisk", "multPoiskNew") EXCEPT !.page = <<"MultPoisk", n>>]))
MultPoiskOther(r) ==
    \E n \in {"multPosikSerial", "multPoiskNew"} : Begin(r, Lax(Cached("MultPoisk", n)))

\* Saves under the name OnlyMults reads; its own read is commented out.
AdultMultGetContent(r) == Begin(r, Lax([Made("AdultMult", "disney") EXCEPT !.save = "disney"]))

\* The page of a movie is shown with posters from a catalogue, that of a
\* series without; neither is saved.
UcozKinoGetMovie(r) ==
    \E t \in Titles, n \in {"mult", "ucoz", None} :
        Begin(r, [Made("UcozKino", t) EXCEPT !.pc = "exists", !.name = t, !.poster = n])
ShowUcozSer(r) ==
    \E n \in {"mult", "serialy"} : Begin(r, [Made("UcozKino", n) EXCEPT !.poster = n])
Kino1080GetMovie(r) == \E t \in Titles : Begin(r, Lax(Cached("Kino1080", t)))
OnlyMultsGetMovie(r) ==
    \E t \in Titles : Begin(r, [Made("OnlyMults", t) EXCEPT !.pc = "exists", !.name = t])
YourCinemaGetMovie(r) == \E t \in Titles : Begin(r, Lax([Made("YourCinema", t) EXCEPT !.save = t]))

Methods(r) ==
    \/ UcozKinoGetContent(r) \/ UcozGetContent(r) \/ Kino1080GetContent(r)
    \/ CartoonHdGetCategories(r) \/ OnlyMultsGetCategories(r) \/ BaskinoGetCategories(r)
    \/ MegaserialGetCategories(r) \/ GetBestRussian(r) \/ MultPoisk(r) \/ MultPoiskOther(r)
    \/ AdultMultGetContent(r) \/ UcozKinoGetMovie(r) \/ ShowUcozSer(r)
    \/ Kino1080GetMovie(r) \/ OnlyMultsGetMovie(r) \/ YourCinemaGetMovie(r)

-----------------------------------------------------------------------------
\* The surroundings.

\* Bound: a tick stands for an hour; what a request does on the disk between
\* two calls to the sites takes less, so no tick falls within it.
Tick ==
    /\ \A r \in Requests : At(r, "idle") \/ At(r, "build")
    /\ file' = [n \in Names |->
                  IF file[n].is = "absent" THEN Absent
                  ELSE [file[n] EXCEPT !.age = IF @ > Lifetime THEN @ ELSE @ + 1,
                                       !.old = IF @ > Lifetime THEN @ ELSE @ + 1]]
    /\ freed' = [n \in Names |-> 0]
    /\ UNCHANGED <<job, up, shelf>>
    /\ hour' = 1 - hour

\* The service is stopped or killed at any point and started again.
Restart ==
    /\ job' = [r \in Requests |-> Idle]
    /\ file' = [n \in Names |->
                  IF file[n].is = "writing" THEN [file[n] EXCEPT !.is = "torn"] ELSE file[n]]
    /\ UNCHANGED <<freed, up, hour, shelf>>

SitesFail == up' = ~up /\ UNCHANGED <<file, freed, job, hour, shelf>>

Next ==
    \/ \E r \in Requests : Methods(r) \/ ReadDoc(r) \/ Build(r) \/ SaveDoc(r)
    \/ Tick
    \/ Restart
    \/ SitesFail

\* A request that runs goes on (a call to a site ends, if by its timeout), time
\* passes whatever the requests do, and the service is not restarted for ever.
Proceeds == \A r \in Requests : WF_vars(ReadDoc(r) \/ Build(r) \/ SaveDoc(r))
Fairness ==
    /\ Proceeds
    /\ <>[][~Restart]_vars
    /\ []<><<Tick>>_vars

Spec == Init /\ [][Next]_vars
FairSpec == Spec /\ Fairness

-----------------------------------------------------------------------------
\* Properties.

\* Every variable keeps its type; a file that is whole has a page.
TypeOK ==
    /\ file \in [Names -> Files]
    /\ freed \in [Names -> Ages]
    /\ job \in [Requests -> Jobs]
    /\ up \in BOOLEAN
    /\ hour \in {0, 1}
    /\ shelf \in Shelves
    /\ \A n \in Names : file[n].is = "whole" => file[n].page # NoPage

\* A request is answered from a file once Load has a whole file open: nobody
\* can write or delete it until it is closed.
Serving(r) == At(r, "loading") /\ file[job[r].name].is = "whole"
Asked(r) == IF job[r].page = NoPage THEN <<"UcozKino", job[r].name>> ELSE job[r].page

\* What comes out of the cache was made within its lifetime, however requests
\* for it interleave, write over each other and whatever creation time the
\* file system gives a file made again: no file is younger than its content.
Fresh == \A r \in Requests : Serving(r) => file[job[r].name].old <= Lifetime

\* The pages a name can hold that the reader of the name did not ask for:
\* another ext of MultPoisk, AdultMult's page for OnlyMults, and the page
\* another site made of the same title.  No other name mixes pages up.
OnlyKnownMixUps ==
    \A r \in Requests :
        Serving(r) =>
            LET got == file[job[r].name].page IN
            \/ got = Asked(r)
            \/ job[r].name = "multPoisk" /\ got[1] = "MultPoisk"
            \/ got = <<"AdultMult", "disney">> /\ Asked(r) = <<"OnlyMults", "disney">>
            \/ got[2] = Asked(r)[2] /\ got[2] \in Titles

\* A page that lacks what a failing site did not give is kept for the lifetime
\* of its file; only the managers that swallow the failure of a call can
\* leave one (OnlyMults, which does not, serves AdultMult's).
ShortPagesConfined ==
    \A r \in Requests :
        Serving(r) /\ file[job[r].name].short =>
            job[r].name \in Titles \cup {"kino1080", "cartoonHd", "disney", "multPoisk",
                                         "multPosikSerial", "multPoiskNew"}

ReadBy(n) == \E r \in Requests : At(r, "exists") /\ job[r].name = n
Torn(n)   == file[n].is = "torn"
Short(n)  == file[n].is = "whole" /\ file[n].short

\* A file that Save or a crash left half written, which SaveDoc will not touch
\* because it exists, does not block its name for good as long as the name is
\* asked for.
TornReplaced == \A n \in Watched : []<>ReadBy(n) => (Torn(n) ~> ~Torn(n))

\* Once the sites answer for good, the short pages made while they did not are
\* one day no longer served from a name that is asked for again and again.
OutageForgotten == \A n \in Watched : <>[]up /\ []<>ReadBy(n) => <>[]~Short(n)
=============================================================================
