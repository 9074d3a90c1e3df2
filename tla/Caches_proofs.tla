---------------------------- MODULE Caches_proofs ----------------------------
(***************************************************************************)
(* Proofs about the two caches of the managers, for any requests, titles,  *)
(* lifetime, shelves and entries.                                          *)
(*                                                                         *)
(* Of the files: a name is written by the methods it belongs to and read   *)
(* by methods it belongs to, which is an invariant of the jobs (JobRight)  *)
(* and of the files (FileRight); a file's creation time is never later     *)
(* than its content, and what a request has found young enough stays so,   *)
(* since the file can only be replaced by a newer one before it is served. *)
(*                                                                         *)
(* Of the films: each request that has made itself the filler of the       *)
(* document has an entry behind it, in the document, or before it, so what *)
(* the document holds of an entry and the fillers that have it before them *)
(* add up to no more than the fillers (Counted).                           *)
(***************************************************************************)
EXTENDS MCCaches, FiniteSetTheorems, TLAPS

-----------------------------------------------------------------------------
\* The files.

\* The method that saves pages under a name, and reads them there.
Owns(site, n) ==
    \/ site = "UcozKino" /\ n \in {"ucoz", "mult", "serialy"}
    \/ site = "Ucoz" /\ n = "multSerialy"
    \/ site = "MultPoisk" /\ n \in {"multPoisk", "multPosikSerial", "multPoiskNew"}
    \/ site = "Kino1080" /\ n = "kino1080"
    \/ site = "CartoonHd" /\ n = "cartoonHd"
    \/ site \in {"OnlyMults", "AdultMult"} /\ n = "disney"
    \/ site = "Baskino" /\ n = "multBas"
    \/ site = "Megaserial" /\ n = "megaserial"
    \/ site = "BestRussian" /\ n = "bestRussian"

\* The pages kept under n: of any site for a title, else of the methods it
\* belongs to; and made of that name, but for MultPoisk's ext.
Right(n, p) ==
    /\ n \notin Titles => Owns(p[1], n)
    /\ n # "multPoisk" => p[2] = n

LaxNames == Titles \cup {"kino1080", "cartoonHd", "disney", "multPoisk", "multPosikSerial",
                         "multPoiskNew"}

FileRight(n, f) ==
    /\ f.old <= f.age
    /\ f.is = "whole" => f.page # NoPage /\ Right(n, f.page) /\ (f.short => n \in LaxNames)

\* What a job asks for is a page of the name it reads, and what it saves one
\* of the name it saves.
AskedBy(j) == IF j.page = NoPage THEN <<"UcozKino", j.name>> ELSE j.page
Reads(j) ==
    /\ j.name \in Names
    /\ Right(j.name, AskedBy(j))
    /\ j.name = "disney" /\ "disney" \notin Titles => AskedBy(j)[1] = "OnlyMults"
Saves(j) ==
    /\ j.save \in Names
    /\ j.page # NoPage
    /\ Right(j.save, j.page)
    /\ j.lax \/ j.short => j.save \in LaxNames
JobRight(j) ==
    /\ j.pc \in {"exists", "age", "delete", "load", "loading"} => Reads(j)
    /\ j.save # None => Saves(j)
    /\ j.pc \in {"saveExists", "create", "write"} => j.save # None
    /\ j.poster \in {None, "mult", "ucoz", "serialy"}

FilesRight == \A n \in Names : FileRight(n, file[n])
JobsRight  == \A r \in Requests : JobRight(job[r])

\* A request that has looked at the age of a file finds nothing older in it.
Looked(j) == j.pc \in {"load", "loading"}
Young == \A r \in Requests : Looked(job[r]) => file[job[r].name].old <= Lifetime

PagesInv == TypeOK /\ FilesRight /\ JobsRight /\ Young

USE CacheAssumption DEF CacheAssumption

\* The invariant holds when the service starts.
LEMMA PagesInit == Init => PagesInv
<1> SUFFICES ASSUME Init PROVE PagesInv
  OBVIOUS
<1>1. Idle \in Jobs /\ JobRight(Idle) /\ ~Looked(Idle)
  BY DEF Idle, Jobs, Steps, JobRight, Looked, Pages
<1>2. Absent \in Files /\ \A n \in Names : FileRight(n, Absent)
  BY DEF Absent, Files, FileRight, Ages
<1>3. TypeOK
  BY <1>1, <1>2 DEF Init, TypeOK, Ages, Absent
<1> QED
  BY <1>1, <1>2, <1>3 DEF Init, PagesInv, FilesRight, JobsRight, Young

\* A step that gives one request another job, and one name another file, keeps
\* the invariant if both are right and the file is not older than the one before.
LEMMA PagesStep ==
    ASSUME PagesInv,
           NEW r \in Requests, NEW j \in Jobs, job' = [job EXCEPT ![r] = j], JobRight(j),
           NEW n \in Names, NEW f \in Files, file' = [file EXCEPT ![n] = f], FileRight(n, f),
           f.old \in {0, file[n].old},
           Looked(j) => file'[j.name].old <= Lifetime,
           freed' \in [Names -> Ages], UNCHANGED <<up, hour, shelf>>
    PROVE  PagesInv'
<1>1. TypeOK'
  BY DEF PagesInv, TypeOK, FileRight
<1>2. FilesRight'
  BY DEF PagesInv, FilesRight, TypeOK
<1>3. JobsRight'
  BY DEF PagesInv, JobsRight, TypeOK
<1>4. ASSUME NEW q \in Requests, Looked(job[q])', q # r
      PROVE  (file[job[q].name].old <= Lifetime)'
  <2>1. job'[q] = job[q] /\ Looked(job[q])
    BY <1>4 DEF PagesInv, TypeOK
  <2>2. job[q].name \in Names /\ file[job[q].name].old <= Lifetime
    BY <2>1 DEF PagesInv, JobsRight, JobRight, Reads, Young, Looked
  <2> QED
    BY <2>1, <2>2 DEF PagesInv, TypeOK
<1>5. (Looked(job[r]) => file[job[r].name].old <= Lifetime)'
  BY DEF PagesInv, TypeOK
<1>6. Young'
  BY <1>4, <1>5 DEF Young
<1> QED
  BY <1>1, <1>2, <1>3, <1>6 DEF PagesInv

\* The same when no file changes.
LEMMA JobStep ==
    ASSUME PagesInv,
           NEW r \in Requests, NEW j \in Jobs, job' = [job EXCEPT ![r] = j], JobRight(j),
           Looked(j) => file[j.name].old <= Lifetime,
           UNCHANGED <<file, freed, up, hour, shelf>>
    PROVE  PagesInv'
<1>1. "ucoz" \in Names
  BY DEF Names, SiteNames
<1>2. file["ucoz"] \in Files /\ file' = [file EXCEPT !["ucoz"] = file["ucoz"]]
  BY <1>1 DEF PagesInv, TypeOK
<1>3. FileRight("ucoz", file["ucoz"]) /\ freed' \in [Names -> Ages]
  BY <1>1 DEF PagesInv, FilesRight, TypeOK
<1> QED
  BY <1>1, <1>2, <1>3, PagesStep

-----------------------------------------------------------------------------
\* The methods begin with the right jobs.

\* The one job with these fields.
Just(step, n, p, o, s, l) ==
    [pc : {step}, name : {n}, page : {p}, poster : {o}, save : {s}, lax : {l}, short : {FALSE}]

\* A job that looks for its page under the name it saves it as.
LEMMA CachedRight ==
    ASSUME NEW n \in Names, NEW p \in Pages, p # NoPage, Right(n, p),
           n = "disney" /\ "disney" \notin Titles => p[1] = "OnlyMults",
           NEW l \in BOOLEAN, l => n \in LaxNames,
           NEW j \in Just("exists", n, p, None, n, l)
    PROVE  j \in Jobs /\ JobRight(j) /\ ~Looked(j)
BY DEF Just, Jobs, Steps, JobRight, Looked, Reads, Saves, AskedBy

\* A job that makes its page without a look at the cache, or looks for it and
\* does not save it.
LEMMA MadeRight ==
    ASSUME NEW p \in Pages, p # NoPage,
           NEW s \in Names \cup {None}, s # None => Right(s, p),
           NEW l \in BOOLEAN, l /\ s # None => s \in LaxNames,
           NEW o \in {None, "mult", "ucoz", "serialy"},
           NEW j \in Just("build", None, p, o, s, l)
    PROVE  j \in Jobs /\ JobRight(j) /\ ~Looked(j)
BY DEF Just, Jobs, Steps, JobRight, Looked, Saves, Names, SiteNames

\* A file that is read under a name it may be read under is right for the job.
LEMMA ReadRight ==
    ASSUME NEW n \in Titles, NEW p \in Pages, p # NoPage, Right(n, p),
           n = "disney" /\ "disney" \notin Titles => p[1] = "OnlyMults",
           NEW o \in {None, "mult", "ucoz", "serialy"},
           NEW j \in Just("exists", n, p, o, None, FALSE)
    PROVE  j \in Jobs /\ JobRight(j) /\ ~Looked(j)
BY DEF Just, Jobs, Steps, JobRight, Looked, Reads, AskedBy, Names, SiteNames

\* The jobs of the methods, spelt out.
LEMMA CachedIs ==
    ASSUME NEW site, NEW n
    PROVE  Cached(site, n) \in Just("exists", n, <<site, n>>, None, n, FALSE)
BY DEF Cached, Idle, Just

\* What a method makes without a file.
LEMMA MadeIs ==
    ASSUME NEW site, NEW n
    PROVE  Made(site, n) \in Just("build", None, <<site, n>>, None, None, FALSE)
BY DEF Made, Idle, Just

\* A job that swallows failures.
LEMMA LaxIs ==
    ASSUME NEW step, NEW n, NEW p, NEW o, NEW s, NEW j \in Just(step, n, p, o, s, FALSE)
    PROVE  Lax(j) \in Just(step, n, p, o, s, TRUE)
BY DEF Lax, Just

\* A method that begins with a right job keeps the invariant.
LEMMA BeginStep ==
    ASSUME PagesInv, NEW r \in Requests, NEW j \in Jobs, JobRight(j), ~Looked(j), Begin(r, j)
    PROVE  PagesInv'
BY JobStep DEF Begin

\* The first step of any method.
LEMMA MethodsStep == ASSUME PagesInv, NEW r \in Requests, Methods(r) PROVE PagesInv'
<1> DEFINE Good(j) == j \in Jobs /\ JobRight(j) /\ ~Looked(j)
<1>1. \A n \in Titles \cup {"ucoz", "mult", "serialy"} :
         n \in Names /\ <<"UcozKino", n>> \in Pages /\ <<"UcozKino", n>> # NoPage /\ Right(n, <<"UcozKino", n>>)
  BY DEF Names, SiteNames, Pages, NoPage, Right, Owns
<1>2. CASE UcozKinoGetContent(r)
  <2>1. PICK n \in {"ucoz", "mult", "serialy"} : Begin(r, Cached("UcozKino", n))
    BY <1>2 DEF UcozKinoGetContent
  <2>2. Good(Cached("UcozKino", n))
    BY <1>1, CachedRight, CachedIs
  <2> QED
    BY <2>1, <2>2, BeginStep
<1>3. ASSUME NEW site, NEW n \in SiteNames, NEW l \in BOOLEAN, site # "AdultMult",
             Owns(site, n), l => n \in LaxNames,
             Begin(r, IF l THEN Lax(Cached(site, n)) ELSE Cached(site, n))
      PROVE  PagesInv'
  <2> DEFINE j == IF l THEN Lax(Cached(site, n)) ELSE Cached(site, n)
  <2>1. n \in Names /\ <<site, n>> \in Pages /\ <<site, n>> # NoPage /\ Right(n, <<site, n>>)
    BY <1>3 DEF Owns, Names, SiteNames, Pages, NoPage, Right
  <2>2. n = "disney" => site = "OnlyMults"
    BY <1>3 DEF Owns
  <2>3. j \in Just("exists", n, <<site, n>>, None, n, l)
    BY CachedIs, LaxIs
  <2>4. Good(j)
    BY <1>3, <2>1, <2>2, <2>3, CachedRight
  <2> QED
    BY <1>3, <2>4, BeginStep
<1>4. CASE UcozGetContent(r)
  BY <1>3, <1>4 DEF UcozGetContent, Owns, SiteNames
<1>5. CASE Kino1080GetContent(r)
  BY <1>3, <1>5 DEF Kino1080GetContent, Owns, SiteNames, LaxNames
<1>6. CASE CartoonHdGetCategories(r)
  BY <1>3, <1>6 DEF CartoonHdGetCategories, Owns, SiteNames, LaxNames
<1>7. CASE OnlyMultsGetCategories(r)
  BY <1>3, <1>7 DEF OnlyMultsGetCategories, Owns, SiteNames
<1>8. CASE BaskinoGetCategories(r)
  BY <1>3, <1>8 DEF BaskinoGetCategories, Owns, SiteNames
<1>9. CASE MegaserialGetCategories(r)
  BY <1>3, <1>9 DEF MegaserialGetCategories, Owns, SiteNames
<1>10. CASE GetBestRussian(r)
  BY <1>3, <1>10 DEF GetBestRussian, Owns, SiteNames
<1>11. CASE MultPoiskOther(r)
  BY <1>3, <1>11 DEF MultPoiskOther, Owns, SiteNames, LaxNames
<1>12. CASE MultPoisk(r)
  <2>1. PICK ext \in Exts :
           Begin(r, Lax([Cached("MultPoisk", "multPoisk") EXCEPT !.page = <<"MultPoisk", ext>>]))
    BY <1>12 DEF MultPoisk
  <2> DEFINE k == [Cached("MultPoisk", "multPoisk") EXCEPT !.page = <<"MultPoisk", ext>>]
             j == Lax(k)
  <2>2. /\ "multPoisk" \in Names /\ "multPoisk" \in LaxNames
        /\ <<"MultPoisk", ext>> \in Pages /\ <<"MultPoisk", ext>> # NoPage
        /\ Right("multPoisk", <<"MultPoisk", ext>>)
    BY DEF Names, SiteNames, LaxNames, Pages, NoPage, Right, Owns
  <2>3. j \in Just("exists", "multPoisk", <<"MultPoisk", ext>>, None, "multPoisk", TRUE)
    <3>1. k \in Just("exists", "multPoisk", <<"MultPoisk", ext>>, None, "multPoisk", FALSE)
      BY DEF Cached, Idle, Just
    <3> QED
      BY <3>1, LaxIs
  <2>4. Good(j)
    BY <2>2, <2>3, CachedRight
  <2> QED
    BY <2>1, <2>4, BeginStep
<1>13. CASE AdultMultGetContent(r)
  <2> DEFINE k == [Made("AdultMult", "disney") EXCEPT !.save = "disney"]
             j == Lax(k)
  <2>1. /\ "disney" \in Names /\ "disney" \in LaxNames
        /\ <<"AdultMult", "disney">> \in Pages /\ <<"AdultMult", "disney">> # NoPage
        /\ Right("disney", <<"AdultMult", "disney">>)
    BY DEF Names, SiteNames, LaxNames, Pages, NoPage, Right, Owns
  <2>2. j \in Just("build", None, <<"AdultMult", "disney">>, None, "disney", TRUE)
    <3>1. k \in Just("build", None, <<"AdultMult", "disney">>, None, "disney", FALSE)
      BY MadeIs DEF Just
    <3> QED
      BY <3>1, LaxIs
  <2>3. Good(j)
    BY <2>1, <2>2, MadeRight
  <2> QED
    BY <1>13, <2>3, BeginStep DEF AdultMultGetContent
<1>14. CASE UcozKinoGetMovie(r)
  <2>1. PICK t \in Titles, o \in {"mult", "ucoz", None} :
           Begin(r, [Made("UcozKino", t) EXCEPT !.pc = "exists", !.name = t, !.poster = o])
    BY <1>14 DEF UcozKinoGetMovie
  <2> DEFINE j == [Made("UcozKino", t) EXCEPT !.pc = "exists", !.name = t, !.poster = o]
  <2>2. j \in Just("exists", t, <<"UcozKino", t>>, o, None, FALSE)
    BY MadeIs DEF Just
  <2>3. Good(j)
    BY <1>1, <2>2, ReadRight
  <2> QED
    BY <2>1, <2>3, BeginStep
<1>15. CASE ShowUcozSer(r)
  <2>1. PICK n \in {"mult", "serialy"} : Begin(r, [Made("UcozKino", n) EXCEPT !.poster = n])
    BY <1>15 DEF ShowUcozSer
  <2> DEFINE j == [Made("UcozKino", n) EXCEPT !.poster = n]
  <2>2. j \in Just("build", None, <<"UcozKino", n>>, n, None, FALSE)
    BY MadeIs DEF Just
  <2>3. Good(j)
    BY <1>1, <2>2, MadeRight
  <2> QED
    BY <2>1, <2>3, BeginStep
<1>16. CASE Kino1080GetMovie(r)
  <2>1. PICK t \in Titles : Begin(r, Lax(Cached("Kino1080", t)))
    BY <1>16 DEF Kino1080GetMovie
  <2>2. /\ t \in Names /\ t \in LaxNames /\ <<"Kino1080", t>> \in Pages
        /\ <<"Kino1080", t>> # NoPage /\ Right(t, <<"Kino1080", t>>)
    BY DEF Names, LaxNames, Pages, NoPage, Right
  <2>3. Lax(Cached("Kino1080", t)) \in Just("exists", t, <<"Kino1080", t>>, None, t, TRUE)
    BY CachedIs, LaxIs
  <2>4. Good(Lax(Cached("Kino1080", t)))
    BY <2>2, <2>3, CachedRight
  <2> QED
    BY <2>1, <2>4, BeginStep
<1>17. CASE OnlyMultsGetMovie(r)
  <2>1. PICK t \in Titles : Begin(r, [Made("OnlyMults", t) EXCEPT !.pc = "exists", !.name = t])
    BY <1>17 DEF OnlyMultsGetMovie
  <2> DEFINE j == [Made("OnlyMults", t) EXCEPT !.pc = "exists", !.name = t]
  <2>2. <<"OnlyMults", t>> \in Pages /\ <<"OnlyMults", t>> # NoPage /\ Right(t, <<"OnlyMults", t>>)
    BY DEF Names, Pages, NoPage, Right
  <2>3. j \in Just("exists", t, <<"OnlyMults", t>>, None, None, FALSE)
    BY MadeIs DEF Just
  <2>4. Good(j)
    BY <2>2, <2>3, ReadRight
  <2> QED
    BY <2>1, <2>4, BeginStep
<1>18. CASE YourCinemaGetMovie(r)
  <2>1. PICK t \in Titles : Begin(r, Lax([Made("YourCinema", t) EXCEPT !.save = t]))
    BY <1>18 DEF YourCinemaGetMovie
  <2> DEFINE k == [Made("YourCinema", t) EXCEPT !.save = t]
             j == Lax(k)
  <2>2. /\ t \in Names /\ t \in LaxNames /\ <<"YourCinema", t>> \in Pages
        /\ <<"YourCinema", t>> # NoPage /\ Right(t, <<"YourCinema", t>>)
    BY DEF Names, LaxNames, Pages, NoPage, Right
  <2>3. j \in Just("build", None, <<"YourCinema", t>>, None, t, TRUE)
    <3>1. k \in Just("build", None, <<"YourCinema", t>>, None, t, FALSE)
      BY MadeIs DEF Just
    <3> QED
      BY <3>1, LaxIs
  <2>4. Good(j)
    BY <2>2, <2>3, MadeRight
  <2> QED
    BY <2>1, <2>4, BeginStep
<1> QED
  BY <1>2, <1>4, <1>5, <1>6, <1>7, <1>8, <1>9, <1>10, <1>11, <1>12, <1>13, <1>14, <1>15, <1>16,
     <1>17, <1>18 DEF Methods

-----------------------------------------------------------------------------
\* The steps of a request.

\* A request that ends.
LEMMA IdleRight == Idle \in Jobs /\ JobRight(Idle) /\ ~Looked(Idle)
BY DEF Idle, Jobs, Steps, JobRight, Looked, Pages

\* A request that goes on with the same names.
LEMMA GotoRight ==
    ASSUME PagesInv, NEW r \in Requests, NEW step \in Steps,
           step \in {"exists", "age", "delete", "load", "loading"} =>
               job[r].pc \in {"exists", "age", "delete", "load", "loading"},
           step \in {"saveExists", "create", "write"} => job[r].save # None
    PROVE  [job[r] EXCEPT !.pc = step] \in Jobs /\ JobRight([job[r] EXCEPT !.pc = step])
<1>1. job[r] \in Jobs /\ JobRight(job[r])
  BY DEF PagesInv, TypeOK, JobsRight
<1>2. [job[r] EXCEPT !.pc = step] \in Jobs
  BY <1>1 DEF Jobs
<1>3. /\ [job[r] EXCEPT !.pc = step].pc = step
      /\ [job[r] EXCEPT !.pc = step].name = job[r].name
      /\ [job[r] EXCEPT !.pc = step].page = job[r].page
      /\ [job[r] EXCEPT !.pc = step].poster = job[r].poster
      /\ [job[r] EXCEPT !.pc = step].save = job[r].save
      /\ [job[r] EXCEPT !.pc = step].lax = job[r].lax
      /\ [job[r] EXCEPT !.pc = step].short = job[r].short
  BY <1>1 DEF Jobs
<1> HIDE DEF Jobs
<1>4. JobRight([job[r] EXCEPT !.pc = step])
  BY <1>1, <1>3 DEF JobRight, Reads, Saves, AskedBy
<1> QED
  BY <1>2, <1>4

\* A page that was not in the cache is made, or not served.
LEMMA MissedRight ==
    ASSUME PagesInv, NEW r \in Requests, Missed(r)
    PROVE  \E j \in Jobs : job' = [job EXCEPT ![r] = j] /\ JobRight(j) /\ ~Looked(j)
<1>1. CASE job[r].page = NoPage
  BY <1>1, IdleRight DEF Missed, Finish
<1>2. CASE job[r].page # NoPage
  <2> DEFINE j == [job[r] EXCEPT !.pc = "build", !.name = None]
  <2>1. job[r] \in Jobs /\ JobRight(job[r])
    BY DEF PagesInv, TypeOK, JobsRight
  <2>2. j \in Jobs /\ j.pc = "build"
    BY <2>1 DEF Jobs, Steps
  <2>3. /\ j.page = job[r].page /\ j.poster = job[r].poster /\ j.save = job[r].save
        /\ j.lax = job[r].lax /\ j.short = job[r].short
    BY <2>1 DEF Jobs
  <2>4. job' = [job EXCEPT ![r] = j]
    BY <1>2 DEF Missed
  <2> HIDE DEF j
  <2>5. JobRight(j) /\ ~Looked(j)
    BY <2>1, <2>2, <2>3 DEF JobRight, Saves, Looked
  <2> QED
    BY <2>2, <2>4, <2>5
<1> QED
  BY <1>1, <1>2

\* ReadDoc looks at the file, at its age, and loads it, in steps of their own.
LEMMA ReadDocStep == ASSUME PagesInv, NEW r \in Requests, ReadDoc(r) PROVE PagesInv'
<1> DEFINE n == job[r].name
           To(step) == [job[r] EXCEPT !.pc = step]
<1>1. job[r] \in Jobs /\ JobRight(job[r])
  BY DEF PagesInv, TypeOK, JobsRight
<1>2. ASSUME Missed(r), UNCHANGED <<file, freed, up, hour, shelf>> PROVE PagesInv'
  BY <1>2, MissedRight, JobStep
<1>3. ASSUME Finish(r), UNCHANGED <<file, freed, up, hour, shelf>> PROVE PagesInv'
  BY <1>3, IdleRight, JobStep DEF Finish
<1>4. ASSUME NEW step \in {"age", "delete", "load", "loading"}, Goto(r, step),
             job[r].pc \in {"exists", "age", "delete", "load", "loading"},
             step \in {"load", "loading"} => file[n].old <= Lifetime,
             UNCHANGED <<file, freed, up, hour, shelf>>
      PROVE  PagesInv'
  <2>1. To(step) \in Jobs /\ JobRight(To(step))
    BY <1>4, GotoRight DEF Steps
  <2>2. To(step).pc = step /\ To(step).name = n
    BY <1>1 DEF Jobs
  <2>3. job' = [job EXCEPT ![r] = To(step)]
    BY <1>4 DEF Goto
  <2> HIDE DEF To
  <2>4. Looked(To(step)) => file[To(step).name].old <= Lifetime
    BY <1>4, <2>2 DEF Looked
  <2> QED
    BY <1>4, <2>1, <2>3, <2>4, JobStep
<1>5. CASE Exists(r)
  BY <1>2, <1>4, <1>5 DEF Exists, At
<1>6. CASE CheckAge(r)
  <2>1. ~Expired(n) => file[n].old <= Lifetime
    <3>1. n \in Names /\ file[n] \in Files /\ file[n].old <= file[n].age
      BY <1>1, <1>6 DEF CheckAge, At, JobRight, Reads, PagesInv, TypeOK, FilesRight, FileRight
    <3> QED
      BY <3>1 DEF Expired, Files, Ages
  <2> QED
    BY <1>4, <1>6, <2>1 DEF CheckAge, At
<1>7. CASE Delete(r)
  <2>1. n \in Names
    BY <1>1, <1>7 DEF Delete, At, JobRight, Reads
  <2>2. CASE file' = [file EXCEPT ![n] = Absent] /\ freed' = [freed EXCEPT ![n] = file[n].age]
    <3>1. Absent \in Files /\ FileRight(n, Absent) /\ Absent.old = 0
      BY DEF Absent, Files, FileRight, Ages
    <3>2. freed' \in [Names -> Ages]
      BY <2>1, <2>2 DEF PagesInv, TypeOK, Files
    <3>3. PICK j \in Jobs : job' = [job EXCEPT ![r] = j] /\ JobRight(j) /\ ~Looked(j)
      BY <1>7, MissedRight DEF Delete
    <3> QED
      BY <1>7, <2>1, <2>2, <3>1, <3>2, <3>3, PagesStep DEF Delete
  <2> QED
    BY <1>2, <1>7, <2>2 DEF Delete
<1>8. CASE Open(r)
  BY <1>2, <1>4, <1>8 DEF Open, At, PagesInv, Young, Looked
<1>9. CASE Load(r)
  BY <1>2, <1>3, <1>9 DEF Load
<1> QED
  BY <1>5, <1>6, <1>7, <1>8, <1>9 DEF ReadDoc

\* What follows a page that was made is a right job; only a lax method makes a
\* short page.
LEMMA BuildStep == ASSUME PagesInv, NEW r \in Requests, Build(r) PROVE PagesInv'
<1>1. job[r] \in Jobs /\ JobRight(job[r]) /\ UNCHANGED <<file, freed, up, hour, shelf>>
  BY DEF PagesInv, TypeOK, JobsRight, Build
<1>2. ASSUME NEW short \in BOOLEAN, MadePage(r, short), short => job[r].lax PROVE PagesInv'
  <2>1. CASE job[r].poster # None
    <3> DEFINE j == [Idle EXCEPT !.pc = "exists", !.name = job[r].poster]
    <3>1. /\ job[r].poster \in {"mult", "ucoz", "serialy"} \cap Names
          /\ Right(job[r].poster, <<"UcozKino", job[r].poster>>)
      BY <1>1, <2>1 DEF JobRight, Right, Owns, Names, SiteNames
    <3>2. j \in Just("exists", job[r].poster, NoPage, None, None, FALSE)
      BY DEF Idle, Just
    <3>3. job' = [job EXCEPT ![r] = j]
      BY <1>2, <2>1 DEF MadePage
    <3> HIDE DEF j
    <3>4. j \in Jobs /\ JobRight(j) /\ ~Looked(j)
      BY <3>1, <3>2 DEF Just, Jobs, Steps, JobRight, Looked, Reads, AskedBy
    <3> QED
      BY <1>1, <3>3, <3>4, JobStep
  <2>2. CASE job[r].poster = None /\ job[r].save # None
    <3> DEFINE j == [job[r] EXCEPT !.pc = "saveExists", !.short = short]
    <3>1. j \in Jobs /\ j.pc = "saveExists" /\ j.short = short
      BY <1>1 DEF Jobs, Steps
    <3>2. /\ j.page = job[r].page /\ j.poster = job[r].poster /\ j.save = job[r].save
          /\ j.lax = job[r].lax
      BY <1>1 DEF Jobs
    <3>3. job' = [job EXCEPT ![r] = j]
      BY <1>2, <2>2 DEF MadePage
    <3> HIDE DEF j
    <3>4. JobRight(j) /\ ~Looked(j)
      BY <1>1, <1>2, <2>2, <3>1, <3>2 DEF JobRight, Saves, Looked
    <3> QED
      BY <1>1, <3>1, <3>3, <3>4, JobStep
  <2>3. CASE job[r].poster = None /\ job[r].save = None
    BY <1>1, <1>2, <2>3, IdleRight, JobStep DEF MadePage
  <2> QED
    BY <2>1, <2>2, <2>3
<1>3. CASE Finish(r)
  BY <1>1, <1>3, IdleRight, JobStep DEF Finish
<1> QED
  BY <1>2, <1>3 DEF Build

\* SaveDoc writes what was built under the name it was built for.
LEMMA SaveDocStep == ASSUME PagesInv, NEW r \in Requests, SaveDoc(r) PROVE PagesInv'
<1> DEFINE n == job[r].save
           To(step) == [job[r] EXCEPT !.pc = step]
<1>1. /\ job[r] \in Jobs /\ JobRight(job[r])
      /\ n # None /\ Saves(job[r]) /\ n \in Names /\ file[n] \in Files /\ FileRight(n, file[n])
      /\ freed \in [Names -> Ages]
  <2>1. job[r].pc \in {"saveExists", "create", "write"}
    BY DEF SaveDoc, SaveExists, Create, EndWrite, WriteThrows, At
  <2>2. job[r] \in Jobs /\ JobRight(job[r])
    BY DEF PagesInv, TypeOK, JobsRight
  <2>3. n # None /\ Saves(job[r]) /\ n \in Names
    BY <2>1, <2>2 DEF JobRight, Saves
  <2> QED
    BY <2>2, <2>3 DEF PagesInv, TypeOK, FilesRight
<1>2. ASSUME Finish(r), UNCHANGED <<file, freed, up, hour, shelf>> PROVE PagesInv'
  BY <1>2, IdleRight, JobStep DEF Finish
<1>3. ASSUME NEW step \in {"create", "write"}, Goto(r, step)
      PROVE  /\ job' = [job EXCEPT ![r] = To(step)]
             /\ To(step) \in Jobs /\ JobRight(To(step)) /\ ~Looked(To(step))
  <2>1. To(step) \in Jobs /\ JobRight(To(step))
    BY <1>1, <1>3, GotoRight DEF Steps
  <2>2. To(step).pc = step
    BY <1>1 DEF Jobs
  <2> QED
    BY <1>3, <2>1, <2>2 DEF Goto, Looked
<1> HIDE DEF To
<1>4. ASSUME NEW f \in Files, file' = [file EXCEPT ![n] = f], FileRight(n, f),
             f.old \in {0, file[n].old}, UNCHANGED <<freed, up, hour, shelf>>,
             NEW j \in Jobs, job' = [job EXCEPT ![r] = j], JobRight(j), ~Looked(j)
      PROVE  PagesInv'
  BY <1>1, <1>4, PagesStep
<1>5. CASE SaveExists(r)
  BY <1>2, <1>3, <1>5, JobStep DEF SaveExists
<1>6. CASE Create(r)
  <2>1. CASE Finish(r) /\ UNCHANGED file
    BY <1>2, <1>6, <2>1 DEF Create
  <2>2. CASE Goto(r, "write") /\ \E a \in BirthAges(n) :
                file' = [file EXCEPT ![n] = [Absent EXCEPT !.is = "writing", !.age = a]]
    <3>1. PICK a \in BirthAges(n) :
             file' = [file EXCEPT ![n] = [Absent EXCEPT !.is = "writing", !.age = a]]
      BY <2>2
    <3> DEFINE f == [Absent EXCEPT !.is = "writing", !.age = a]
    <3>2. a \in Ages /\ 0 \in Ages /\ a >= 0
      BY <1>1 DEF BirthAges, Ages, Files
    <3>3. f \in Files /\ f.is = "writing" /\ f.age = a /\ f.old = 0
      BY <3>2 DEF Absent, Files
    <3>4. file' = [file EXCEPT ![n] = f]
      BY <3>1
    <3> HIDE DEF f
    <3>5. FileRight(n, f)
      BY <3>2, <3>3 DEF FileRight
    <3> QED
      BY <1>3, <1>4, <1>6, <2>2, <3>3, <3>4, <3>5 DEF Create
  <2> QED
    BY <1>6, <2>1, <2>2 DEF Create
<1>7. ASSUME NEW f \in Files, file' = [file EXCEPT ![n] = f], FileRight(n, f),
             f.old = file[n].old, Finish(r), UNCHANGED <<freed, up, hour, shelf>>
      PROVE  PagesInv'
  BY <1>4, <1>7, IdleRight DEF Finish
<1>8. CASE EndWrite(r)
  <2> DEFINE f == [file[n] EXCEPT !.is = "whole", !.page = job[r].page, !.short = job[r].short]
  <2>1. /\ f \in Files /\ f.is = "whole" /\ f.page = job[r].page /\ f.short = job[r].short
        /\ f.age = file[n].age /\ f.old = file[n].old
    BY <1>1 DEF Files, Jobs
  <2>2. file' = [file EXCEPT ![n] = f]
    BY <1>8 DEF EndWrite, Written
  <2> HIDE DEF f
  <2>3. FileRight(n, f)
    BY <1>1, <2>1 DEF FileRight, Saves
  <2> QED
    BY <1>7, <1>8, <2>1, <2>2, <2>3 DEF EndWrite
<1>9. CASE WriteThrows(r)
  <2> DEFINE f == [file[n] EXCEPT !.is = "torn"]
  <2>1. f \in Files /\ f.is = "torn" /\ f.age = file[n].age /\ f.old = file[n].old
    BY <1>1 DEF Files
  <2>2. file' = [file EXCEPT ![n] = f]
    BY <1>9 DEF WriteThrows
  <2> HIDE DEF f
  <2>3. FileRight(n, f)
    BY <1>1, <2>1 DEF FileRight
  <2> QED
    BY <1>7, <1>9, <2>1, <2>2, <2>3 DEF WriteThrows
<1> QED
  BY <1>5, <1>6, <1>8, <1>9 DEF SaveDoc

-----------------------------------------------------------------------------
\* The surroundings.

\* Time passes between requests, and ages a file and its content alike.
LEMMA TickStep == ASSUME PagesInv, Tick PROVE PagesInv'
<1> DEFINE Later(a) == IF a > Lifetime THEN a ELSE a + 1
<1>1. ASSUME NEW n \in Names, file[n].is # "absent"
      PROVE  /\ file'[n] \in Files /\ file'[n].is = file[n].is /\ file'[n].page = file[n].page
             /\ file'[n].short = file[n].short
             /\ file'[n].age = Later(file[n].age) /\ file'[n].old = Later(file[n].old)
  <2>1. file[n] \in Files
    BY DEF PagesInv, TypeOK
  <2>2. Later(file[n].age) \in Ages /\ Later(file[n].old) \in Ages
    BY <2>1 DEF Files, Ages
  <2>3. file'[n] = [file[n] EXCEPT !.age = Later(file[n].age), !.old = Later(file[n].old)]
    BY <1>1, <2>1 DEF Tick, Files
  <2> HIDE DEF Later
  <2> QED
    BY <2>1, <2>2, <2>3 DEF Files
<1>2. ASSUME NEW n \in Names, file[n].is = "absent"
      PROVE  file'[n] = Absent /\ Absent \in Files /\ FileRight(n, Absent)
  <2>1. file'[n] = Absent
    BY <1>2 DEF Tick
  <2>2. Absent \in Files /\ FileRight(n, Absent)
    BY DEF Absent, Files, Ages, FileRight
  <2> QED
    BY <2>1, <2>2
<1>3. ASSUME NEW n \in Names PROVE FileRight(n, file'[n]) /\ file'[n] \in Files
  <2>1. FileRight(n, file[n]) /\ file[n] \in Files
    BY DEF PagesInv, FilesRight, TypeOK
  <2>2. CASE file[n].is # "absent"
    <3>1. file[n].age \in Nat /\ file[n].old \in Nat
      BY <2>1 DEF Files, Ages
    <3>2. file'[n].old <= file'[n].age
      BY <1>1, <2>1, <2>2, <3>1 DEF FileRight
    <3> QED
      BY <1>1, <2>1, <2>2, <3>2 DEF FileRight
  <2> QED
    BY <1>2, <2>2
<1>4. file' \in [Names -> Files]
  <2>1. file' = [n \in Names |-> file'[n]]
    BY DEF Tick
  <2> QED
    BY <1>3, <2>1
<1>5. TypeOK'
  <2>1. freed' \in [Names -> Ages] /\ hour' \in {0, 1}
    <3>1. freed' = [n \in Names |-> 0] /\ hour' = 1 - hour
      BY DEF Tick
    <3>2. 0 \in Ages /\ hour \in {0, 1}
      BY DEF Ages, PagesInv, TypeOK
    <3> QED
      BY <3>1, <3>2
  <2>2. \A n \in Names : file'[n].is = "whole" => file'[n].page # NoPage
    BY <1>3 DEF FileRight
  <2> QED
    BY <1>4, <2>1, <2>2 DEF Tick, PagesInv, TypeOK
<1>6. \A r \in Requests : job'[r] = job[r] /\ ~Looked(job[r])
  BY DEF Tick, At, Looked
<1> QED
  BY <1>3, <1>5, <1>6 DEF PagesInv, FilesRight, JobsRight, Young

\* A restart ends the jobs, and tears a file that is being written.
LEMMA RestartStep == ASSUME PagesInv, Restart PROVE PagesInv'
<1>1. ASSUME NEW n \in Names PROVE file'[n] \in Files /\ FileRight(n, file'[n])
  <2>1. file[n] \in Files /\ FileRight(n, file[n])
    BY DEF PagesInv, TypeOK, FilesRight
  <2>2. CASE file[n].is = "writing"
    <3> DEFINE f == [file[n] EXCEPT !.is = "torn"]
    <3>1. f \in Files /\ f.is = "torn" /\ f.age = file[n].age /\ f.old = file[n].old
      BY <2>1 DEF Files
    <3>2. file'[n] = f
      BY <2>2 DEF Restart
    <3> HIDE DEF f
    <3> QED
      BY <2>1, <3>1, <3>2 DEF FileRight
  <2>3. CASE file[n].is # "writing"
    BY <2>1, <2>3 DEF Restart
  <2> QED
    BY <2>2, <2>3
<1>2. file' \in [Names -> Files]
  <2>1. file' = [n \in Names |-> file'[n]]
    BY DEF Restart
  <2> QED
    BY <1>1, <2>1
<1>3. TypeOK'
  BY <1>1, <1>2, IdleRight DEF Restart, PagesInv, TypeOK, FileRight
<1>4. \A r \in Requests : job'[r] = Idle
  BY DEF Restart
<1> QED
  BY <1>1, <1>3, <1>4, IdleRight DEF PagesInv, FilesRight, JobsRight, Young

\* Every step keeps the invariant.
LEMMA PagesNext == PagesInv /\ [Next]_vars => PagesInv'
<1> SUFFICES ASSUME PagesInv, [Next]_vars PROVE PagesInv'
  OBVIOUS
<1>1. CASE SitesFail
  BY <1>1 DEF SitesFail, PagesInv, TypeOK, FilesRight, JobsRight, Young
<1>2. CASE UNCHANGED vars
  BY <1>2 DEF vars, PagesInv, TypeOK, FilesRight, JobsRight, Young
<1> QED
  BY <1>1, <1>2, MethodsStep, ReadDocStep, BuildStep, SaveDocStep, TickStep, RestartStep DEF Next

\* The invariant says what a run checks of the ages.
LEMMA FreshHolds == PagesInv => Fresh
BY DEF PagesInv, Young, Looked, Fresh, Serving, At

\* What a request is answered with from a file is a page of its name, and so is
\* what it asked for.
LEMMA MixUpsHold == PagesInv => OnlyKnownMixUps /\ ShortPagesConfined
<1> SUFFICES ASSUME PagesInv, NEW r \in Requests, Serving(r)
             PROVE  /\ LET got == file[job[r].name].page IN
                       \/ got = Asked(r)
                       \/ job[r].name = "multPoisk" /\ got[1] = "MultPoisk"
                       \/ got = <<"AdultMult", "disney">> /\ Asked(r) = <<"OnlyMults", "disney">>
                       \/ got[2] = Asked(r)[2] /\ got[2] \in Titles
                    /\ file[job[r].name].short =>
                         job[r].name \in Titles \cup {"kino1080", "cartoonHd", "disney", "multPoisk",
                                                      "multPosikSerial", "multPoiskNew"}
  BY DEF OnlyKnownMixUps, ShortPagesConfined
<1> DEFINE n   == job[r].name
           got == file[n].page
<1>1. JobRight(job[r]) /\ Reads(job[r]) /\ Asked(r) = AskedBy(job[r]) /\ job[r] \in Jobs
  BY DEF Serving, At, PagesInv, TypeOK, JobsRight, JobRight, Asked, AskedBy
<1>2. n \in Names /\ Right(n, Asked(r))
  BY <1>1 DEF Reads
<1>3. Right(n, got) /\ (file[n].short => n \in LaxNames)
  BY <1>2 DEF Serving, PagesInv, FilesRight, FileRight
<1>4. got \in Pages /\ Asked(r) \in Pages
  <2>1. file[n] \in Files /\ got # NoPage
    BY <1>2 DEF PagesInv, TypeOK, Serving
  <2>2. job[r].page # NoPage => Asked(r) \in Pages
    BY <1>1 DEF AskedBy, Jobs
  <2>3. job[r].page = NoPage => Asked(r) \in Pages
    BY <1>1, <1>2 DEF AskedBy, Pages
  <2> QED
    BY <2>1, <2>2, <2>3 DEF Files
<1>8. file[n].short => n \in Titles \cup {"kino1080", "cartoonHd", "disney", "multPoisk",
                                          "multPosikSerial", "multPoiskNew"}
  BY <1>3 DEF LaxNames
<1>5. CASE n \in Titles
  BY <1>2, <1>3, <1>5 DEF Right
<1>6. CASE n \notin Titles /\ n = "multPoisk"
  BY <1>3, <1>6 DEF Right, Owns
<1>7. CASE n \notin Titles /\ n # "multPoisk"
  <2>1. got[2] = n /\ Asked(r)[2] = n /\ Owns(got[1], n) /\ Owns(Asked(r)[1], n)
    BY <1>2, <1>3, <1>7 DEF Right
  <2>2. got = <<got[1], got[2]>> /\ Asked(r) = <<Asked(r)[1], Asked(r)[2]>>
    BY <1>4 DEF Pages
  <2>3. CASE n = "disney"
    <3>1. Asked(r)[1] = "OnlyMults" /\ got[1] \in {"OnlyMults", "AdultMult"}
      BY <1>1, <1>7, <2>1, <2>3 DEF Reads, Owns
    <3> QED
      BY <2>1, <2>2, <2>3, <3>1
  <2>4. CASE n # "disney"
    <3>1. got[1] = Asked(r)[1] /\ got[2] = Asked(r)[2]
      BY <2>1, <2>4 DEF Owns
    <3> HIDE DEF got
    <3>2. got = Asked(r)
      BY <2>2, <3>1
    <3> QED
      BY <3>2, <1>8 DEF got
  <2> QED
    BY <2>3, <2>4
<1> QED
  BY <1>5, <1>6, <1>7, <1>8

-----------------------------------------------------------------------------
\* The catalogue of films.

\* The fillers that have entry i before them.
Left(i) ==
    {r \in FilmRequests : pc[r] \in {"root", "load"} \/ (pc[r] = "fill" /\ next[r] <= i)}

Counted ==
    \A i \in Films!Index :
        /\ films.info[i] + Cardinality(Left(i)) <= films.fillers
        /\ films.fillers = 1 /\ ~films.torn => films.info[i] + Cardinality(Left(i)) = 1

FilmsInv == Films!TypeOK /\ Counted

\* What is assumed of the constants of the catalogue.
LEMMA FilmsConstants == IsFiniteSet(FilmRequests) /\ Entries \in Nat \ {0} /\ MaxAge \in Nat
BY FilmsAssumption DEF FilmsAssumption, Films!EntriesAssumption, Films!AgeAssumption

\* The counting of FilmsCache is that of FiniteSets.
LEMMA FilmsCardinality == ASSUME NEW S PROVE Films!Cardinality(S) = Cardinality(S)
BY Zenon DEF Films!Cardinality, Cardinality

\* Fillers are requests, so they can be counted.
LEMMA LeftFinite ==
    ASSUME NEW i
    PROVE  /\ IsFiniteSet(Left(i)) /\ Cardinality(Left(i)) \in Nat
           /\ IsFiniteSet(Films!Filling) /\ Cardinality(Films!Filling) \in Nat
           /\ Cardinality(Left(i)) <= Cardinality(Films!Filling)
<1>1. Left(i) \subseteq Films!Filling /\ Films!Filling \subseteq FilmRequests
  BY DEF Left, Films!Filling
<1> QED
  BY <1>1, FilmsConstants, FS_Subset, FS_CardinalityType

\* The invariant holds before the first request.
LEMMA FilmsInit == Films!Init => FilmsInv
<1> SUFFICES ASSUME Films!Init PROVE FilmsInv
  OBVIOUS
<1>1. Films!TypeOK
  <2>1. films \in Films!Docs
    <3>1. Cardinality(FilmRequests) \in Nat
      BY FilmsConstants, FS_CardinalityType
    <3>2. 0 \in 0 .. Cardinality(FilmRequests) /\ 0 \in 0 .. MaxAge + 1
      BY <3>1, FilmsConstants
    <3>3. Films!Nothing \in [Films!Index -> Nat]
      BY DEF Films!Nothing
    <3>4. Films!Null \in Films!Docs
      BY <3>2, <3>3, FilmsCardinality DEF Films!Docs, Films!Null
    <3> QED
      BY <3>4 DEF Films!Init
  <2> QED
    BY <2>1, FilmsConstants DEF Films!Init, Films!TypeOK, Films!Steps, Films!Nothing
<1>2. ASSUME NEW i \in Films!Index PROVE films.info[i] = 0 /\ films.fillers = 0 /\ Cardinality(Left(i)) = 0
  <2>1. Left(i) = {}
    BY DEF Left, Films!Filling, Films!Init
  <2> QED
    BY <2>1, FS_EmptySet DEF Films!Init, Films!Null, Films!Nothing
<1>3. Counted
  BY <1>2 DEF Counted
<1> QED
  BY <1>1, <1>3 DEF FilmsInv

\* A step that leaves the entries, and has as many fillers behind an entry as
\* before, or fewer if the document is torn, keeps the count.
LEMMA CountKept ==
    ASSUME FilmsInv, films'.info = films.info, films'.fillers = films.fillers,
           films.torn => films'.torn,
           NEW r, \A i \in Films!Index : Left(i)' = Left(i) \/ (films'.torn /\ Left(i)' = Left(i) \ {r})
    PROVE  Counted'
<1> SUFFICES ASSUME NEW i \in Films!Index
             PROVE  /\ films'.info[i] + Cardinality(Left(i)') <= films'.fillers
                    /\ films'.fillers = 1 /\ ~films'.torn => films'.info[i] + Cardinality(Left(i)') = 1
  BY DEF Counted, Films!Index
<1>1. /\ films.info[i] \in Nat /\ films.fillers \in Nat
  BY FilmsConstants, FS_CardinalityType, FilmsCardinality DEF FilmsInv, Films!TypeOK, Films!Docs
<1>2. Cardinality(Left(i)) \in Nat /\ IsFiniteSet(Left(i))
  BY LeftFinite
<1>3. CASE Left(i)' = Left(i)
  BY <1>3 DEF FilmsInv, Counted
<1>4. CASE films'.torn /\ Left(i)' = Left(i) \ {r}
  <2>1. Cardinality(Left(i)') \in Nat /\ Cardinality(Left(i)') <= Cardinality(Left(i))
    BY <1>2, <1>4, FS_Subset, FS_CardinalityType
  <2> QED
    BY <1>1, <1>2, <1>4, <2>1 DEF FilmsInv, Counted
<1> QED
  BY <1>3, <1>4

\* A step that leaves entries and fillers alone keeps the counts.
LEMMA CountSame ==
    ASSUME FilmsInv, films'.info = films.info, films'.fillers = films.fillers,
           films.torn => films'.torn, \A i \in Films!Index : Left(i)' = Left(i)
    PROVE  Counted'
BY CountKept

\* A request that leaves the fillers, or becomes one that has every entry
\* before it, or goes on as one.
LEMMA LeftAfter ==
    ASSUME FilmsInv, NEW r \in FilmRequests, NEW step \in Films!Steps, NEW k \in 0 .. Entries,
           pc' = [pc EXCEPT ![r] = step], next' = [next EXCEPT ![r] = k], NEW i \in Films!Index
    PROVE  Left(i)' = IF step \in {"root", "load"} \/ (step = "fill" /\ k <= i)
                      THEN Left(i) \cup {r} ELSE Left(i) \ {r}
<1> DEFINE New == step \in {"root", "load"} \/ (step = "fill" /\ k <= i)
<1>1. pc'[r] = step /\ next'[r] = k
  BY DEF FilmsInv, Films!TypeOK
<1>2. \A q \in FilmRequests : q # r => pc'[q] = pc[q] /\ next'[q] = next[q]
  BY DEF FilmsInv, Films!TypeOK
<1>3. \A q : q \in Left(i) <=> /\ q \in FilmRequests
                               /\ pc[q] \in {"root", "load"} \/ (pc[q] = "fill" /\ next[q] <= i)
  BY DEF Left
<1>4. \A q : q \in Left(i)' <=> /\ q \in FilmRequests
                                /\ pc'[q] \in {"root", "load"} \/ (pc'[q] = "fill" /\ next'[q] <= i)
  BY DEF Left
<1>5. \A q : q \in Left(i)' <=> IF q = r THEN New ELSE q \in Left(i)
  BY <1>1, <1>2, <1>3, <1>4
<1> QED
  BY <1>5

\* A request that does not fill before or after its step.
LEMMA LeftSame ==
    ASSUME FilmsInv, NEW r \in FilmRequests, NEW step \in Films!Steps,
           pc' = [pc EXCEPT ![r] = step], next' = next,
           pc[r] \notin {"root", "load", "fill"}, step \notin {"root", "load", "fill"},
           NEW i \in Films!Index
    PROVE  Left(i)' = Left(i)
<1>1. next[r] \in 0 .. Entries /\ next' = [next EXCEPT ![r] = next[r]]
  BY DEF FilmsInv, Films!TypeOK
<1>2. Left(i)' = Left(i) \ {r}
  BY <1>1, LeftAfter
<1>3. r \notin Left(i)
  BY DEF Left
<1> QED
  BY <1>2, <1>3

\* What the steps of a request do to the types of its own variables.
LEMMA FilmsTypes ==
    ASSUME FilmsInv, NEW r \in FilmRequests, NEW step \in Films!Steps, NEW k \in 0 .. Entries,
           step = "fill" <=> k # 0, films' \in Films!Docs,
           pc' = [pc EXCEPT ![r] = step], next' = [next EXCEPT ![r] = k],
           page' \in [FilmRequests -> [Films!Index -> Nat]], UNCHANGED filmsUp
    PROVE  Films!TypeOK'
BY DEF FilmsInv, Films!TypeOK

\* The steps that leave the document and the fillers alone.
LEMMA FilmsQuietStep ==
    ASSUME FilmsInv, NEW r \in FilmRequests,
           Films!Begin(r) \/ Films!Look(r) \/ Films!LookThrows(r) \/ Films!Read(r)
    PROVE  FilmsInv'
<1>1. pc[r] \in {"idle", "look", "read"} /\ next[r] = 0 /\ UNCHANGED <<films, next, filmsUp>>
  BY DEF FilmsInv, Films!TypeOK, Films!Steps, Films!Begin, Films!Look, Films!LookThrows, Films!Read
<1>2. PICK step \in {"idle", "look", "assign", "read"} : pc' = [pc EXCEPT ![r] = step]
  BY DEF Films!Begin, Films!Look, Films!LookThrows, Films!Read, Films!Goto
<1>3. page' \in [FilmRequests -> [Films!Index -> Nat]]
  <2>1. page \in [FilmRequests -> [Films!Index -> Nat]] /\ films.info \in [Films!Index -> Nat]
    BY DEF FilmsInv, Films!TypeOK, Films!Docs
  <2>2. Films!Nothing \in [Films!Index -> Nat]
    BY DEF Films!Nothing
  <2> QED
    BY <2>1, <2>2 DEF Films!Begin, Films!Look, Films!LookThrows, Films!Read
<1>4. next' = [next EXCEPT ![r] = 0] /\ films' \in Films!Docs /\ 0 \in 0 .. Entries
  BY <1>1, FilmsConstants DEF FilmsInv, Films!TypeOK
<1>5. step \in Films!Steps /\ step # "fill"
  BY DEF Films!Steps
<1>6. Films!TypeOK'
  BY <1>1, <1>2, <1>3, <1>4, <1>5, FilmsTypes
<1>7. \A i \in Films!Index : Left(i)' = Left(i)
  BY <1>1, <1>2, <1>5, LeftSame
<1>8. Counted'
  BY <1>1, <1>7, CountSame
<1> QED
  BY <1>6, <1>8 DEF FilmsInv

\* A request that finds no document, or an old one, becomes the filler of a new one.
LEMMA FilmsAssignStep == ASSUME FilmsInv, NEW r \in FilmRequests, Films!Assign(r) PROVE FilmsInv'
<1> DEFINE C == Cardinality(Films!Filling)
<1>1. pc' = [pc EXCEPT ![r] = "root"] /\ UNCHANGED <<next, page, filmsUp>> /\ pc[r] = "assign"
  BY DEF Films!Assign, Films!Goto
<1>2. /\ films' \in [made : {TRUE}, root : {FALSE}, age : {0}, info : {Films!Nothing},
                     fillers : {C + 1}, torn : {FALSE}]
  BY FilmsCardinality DEF Films!Assign, Films!Null
<1>3. C \in Nat /\ IsFiniteSet(Films!Filling)
  BY LeftFinite
<1>4. C + 1 \in 0 .. Cardinality(FilmRequests)
  <2>1. Films!Filling \subseteq FilmRequests \ {r}
    BY <1>1 DEF Films!Filling
  <2>2. /\ IsFiniteSet(FilmRequests \ {r})
        /\ Cardinality(FilmRequests \ {r}) = Cardinality(FilmRequests) - 1
        /\ Cardinality(FilmRequests) \in Nat
    BY FilmsConstants, FS_RemoveElement, FS_CardinalityType
  <2>3. C <= Cardinality(FilmRequests \ {r})
    BY <2>1, <2>2, FS_Subset
  <2> QED
    BY <1>3, <2>2, <2>3
<1>5. films' \in Films!Docs
  <2>1. Films!Nothing \in [Films!Index -> Nat] /\ 0 \in 0 .. MaxAge + 1
    BY FilmsConstants DEF Films!Nothing
  <2>2. C + 1 \in 0 .. Films!Cardinality(FilmRequests)
    BY <1>4, FilmsCardinality
  <2> HIDE DEF C
  <2> QED
    BY <1>2, <2>1, <2>2 DEF Films!Docs
<1>6. next[r] = 0 /\ next' = [next EXCEPT ![r] = 0] /\ 0 \in 0 .. Entries
  BY <1>1, FilmsConstants DEF FilmsInv, Films!TypeOK
<1>7. Films!TypeOK'
  BY <1>1, <1>5, <1>6, FilmsTypes DEF Films!Steps, FilmsInv, Films!TypeOK
<1>8. ASSUME NEW i \in Films!Index
      PROVE  /\ films'.info[i] + Cardinality(Left(i)') <= films'.fillers
             /\ films'.fillers = 1 /\ ~films'.torn => films'.info[i] + Cardinality(Left(i)') = 1
  <2>1. Left(i)' = Left(i) \cup {r} /\ r \notin Left(i)
    <3>1. Left(i)' = Left(i) \cup {r}
      BY <1>1, <1>6, LeftAfter DEF Films!Steps
    <3>2. r \notin Left(i)
      BY <1>1 DEF Left
    <3> QED
      BY <3>1, <3>2
  <2>2. /\ IsFiniteSet(Left(i)) /\ Cardinality(Left(i)) \in Nat
        /\ Cardinality(Left(i)) <= C
    BY LeftFinite
  <2>3. Cardinality(Left(i)') = Cardinality(Left(i)) + 1
    BY <2>1, <2>2, FS_AddElement
  <2>4. films'.info[i] = 0 /\ films'.fillers = C + 1
    BY <1>2 DEF Films!Nothing
  <2> HIDE DEF C
  <2> QED
    BY <1>3, <2>2, <2>3, <2>4
<1>9. Counted'
  BY <1>8 DEF Counted, Films!Index
<1> QED
  BY <1>7, <1>9 DEF FilmsInv

\* The filler goes on to its first entry.
LEMMA FilmsRootStep ==
    ASSUME FilmsInv, NEW r \in FilmRequests, Films!AddRoot(r) \/ Films!Load(r) PROVE FilmsInv'
<1>1. CASE Films!AddRoot(r)
  <2>1. /\ pc' = [pc EXCEPT ![r] = "load"] /\ UNCHANGED <<next, page, filmsUp>> /\ pc[r] = "root"
    BY <1>1 DEF Films!AddRoot, Films!Goto
  <2>2. /\ films' \in Films!Docs /\ films'.info = films.info /\ films'.fillers = films.fillers
        /\ films'.torn = films.torn
    BY <1>1 DEF Films!AddRoot, FilmsInv, Films!TypeOK, Films!Docs
  <2>3. next[r] = 0 /\ next' = [next EXCEPT ![r] = 0] /\ 0 \in 0 .. Entries
    BY <2>1, FilmsConstants DEF FilmsInv, Films!TypeOK
  <2>4. Films!TypeOK'
    BY <2>1, <2>2, <2>3, FilmsTypes DEF Films!Steps, FilmsInv, Films!TypeOK
  <2>5. ASSUME NEW i \in Films!Index PROVE Left(i)' = Left(i)
    <3>1. Left(i)' = Left(i) \cup {r}
      BY <2>1, <2>3, LeftAfter DEF Films!Steps
    <3>2. r \in Left(i)
      BY <2>1 DEF Left
    <3> QED
      BY <3>1, <3>2
  <2>6. Counted'
    BY <2>2, <2>5, CountSame
  <2> QED
    BY <2>4, <2>6 DEF FilmsInv
<1>2. CASE Films!Load(r)
  <2>1. /\ pc' = [pc EXCEPT ![r] = "fill"] /\ UNCHANGED <<films, page, filmsUp>> /\ pc[r] = "load"
        /\ next' = [next EXCEPT ![r] = 1] /\ 1 \in 0 .. Entries
    BY <1>2, FilmsConstants DEF Films!Load, Films!Goto
  <2>2. "fill" \in Films!Steps /\ 1 # 0
    BY DEF Films!Steps
  <2>3. Films!TypeOK'
    <3>1. films' \in Films!Docs /\ page' \in [FilmRequests -> [Films!Index -> Nat]]
      BY <2>1 DEF FilmsInv, Films!TypeOK
    <3> QED
      BY <2>1, <2>2, <3>1, FilmsTypes
  <2>4. ASSUME NEW i \in Films!Index PROVE Left(i)' = Left(i)
    <3>1. 1 <= i
      BY FilmsConstants DEF Films!Index
    <3>2. Left(i)' = Left(i) \cup {r}
      BY <2>1, <2>2, <3>1, LeftAfter
    <3>3. r \in Left(i)
      BY <2>1 DEF Left
    <3> QED
      BY <3>2, <3>3
  <2>5. Counted'
    BY <2>1, <2>4, CountSame
  <2> QED
    BY <2>3, <2>5 DEF FilmsInv
<1> QED
  BY <1>1, <1>2

\* A filler that fails leaves the document torn.
LEMMA FilmsFailStep ==
    ASSUME FilmsInv, NEW r \in FilmRequests, Films!AddRootThrows(r) \/ Films!FillThrows(r)
    PROVE  FilmsInv'
<1>1. /\ pc' = [pc EXCEPT ![r] = "idle"] /\ next' = [next EXCEPT ![r] = 0] /\ UNCHANGED filmsUp
      /\ films' = [films EXCEPT !.torn = TRUE] /\ 0 \in 0 .. Entries
  BY FilmsConstants DEF Films!AddRootThrows, Films!FillThrows, Films!Fail, Films!Goto
<1>2. /\ films' \in Films!Docs /\ films'.info = films.info /\ films'.fillers = films.fillers
      /\ films'.torn
  BY <1>1 DEF FilmsInv, Films!TypeOK, Films!Docs
<1>3. page' \in [FilmRequests -> [Films!Index -> Nat]]
  <2>1. Films!Nothing \in [Films!Index -> Nat] /\ page \in [FilmRequests -> [Films!Index -> Nat]]
    BY DEF Films!Nothing, FilmsInv, Films!TypeOK
  <2> QED
    BY <2>1 DEF Films!AddRootThrows, Films!FillThrows
<1>4. Films!TypeOK'
  BY <1>1, <1>2, <1>3, FilmsTypes DEF Films!Steps
<1>5. ASSUME NEW i \in Films!Index PROVE Left(i)' = Left(i) \ {r}
  BY <1>1, LeftAfter DEF Films!Steps
<1>6. Counted'
  BY <1>2, <1>5, CountKept
<1> QED
  BY <1>4, <1>6 DEF FilmsInv

\* A filler puts its entry in the document, and has it behind it.
LEMMA FilmsFillStep == ASSUME FilmsInv, NEW r \in FilmRequests, Films!Fill(r) PROVE FilmsInv'
<1> DEFINE e == next[r]
<1>1. /\ pc[r] = "fill" /\ e \in Films!Index /\ Entries \in Nat
      /\ films \in Films!Docs /\ films.info \in [Films!Index -> Nat] /\ films.fillers \in Nat
      /\ page \in [FilmRequests -> [Films!Index -> Nat]]
  BY FilmsConstants, FS_CardinalityType, FilmsCardinality
     DEF Films!Fill, FilmsInv, Films!TypeOK, Films!Docs, Films!Index
<1>2. films' = [films EXCEPT !.info[e] = @ + 1] /\ page' = [page EXCEPT ![r][e] = 1] /\ UNCHANGED filmsUp
  BY DEF Films!Fill
<1>3. films'.info = [films.info EXCEPT ![e] = @ + 1] /\ films'.info \in [Films!Index -> Nat]
  BY <1>1, <1>2 DEF Films!Docs
<1>4. films'.fillers = films.fillers /\ films'.torn = films.torn /\ films' \in Films!Docs
  BY <1>1, <1>2, <1>3 DEF Films!Docs
<1>5. page' \in [FilmRequests -> [Films!Index -> Nat]]
  BY <1>1, <1>2
<1>6. PICK step \in {"idle", "fill"}, k \in 0 .. Entries :
         /\ pc' = [pc EXCEPT ![r] = step] /\ next' = [next EXCEPT ![r] = k]
         /\ IF e = Entries THEN step = "idle" /\ k = 0 ELSE step = "fill" /\ k = e + 1
  <2>1. CASE e = Entries
    BY <1>1, <2>1 DEF Films!Fill, Films!Goto
  <2>2. CASE e # Entries
    <3>1. pc' = [pc EXCEPT ![r] = "fill"] /\ next' = [next EXCEPT ![r] = e + 1]
      BY <1>1, <2>2 DEF Films!Fill, FilmsInv, Films!TypeOK
    <3>2. e + 1 \in 0 .. Entries
      BY <1>1, <2>2 DEF Films!Index
    <3> QED
      BY <2>2, <3>1, <3>2
  <2> QED
    BY <2>1, <2>2
<1>7. step \in Films!Steps /\ (step = "fill" <=> k # 0)
  BY <1>1, <1>6 DEF Films!Steps, Films!Index
<1>8. Films!TypeOK'
  BY <1>2, <1>4, <1>5, <1>6, <1>7, FilmsTypes
<1>9. ASSUME NEW i \in Films!Index
      PROVE  films'.info[i] + Cardinality(Left(i)') = films.info[i] + Cardinality(Left(i))
  <2>1. Left(i)' = IF step = "fill" /\ k <= i THEN Left(i) \cup {r} ELSE Left(i) \ {r}
    BY <1>6, <1>7, LeftAfter
  <2>2. r \in Left(i) <=> e <= i
    BY <1>1 DEF Left
  <2>3. IsFiniteSet(Left(i)) /\ Cardinality(Left(i)) \in Nat /\ films.info[i] \in Nat /\ i \in Nat
    BY <1>1, LeftFinite DEF Films!Index
  <2>4. CASE i = e
    <3>1. Left(i)' = Left(i) \ {r} /\ r \in Left(i)
      BY <1>1, <1>6, <2>1, <2>2, <2>4 DEF Films!Index
    <3>2. Cardinality(Left(i)') = Cardinality(Left(i)) - 1
      BY <2>3, <3>1, FS_RemoveElement
    <3>3. films'.info[i] = films.info[i] + 1
      BY <1>1, <1>3, <2>4
    <3> QED
      BY <2>3, <3>2, <3>3
  <2>5. CASE i # e
    <3>1. films'.info[i] = films.info[i]
      BY <1>1, <1>3, <2>5
    <3>2. (step = "fill" /\ k <= i) <=> e <= i
      BY <1>1, <1>6, <2>5 DEF Films!Index
    <3>3. Left(i)' = Left(i)
      BY <2>1, <2>2, <3>2
    <3> QED
      BY <3>1, <3>3
  <2> QED
    BY <2>4, <2>5
<1>10. Counted'
  <2> SUFFICES ASSUME NEW i \in Films!Index
               PROVE  /\ films'.info[i] + Cardinality(Left(i)') <= films'.fillers
                      /\ films'.fillers = 1 /\ ~films'.torn =>
                             films'.info[i] + Cardinality(Left(i)') = 1
    BY DEF Counted, Films!Index
  <2> QED
    BY <1>4, <1>9 DEF FilmsInv, Counted
<1> QED
  BY <1>8, <1>10 DEF FilmsInv

\* Every step keeps the invariant.
LEMMA FilmsNext == FilmsInv /\ [Films!Next]_filmsVars => FilmsInv'
<1> SUFFICES ASSUME FilmsInv, [Films!Next]_filmsVars PROVE FilmsInv'
  OBVIOUS
<1>1. ASSUME UNCHANGED <<pc, next, page>>, films' \in Films!Docs, films'.info = films.info,
             films'.fillers = films.fillers, films'.torn = films.torn, filmsUp' \in BOOLEAN
      PROVE  FilmsInv'
  <2>1. Films!TypeOK'
    BY <1>1 DEF FilmsInv, Films!TypeOK
  <2>2. \A i \in Films!Index : Left(i)' = Left(i)
    BY <1>1 DEF Left
  <2>3. Counted'
    BY <1>1, <2>2, CountSame
  <2> QED
    BY <2>1, <2>3 DEF FilmsInv
<1>2. CASE Films!Tick
  <2>1. films.age \in 0 .. MaxAge + 1 /\ films.age <= MaxAge /\ MaxAge \in Nat
    BY <1>2, FilmsConstants DEF Films!Tick, FilmsInv, Films!TypeOK, Films!Docs
  <2>2. films.age + 1 \in 0 .. MaxAge + 1
    BY <2>1
  <2>3. /\ films' \in Films!Docs /\ films'.info = films.info
        /\ films'.fillers = films.fillers /\ films'.torn = films.torn
    BY <1>2, <2>2 DEF Films!Tick, FilmsInv, Films!TypeOK, Films!Docs
  <2> QED
    BY <1>1, <1>2, <2>3 DEF Films!Tick, FilmsInv, Films!TypeOK
<1>3. CASE Films!SiteChanges
  BY <1>1, <1>3 DEF Films!SiteChanges, FilmsInv, Films!TypeOK
<1>4. CASE UNCHANGED filmsVars
  BY <1>1, <1>4 DEF filmsVars, FilmsInv, Films!TypeOK
<1> QED
  BY <1>2, <1>3, <1>4, FilmsQuietStep, FilmsAssignStep, FilmsRootStep, FilmsFailStep, FilmsFillStep
     DEF Films!Next, Films!GetCatalogue

\* The invariant says what a run checks of the document.
LEMMA CacheWholeHolds == FilmsInv => Films!CacheWhole
<1> SUFFICES ASSUME FilmsInv PROVE Films!CacheWhole
  OBVIOUS
<1>1. ASSUME NEW i \in Films!Index
      PROVE  /\ films.info[i] <= films.fillers
             /\ Films!Filling = {} /\ films.fillers = 1 /\ ~films.torn => films.info[i] = 1
  <2>1. films.info[i] \in Nat /\ films.fillers \in Nat /\ Cardinality(Left(i)) \in Nat
    BY FilmsConstants, FS_CardinalityType, FilmsCardinality, LeftFinite
       DEF FilmsInv, Films!TypeOK, Films!Docs
  <2>2. Films!Filling = {} => Cardinality(Left(i)) = 0
    BY FS_EmptySet DEF Left, Films!Filling
  <2> QED
    BY <2>1, <2>2 DEF FilmsInv, Counted
<1>2. films.info \in [Films!Index -> Nat]
  BY DEF FilmsInv, Films!TypeOK, Films!Docs
<1>3. Films!Filling = {} /\ films.fillers = 1 /\ ~films.torn => films.info = Films!Once
  BY <1>1, <1>2 DEF Films!Once
<1> QED
  BY <1>1, <1>3 DEF Films!CacheWhole

-----------------------------------------------------------------------------
\* The theorems.

\* The invariant of the files holds always.
LEMMA PagesAlways == Spec => []PagesInv
BY PagesInit, PagesNext, PTL DEF Spec

\* Neither cache touches the other.
LEMMA EitherAlways == FairEither => [](PagesInv /\ FilmsInv)
<1>1. InitEither => PagesInv /\ FilmsInv
  BY PagesInit, FilmsInit DEF InitEither
<1>2. PagesInv /\ FilmsInv /\ [NextEither]_<<subject, vars, filmsVars>> => (PagesInv /\ FilmsInv)'
  <2> SUFFICES ASSUME PagesInv, FilmsInv, [NextEither]_<<subject, vars, filmsVars>>
               PROVE  PagesInv' /\ FilmsInv'
    OBVIOUS
  <2>1. [Next]_vars /\ [Films!Next]_filmsVars
    BY DEF NextEither
  <2> QED
    BY <2>1, PagesNext, FilmsNext
<1> QED
  BY <1>1, <1>2, PTL DEF FairEither

\* The variables of the page cache keep their types, and a file that is whole
\* has a page.
THEOREM PagesType == Spec => []TypeOK
<1>1. PagesInv => TypeOK
  BY DEF PagesInv
<1> QED
  BY <1>1, PagesAlways, PTL

\* No request is answered from a file with what was made longer ago than its
\* lifetime, whatever requests delete and write the file between its look at
\* the age and its loading.
THEOREM FreshTheorem == Spec => []Fresh
BY FreshHolds, PagesAlways, PTL

\* What a file answers with is a page of the name, by one of the methods that
\* save it, and short only where a method swallows a failure.
THEOREM MixUpsTheorem == Spec => [](OnlyKnownMixUps /\ ShortPagesConfined)
BY MixUpsHold, PagesAlways, PTL

\* Both caches together have no faults but the known ones: the mix-ups and short
\* pages of the files, and no catalogue of films that one request filled to the
\* end but is not whole.
THEOREM FaultsTheorem == FairEither => []OnlyKnownFaults
<1>1. PagesInv /\ FilmsInv => OnlyKnownFaults
  BY MixUpsHold, CacheWholeHolds DEF OnlyKnownFaults
<1> QED
  BY <1>1, EitherAlways, PTL

=============================================================================
