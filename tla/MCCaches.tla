------------------------------ MODULE MCCaches -------------------------------
(***************************************************************************)
(* The two caches of the managers: the files of AppleCache and the static  *)
(* document of the film catalogue.  They share no state, so a behaviour is *)
(* about one of them, chosen at the start.                                 *)
(***************************************************************************)
EXTENDS PageCache

CONSTANTS FilmRequests, Entries, MaxAge

VARIABLES subject, films, pc, next, page, filmsUp

\* Each shelf holds one name: the names a catalogue uses, or a film's.
AllShelves == {{n} : n \in {"multSerialy", "multPoisk", "multPosikSerial", "multPoiskNew",
                            "kino1080", "cartoonHd", "disney", "multBas", "megaserial",
                            "bestRussian", "serialy", "ucoz"} \cup Titles}

Films == INSTANCE FilmsCache WITH
            Requests <- FilmRequests, up <- filmsUp

ASSUME FilmsAssumption ==
    IsFiniteSet(FilmRequests) /\ Films!EntriesAssumption /\ Films!AgeAssumption

filmsVars == <<films, pc, next, page, filmsUp>>

InitEither ==
    /\ subject \in {"pages", "films"}
    /\ Init /\ Films!Init
    /\ subject = "films" => shelf = Titles

NextEither ==
    /\ UNCHANGED subject
    /\ \/ subject = "pages" /\ Next /\ UNCHANGED filmsVars
       \/ subject = "films" /\ Films!Next /\ UNCHANGED vars

\* The fairness of both.  The steps of the cache that is not the subject are
\* never enabled; but the hours of the page cache go by only where it is.
FairEither ==
    /\ InitEither /\ [][NextEither]_<<subject, vars, filmsVars>>
    /\ Proceeds /\ <>[][~Restart]_vars
    /\ \A h \in {0, 1} : []<>(hour = h \/ subject = "films")
    /\ Films!Fairness

\* The pages that are not what they should be have one of the known causes; and the
\* catalogue of films one request filled is whole.
OnlyKnownFaults == OnlyKnownMixUps /\ ShortPagesConfined /\ Films!CacheWhole

\* Files left torn, and pages made while the sites failed, do not stay.
FaultsForgotten == TornReplaced /\ OutageForgotten

\* A spoiled catalogue of films does not stay.
FilmsRecover == Films!Recovers
=============================================================================
