------------------------------ MODULE MCAtvPages ------------------------------
(***************************************************************************)
(* What the Apple TV's scripts make a page of: the requests of the         *)
(* showtimes pages, the times these show, their dates, and their           *)
(* templates.  The parts share no state, so a behaviour is about one of    *)
(* them, chosen at the start.                                              *)
(***************************************************************************)
EXTENDS Naturals, Sequences, TLC

CONSTANTS
    Nothing,
    Calls, MaxParts,
    Starts, Changes, LastHour,
    Cinemas, Distance, Versions, TmsIds, Schedules,
    Bodies, MaxLength,
    t1, t2, t3, v1, v2, v3

VARIABLES
    about,  \* the subject
    list, location, handled, entry, starting, aborting, byId, req, tracked, number, succeeded,
    complete, gotten, seen, shows, spinner, up, navigated, shaken, puzzled, hurt,
    clock, change, shift, listed, moviePage,
    schedule, broad, byMovie, theatreId, left, got, theatreData, times, made,
    type, template, tokens, stag, body, line, script

showtimesVars == <<list, location, handled, entry, starting, aborting, byId, req, tracked,
                   number, succeeded, complete, gotten, seen, shows, spinner, up, navigated,
                   shaken, puzzled, hurt>>
datesVars     == <<clock, change, shift, listed, moviePage>>
theatresVars  == <<schedule, broad, byMovie, theatreId, left, got, theatreData, times, made>>
templatesVars == <<type, template, tokens, stag, body, line, script>>

Showtimes == INSTANCE AtvShowtimes WITH
    Parts <- MaxParts, None <- Nothing,
    page <- list, kind <- handled, got <- gotten, view <- seen, alive <- up, newest <- navigated

Dates == INSTANCE AtvDates WITH None <- Nothing, page <- moviePage

Theatres == INSTANCE AtvTheatres WITH
    Theatres <- Cinemas, Parts <- TmsIds, None <- Nothing, page <- made

Templates == INSTANCE AtvTemplates WITH None <- Nothing, content <- body

\* Bounds.  Versions v1 and v2 are the movie's; two theatres are as near as each other.
Times(hour, pm) == [hour |-> hour, pm |-> pm]
Offers == {[v \in {v1, v2, v3} |-> CASE v = v1 -> a [] v = v2 -> b
                                     [] v = v3 -> {Times(11, FALSE)}] :
              a \in {{}, {Times(12, FALSE), Times(12, TRUE)}},
              b \in {{}, {Times(12, TRUE), Times(11, TRUE)}}}
Offered == [{t1, t2, t3} -> Offers]
Miles   == t1 :> 1 @@ t2 :> 2 @@ t3 :> 1
Written == {<<"word">>, <<"//">>, <<"//", "\n">>, <<"%%>">>}

ASSUME PagesAssumption ==
    /\ Showtimes!PartsAssumption /\ Showtimes!CallsAssumption
    /\ Dates!StartsAssumption
    /\ Theatres!TheatresAssumption /\ Theatres!PartsAssumption /\ Theatres!SchedulesAssumption
    /\ Templates!BodiesAssumption /\ Templates!StagAssumption

First(hours) == CHOOSE hour \in hours : \A other \in hours : hour <= other

\* The parts that are not the subject stay in one of their initial states.
InitPages ==
    /\ about \in {"showtimes", "dates", "theatres", "templates"}
    /\ about = "showtimes" \/ (list = "root" /\ location = TRUE)
    /\ about = "dates" \/ (clock = First(Starts) /\ change = First(Changes) /\ shift = 1)
    /\ \/ about = "theatres"
       \/ /\ schedule = (CHOOSE s \in Schedules : TRUE)
          /\ broad = TRUE /\ byMovie = TRUE /\ theatreId = Nothing
    /\ \/ about = "templates"
       \/ type = "<" /\ template = <<[is |-> "word", body |-> <<>>]>>
    /\ Showtimes!Init /\ Dates!Init /\ Theatres!Init /\ Templates!Init

NextPages ==
    /\ UNCHANGED about
    /\ \/ about = "showtimes" /\ Showtimes!Next
          /\ UNCHANGED <<datesVars, theatresVars, templatesVars>>
       \/ about = "dates" /\ Dates!Next
          /\ UNCHANGED <<showtimesVars, theatresVars, templatesVars>>
       \/ about = "theatres" /\ Theatres!Next
          /\ UNCHANGED <<showtimesVars, datesVars, templatesVars>>
       \/ about = "templates" /\ Templates!Next
          /\ UNCHANGED <<showtimesVars, datesVars, theatresVars>>

\* The steps of a part that is not the subject are never enabled.
FairPages ==
    /\ InitPages
    /\ [][NextPages]_<<about, showtimesVars, datesVars, theatresVars, templatesVars>>
    /\ Showtimes!Fairness

\* Showtimes are shown when they are whole, and the newest; and every call of the
\* page ends.
ShowtimesRight ==
    Showtimes!AloneIsWhole /\ Showtimes!LatestShown /\ Showtimes!CallsEnd

\* The day that is marked in a page's bar of days, one after another, is the day
\* of its times; and a spinner covers them while they are loading, and not after.
PageRight == Dates!DatesRight /\ Showtimes!SpinnerHonest

\* The times of the replies are put together in their order, of the theatre nearest
\* or asked for; and a template's script writes what the template says.
RenderRight == Theatres!TimesRight /\ Templates!RenderRight
=============================================================================
