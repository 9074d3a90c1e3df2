------------------------------ MODULE AtvDates ------------------------------
(***************************************************************************)
(* The dates on a movie's showtimes page: the navigation bar that          *)
(* dateNavigation of Trailers.Showtimes.js makes, the date in the header,  *)
(* the times below, and the show_date a nearby theatre is opened with.     *)
(* The template MOVIEPAGE (XmlDir/js/application.js) puts them on one      *)
(* page; MOVIE_SHOWTIMES_HANDLER replaces the times alone.                 *)
(*                                                                         *)
(* nextDay and prevDay move an instant by 24 hours, while the days on the  *)
(* page are those of the viewer's clock, which may be put forward or back. *)
(***************************************************************************)
EXTENDS Integers

CONSTANTS
    Starts,     \* bound: the hours at which the viewer may begin
    Changes,    \* bound: the hours at which the clock may be changed
    LastHour,   \* bound: the hour at which the model stops
    None

StartsAssumption == Starts \union Changes \subseteq Nat /\ LastHour \in Nat

VARIABLES
    clock,      \* the hours that went by
    change,     \* the hour at which clocks are put forward or back ...
    shift,      \* ... by so many hours
    listed,     \* the day on which the list of theatres was loaded
    page        \* the movie's page

vars == <<clock, change, shift, listed, page>>

\* The day and the hour of the viewer's clock at an instant.
Local(t)  == IF t >= change THEN t + shift ELSE t
DayOf(t)  == Local(t) \div 24
HourOf(t) == Local(t) % 24
Today     == DayOf(clock)

Init ==
    /\ clock \in Starts
    /\ change \in Changes /\ shift \in {-1, 1}
    /\ listed = Today
    /\ page = None

-----------------------------------------------------------------------------
PrevDay(date) == date - 24
NextDay(date) == date + 24

\* Mutant of DateNavigation: it begins with the date itself.
NavigationFromDate(date) == [i \in 1 .. 8 |-> date + 24 * (i - 1)]

\* The instants of the items of the bar.  The date given moves along with them:
\* it is the last of them afterwards.
DateNavigation(date) ==
    LET dates[i \in 1 .. 8] == IF i = 1 THEN PrevDay(date) ELSE NextDay(dates[i - 1])
    IN  dates

\* <navigation currentIndex="1">, counted from 0.
Current == 2

\* The list of theatres is loaded, and the movie's page left.
LoadShowtimes ==
    /\ listed' = Today
    /\ page' = None
    /\ UNCHANGED <<clock, change, shift>>

\* processTemplate: the page made of a date, and of the times and the show_date
\* of its query.
ProcessTemplate(date, day, again) ==
    [date |-> date, item |-> Current, times |-> day, nearby |-> day,
     chosen |-> FALSE, missed |-> FALSE, twice |-> again]

Load(day) == page' = ProcessTemplate(clock, day, FALSE) /\ UNCHANGED <<clock, change, shift, listed>>

\* LOAD_MOVIE_SHOWTIMES from the list, with its show_date or with none ...
LoadMovieShowtimes == page = None /\ \E day \in {listed, Today} : Load(day)

\* ... and from a movie's page, for another theatre.
NewTheatre == page # None /\ Load(page.nearby)

\* Its success may be called twice (AtvShowtimes): the date has moved meanwhile.
SuccessAgain ==
    /\ page # None /\ ~page.twice
    /\ page' = ProcessTemplate(DateNavigation(page.date)[8], page.nearby, TRUE)
    /\ UNCHANGED <<clock, change, shift, listed>>

\* Mutant of MovieShowtimesHandler: it asks for the query's own show_date.
HandlerSameDay(i) ==
    /\ page # None
    /\ page' = [page EXCEPT !.item = i, !.times = page.nearby, !.chosen = TRUE, !.missed = FALSE]
    /\ UNCHANGED <<clock, change, shift, listed>>

\* MOVIE_SHOWTIMES_HANDLER: the times of the day the item is named for take the
\* place of the old ones, or they stay.
MovieShowtimesHandler(i) ==
    /\ page # None
    /\ \/ page' = [page EXCEPT !.item = i, !.times = DayOf(DateNavigation(page.date)[i]),
                               !.chosen = TRUE, !.missed = FALSE]
       \/ page' = [page EXCEPT !.item = i, !.missed = TRUE]
    /\ UNCHANGED <<clock, change, shift, listed>>

Tick == clock < LastHour /\ clock' = clock + 1 /\ UNCHANGED <<change, shift, listed, page>>

Next ==
    \/ LoadShowtimes \/ LoadMovieShowtimes \/ NewTheatre \/ SuccessAgain \/ Tick
    \/ \E i \in 1 .. 8 : MovieShowtimesHandler(i)

Spec == Init /\ [][Next]_vars

-----------------------------------------------------------------------------
\* The item that is marked is the page's own date, and every item is the day
\* after the one before it.  Only where the clock is changed in between may a day
\* be left out or repeated: for a page made in the hour before or after midnight.
BarRight ==
    page # None =>
        LET bar == DateNavigation(page.date)
            changed(i) == bar[i] < change /\ change <= bar[i + 1]
        IN  /\ bar[Current] = page.date
            /\ \A i \in 1 .. 7 :
                  \/ DayOf(bar[i + 1]) = DayOf(bar[i]) + 1
                  \/ changed(i) /\ HourOf(bar[i]) = (IF shift > 0 THEN 23 ELSE 0)

\* The times are those of the item that is marked, unless they could not be loaded.
\* A page on which no item was chosen may have the times of an earlier day, that
\* of the list it was opened from, if midnight has gone by since; or of any day, if
\* its template was processed twice.
TimesOfItem ==
    page # None /\ ~page.missed =>
        \/ page.times = DayOf(DateNavigation(page.date)[page.item])
        \/ ~page.chosen /\ page.times \in listed .. Today /\ listed # DayOf(page.date)
        \/ ~page.chosen /\ page.twice

DatesRight == BarRight /\ TimesOfItem
=============================================================================
