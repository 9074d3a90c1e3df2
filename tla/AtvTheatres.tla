----------------------------- MODULE AtvTheatres ------------------------------
(***************************************************************************)
(* The showtimes of one movie, put together by Trailers.Showtimes.js from  *)
(* the replies for its versions (a tms id each), which come in any order:  *)
(* loadTheatreData merges a reply into theatreData, LoadFinished picks a   *)
(* theatre and makes the list of times, and the page's template asks for   *)
(* the selected theatre and the ones nearby.  AtvShowtimes has the         *)
(* requests and their counters; here one call has them for itself, so the  *)
(* last reply is the one that finds no other left.                         *)
(*                                                                         *)
(* Array.prototype.sort need not keep equal elements in their order.       *)
(***************************************************************************)
EXTENDS Naturals, Sequences, FiniteSets, SequencesExt

CONSTANTS
    Theatres,
    Distance,   \* of each theatre
    Versions,   \* the versions of movies the theatres show
    Parts,      \* those of this movie, each asked for by a request
    Schedules,  \* bound: what the theatres may be showing
    None

ClockTimes == [hour : 1 .. 12, pm : BOOLEAN]

TheatresAssumption  == IsFiniteSet(Theatres) /\ None \notin Theatres /\ Distance \in [Theatres -> Nat]
PartsAssumption     == IsFiniteSet(Versions) /\ Parts \subseteq Versions
SchedulesAssumption == Schedules \subseteq [Theatres -> [Versions -> SUBSET ClockTimes]]

VARIABLES
    schedule,    \* schedule[t][v]: the times of version v in theatre t
    broad,       \* a reply names all that a theatre shows, not the version alone
    byMovie,     \* the page has a movie_id, not a tribune_id alone
    theatreId,   \* theatre_id
    left,        \* the requests under way
    got,         \* the parts that were answered well
    theatreData,
    times,       \* completeShowtimesList, a version and a time each
    page         \* the selected theatre and the ones nearby, as the page has them

given == <<schedule, broad, byMovie>>
vars  == <<given, theatreId, left, got, theatreData, times, page>>

NoPage == [selected |-> {}, nearby |-> <<>>, asked |-> None]

Init ==
    /\ schedule \in Schedules
    /\ broad \in BOOLEAN /\ byMovie \in BOOLEAN
    /\ theatreId \in Theatres \union {None}
    /\ left = Parts /\ got = {}
    /\ theatreData = <<>> /\ times = <<>>
    /\ page = NoPage

-----------------------------------------------------------------------------
\* The orders Array.sort may leave s in.
Sorted(s, key(_)) == \A i \in 1 .. Len(s) - 1 : key(s[i]) <= key(s[i + 1])
Sortings(s, key(_)) ==
    {t \in {[i \in 1 .. Len(s) |-> s[o[i]]] : o \in SetToSeqs(1 .. Len(s))} : Sorted(t, key)}

\* The body of the reply for part p: the theatres that show it.
Shows(t)   == {v \in Versions : schedule[t][v] # {}}
Listing(p) ==
    SetToSeq({[id |-> t, shows |-> IF broad THEN Shows(t) ELSE {p}] :
                 t \in {u \in Theatres : p \in Shows(u)}})

ByDistance(theatre) == Distance[theatre.id]

\* Mutant of ByTime: noon comes with midnight.
ByHour(show) == show[2].hour + (IF show[2].pm THEN 12 ELSE 0)

\* sortByShowtimes adds twelve hours to PM but for 12 PM, and takes none from
\* 12 AM.
ByTime(show) ==
    LET time == show[2] IN IF time.pm /\ time.hour # 12 THEN time.hour + 12 ELSE time.hour

-----------------------------------------------------------------------------
\* Mutant of SelectedTheatre: the first entry of the theatre_id is all of it.
FirstEntry(theatres) ==
    LET found(i) == theatreId \in {None, theatres[i].id}
    IN  {theatres[i] : i \in {j \in 1 .. Len(theatres) : found(j) /\ ~\E k \in 1 .. j - 1 : found(k)}}

\* selectedTheatre(theatres): all entries of the theatre_id, or the first entry.
SelectedTheatre(theatres) ==
    IF theatreId # None THEN {e \in ToSet(theatres) : e.id = theatreId}
    ELSE IF theatres = <<>> THEN {} ELSE {theatres[1]}

\* selectedMovie(theatre).
SelectedMovie(theatre) == IF byMovie THEN theatre.shows \intersect Parts ELSE theatre.shows

\* The body of LoadFinished: each tms id once.  It is in the list with the times
\* of the theatre it was found in.
Showtimes(theatres) ==
    UNION {{c[2]} \X schedule[c[1].id][c[2]] :
              c \in {d \in SelectedTheatre(theatres) \X Versions : d[2] \in SelectedMovie(d[1])}}

\* nearbyTheatres: a filter that lists the other theatres as it comes to them, and
\* keeps the first entry of each.
Nearby(theatres, id) ==
    LET listed[i \in 0 .. Len(theatres)] ==
            IF i = 0 THEN <<>>
            ELSE IF theatres[i].id # id /\ ~Contains(listed[i - 1], theatres[i].id)
                 THEN Append(listed[i - 1], theatres[i].id)
                 ELSE listed[i - 1]
    IN  listed[Len(theatres)]

\* LoadFinished and success: the template makes the page.  selectedTheatre()
\* settles the theatre_id, if there is none, on the first theatre.
LoadFinished(theatres) ==
    LET id == IF theatreId # None THEN theatreId
              ELSE IF theatres = <<>> THEN None ELSE theatres[1].id
    IN  /\ times' \in Sortings(SetToSeq(Showtimes(theatres)), ByTime)
        /\ page' = [selected |-> {e.id : e \in {x \in ToSet(theatres) : x.id = id}},
                    nearby   |-> Nearby(theatres, id),
                    asked    |-> theatreId]
        /\ theatreId' = id

\* loadTheatreData's success: the theatres are added and sorted.
LoadSuccess(p) ==
    /\ p \in left /\ left' = left \ {p} /\ got' = got \union {p}
    /\ theatreData' \in Sortings(theatreData \o Listing(p), ByDistance)
    /\ IF left' = {} THEN LoadFinished(theatreData')
                     ELSE UNCHANGED <<theatreId, times, page>>
    /\ UNCHANGED given

LoadFailure(p) ==
    /\ p \in left /\ left' = left \ {p}
    /\ IF left' = {} /\ got # {} THEN LoadFinished(theatreData)
                                 ELSE UNCHANGED <<theatreId, times, page>>
    /\ UNCHANGED <<given, got, theatreData>>

Next == \E p \in Parts : LoadSuccess(p) \/ LoadFailure(p)

Spec == Init /\ [][Next]_vars

-----------------------------------------------------------------------------
Finished == left = {} /\ got # {}

\* What theatre t shows of the movie, as far as the replies told.
Told(t, parts) ==
    UNION {{v} \X schedule[t][v] :
              v \in {w \in Shows(t) : /\ w \in parts \/ (broad /\ parts \intersect Shows(t) # {})
                                      /\ w \in Parts \/ ~byMovie}}

\* Whatever the order of the replies, the page of a theatre that was asked for has
\* all the times that theatre was told to have, each once.  A page that was not
\* asked for one has the nearest theatre, but the times of one reply only.
TimesWhole ==
    Finished =>
        /\ Len(times) = Cardinality(ToSet(times))
        /\ IF page.asked # None THEN ToSet(times) = Told(page.asked, got)
           ELSE LET near == {t \in Theatres : got \intersect Shows(t) # {}} IN
                IF near = {} THEN times = <<>>
                ELSE \E t \in near, p \in got :
                        /\ \A u \in near : Distance[t] <= Distance[u]
                        /\ p \in Shows(t) /\ ToSet(times) = Told(t, {p})

\* The times go up from the morning, but for those between midnight and one
\* o'clock, which come with the hour after noon.
Midnight(show)  == show[2].hour = 12 /\ ~show[2].pm
TimeOfDay(show) == (show[2].hour % 12) + (IF show[2].pm THEN 12 ELSE 0)
TimesInOrder ==
    \A i, j \in 1 .. Len(times) :
        i < j /\ ~Midnight(times[i]) /\ ~Midnight(times[j]) => TimeOfDay(times[i]) <= TimeOfDay(times[j])

\* Every theatre that was told of is on the page once: selected, or nearby, the
\* nearer ones first.
TheatresOnce ==
    Finished =>
        /\ page.selected \union ToSet(page.nearby) = {e.id : e \in ToSet(theatreData)}
        /\ page.selected \intersect ToSet(page.nearby) = {}
        /\ Len(page.nearby) = Cardinality(ToSet(page.nearby))
        /\ Sorted(page.nearby, LAMBDA t : Distance[t])

TimesRight == TimesWhole /\ TimesInOrder /\ TheatresOnce
=============================================================================
