------------------------------- MODULE MCLists --------------------------------
(***************************************************************************)
(* The ways a manager makes a list: MovieBox's catalogue in a static       *)
(* field, a site's pages fetched by a task each, the buttons of one of its *)
(* pages, and the channels of an m3u file.  They share no state, so a      *)
(* behaviour is about one of them, chosen at the start.                    *)
(***************************************************************************)
EXTENDS MovieBox, Sequences, TLC

CONSTANTS
    r1, r2, r3,
    LastPage, MaxFrames, LastCount,
    Names, Categories, Urls, WithComma, Width, Previews, MaxChannels

VARIABLES
    subject,
    started, task, elements, count, over, saw, answer, shown,
    method, frames, link, thrown, buttons, stage,
    file, blank, i, keys, channels, state, asked, onShelves, group, shelves, menu

fanoutVars == <<started, task, elements, count, over, saw, answer, shown>>
linksVars == <<method, frames, link, thrown, buttons, stage>>
m3uVars == <<file, blank, i, keys, channels, state, asked, onShelves, group, shelves, menu>>

Fanout == INSTANCE PageFanout WITH Last <- LastPage, pc <- task
Pages  == INSTANCE VideoLinks WITH page <- method, got <- link, state <- stage
M3u    == INSTANCE M3uList    WITH count <- onShelves

ASSUME ListsAssumption ==
    /\ Fanout!LastAssumption /\ Pages!LinksAssumption
    /\ M3u!WidthAssumption /\ M3u!UrlsAssumption /\ M3u!ChannelsAssumption

InitEither ==
    /\ subject \in {"movies", "fanout", "links", "m3u"}
    /\ Init /\ Fanout!Init /\ Pages!Init /\ M3u!Init
    /\ subject # "links" => method = "go"
    /\ subject # "m3u" => file = <<>> /\ blank = 0 /\ asked = CHOOSE category \in Categories : TRUE

NextEither ==
    /\ UNCHANGED subject
    /\ \/ subject = "movies" /\ Next /\ UNCHANGED <<fanoutVars, linksVars, m3uVars>>
       \/ subject = "fanout" /\ Fanout!Next /\ UNCHANGED <<vars, linksVars, m3uVars>>
       \/ subject = "links" /\ Pages!Next /\ UNCHANGED <<vars, fanoutVars, m3uVars>>
       \/ subject = "m3u" /\ M3u!Next /\ UNCHANGED <<vars, fanoutVars, linksVars>>

SpecEither == InitEither /\ [][NextEither]_<<subject, vars, fanoutVars, linksVars, m3uVars>>

Symmetry == Permutations(Requests)

\* The page of MovieBox, and what a search in it finds.
MoviesRight == CatalogueWhole /\ SearchMatches

\* The pages of a site, when no two tasks met in the dictionary, and when they did;
\* and the buttons of a film or an episode of it.
PagesWhole == Fanout!WholeWhenQuiet /\ Fanout!LossBounded /\ Pages!LinksRight

\* The channels of a file, whole or not at all, and the page and menu made of them.
ChannelsRight == M3u!ParsedRight /\ M3u!NoPartOfFile /\ M3u!PagesRight
=============================================================================
