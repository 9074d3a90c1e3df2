------------------------------ MODULE VideoLinks ------------------------------
(***************************************************************************)
(* The buttons of a page of UcozKino that plays something: a film          *)
(* (GetMovie), which tries the frames of its site's page one after the     *)
(* other; an episode (ShowUcozSer), which has a button for each            *)
(* translation; and an episode of another site (ShowUcozSerGo), whose      *)
(* address HttpRequestsGo asks for again and again.  GetLink asks three    *)
(* sites for one address.  It may also wait for good, which PostRequest    *)
(* has; here it returns.                                                   *)
(***************************************************************************)
EXTENDS Naturals, Sequences, SequencesExt

CONSTANTS
    MaxFrames,  \* bound: the frames or translations of a page
    LastCount   \* the last count HttpRequestsGo tries again at, 6 in the code

LinksAssumption == MaxFrames \in Nat /\ LastCount \in Nat

VARIABLES
    page,       \* the method that makes the page
    frames,     \* how many frames or translations the site's page has
    got,        \* what GetLink returned for each so far
    thrown,     \* count of ShowUcozSer, or of HttpRequestsGo
    buttons,    \* the buttons: the frame each is made of, 0 for the page itself
    state

vars == <<page, frames, got, thrown, buttons, state>>

\* GetLink: an address, the empty text for a page without one, null when the last site lists none, or
\* an exception.
Links == {"address", "empty", "null", "throws"}

Init ==
    /\ page \in {"film", "episode", "go"}
    /\ frames \in 0 .. MaxFrames
    /\ page = "go" => frames = 0
    /\ got = <<>> /\ thrown = 0 /\ buttons = <<>>
    /\ state = "load"

-----------------------------------------------------------------------------
\* The site's page, whose failure is the method's.
Load ==
    /\ state = "load"
    /\ IF page = "go" THEN state' = "look" ELSE state' \in {"look", "error"}
    /\ UNCHANGED <<page, frames, got, thrown, buttons>>

Frame == Len(got) + 1

\* GetMovie: the first frame with an address ends the loop.
FilmFrame ==
    /\ page = "film" /\ state = "look" /\ Frame <= frames
    /\ \E link \in Links :
          /\ got' = Append(got, link)
          /\ IF link = "address" THEN buttons' = <<Frame>> /\ state' = "done"
             ELSE UNCHANGED <<buttons, state>>
    /\ UNCHANGED <<page, frames, thrown>>

FilmEnds ==
    /\ page = "film" /\ state = "look" /\ Frame > frames
    /\ state' = "done"
    /\ UNCHANGED <<page, frames, got, thrown, buttons>>

\* ShowUcozSer: one translation, with its own page of the site.
Translation ==
    /\ page = "episode" /\ state = "look" /\ Frame <= frames
    /\ \E link \in Links :
          /\ got' = Append(got, link)
          /\ buttons' = IF link \in {"address", "empty"} THEN Append(buttons, Frame) ELSE buttons
          /\ thrown' = IF link = "throws" THEN thrown + 1 ELSE thrown
    /\ UNCHANGED <<page, frames, state>>

\* Mutant of OwnLink: a translation without an address counts like one that failed.
OwnUnlessFound == buttons = <<>>

\* When every translation threw, the page itself is asked.
OwnLink == thrown = frames

EpisodeEnds ==
    /\ page = "episode" /\ state = "look" /\ Frame > frames
    /\ IF OwnLink
       THEN \E link \in Links :
               /\ buttons' = IF link \in {"address", "empty"} THEN <<0>> ELSE buttons
               /\ got' = Append(got, link)
               /\ state' = IF link = "throws" THEN "error" ELSE "done"
       ELSE state' = "done" /\ UNCHANGED <<got, buttons>>
    /\ UNCHANGED <<page, frames, thrown>>

\* Mutant of GivesUp: one request too few.
GivesUpEarly == thrown >= LastCount

GivesUp == thrown > LastCount

\* HttpRequestsGo: the address the site leads to, or, at last, the one it was given.
HttpRequestsGo ==
    /\ page = "go" /\ state = "look"
    /\ \/ got' = Append(got, "address") /\ buttons' = <<1>> /\ state' = "done"
          /\ UNCHANGED thrown
       \/ /\ got' = Append(got, "throws")
          /\ IF GivesUp THEN buttons' = <<0>> /\ state' = "done" /\ UNCHANGED thrown
             ELSE thrown' = thrown + 1 /\ UNCHANGED <<buttons, state>>
    /\ UNCHANGED <<page, frames>>

Next ==
    \/ Load \/ FilmFrame \/ FilmEnds \/ Translation \/ EpisodeEnds \/ HttpRequestsGo

Spec == Init /\ [][Next]_vars

-----------------------------------------------------------------------------
\* The places of got that hold one of the links.
Places(links) == {i \in 1 .. Len(got) : got[i] \in links}
Addresses == Places({"address"})
Texts     == Places({"address", "empty"})
Nulls     == Places({"null"})
Throws    == Places({"throws"})

\* There is a button for each of the places, in their order.
ButtonsFor(places) ==
    /\ ToSet(buttons) = places
    /\ \A i \in 1 .. Len(buttons) : \A j \in 1 .. i - 1 : buttons[j] < buttons[i]

\* A film has one button that plays, unless no frame has an address.
FilmPlays ==
    page = "film" /\ state = "done" =>
        \/ Addresses # {} /\ Len(buttons) = 1 /\ ButtonsFor(Addresses)
        \/ Addresses = {} /\ buttons = <<>> /\ Len(got) = frames

\* An episode has a button for each translation that gave something, in their
\* order.  A single null takes the page's own button away: it is asked for only when
\* everything threw, and a page without a button has met a null.
EpisodePlays ==
    page = "episode" /\ state = "done" =>
        \/ /\ Len(got) = frames /\ ButtonsFor(Texts)
           /\ Throws # 1 .. frames
           /\ buttons = <<>> => Nulls # {}
        \/ /\ Len(got) = frames + 1 /\ 1 .. frames \subseteq Throws
           /\ buttons = <<>> <=> got[frames + 1] = "null"

\* An episode of the other site is answered after a try that succeeded, or with the
\* address it was asked for after two tries more than LastCount, and never later.
GoPlays ==
    page = "go" =>
        /\ Len(got) <= LastCount + 2
        /\ state = "done" =>
              \/ buttons = <<1>> /\ Addresses = {Len(got)}
              \/ buttons = <<0>> /\ Throws = 1 .. LastCount + 2

LinksRight == FilmPlays /\ EpisodePlays /\ GoPlays
=============================================================================
