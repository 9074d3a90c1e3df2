------------------------------- MODULE MCAtvApp -------------------------------
(***************************************************************************)
(* What the Apple TV's scripts keep from one page to the next: the pages   *)
(* that are loading, the views and their dialogs, the playbacks, the       *)
(* session, and the photos of the screensaver.  A logout clears what the   *)
(* session and a playback keep in sessionStorage, and is an action of      *)
(* each; besides they share no state, so a behaviour is about one of them, *)
(* chosen at the start.                                                    *)
(***************************************************************************)
EXTENDS AtvLoader, Naturals

CONSTANTS
    Views, Names, Options,
    Playbacks, Parts,
    Logins, Queries,
    MaxPhotos

VARIABLES
    subject,
    name, asks, views, config, callbacks, shown, newest, called, replaced,
    play, meta, url, time, saved, timer, timers, loader, current, request, content,
    part, answer, watched, mixed, cleared,
    login, authToken, requested, late, signedOut, query,
    length, wanted, shuffled, photos, top, drawn, movies

DomViews == INSTANCE AtvDomViews
Player   == INSTANCE AtvPlayer
Session  == INSTANCE AtvSession WITH token <- authToken, request <- requested
Photos   == INSTANCE AtvPhotos

viewsVars   == <<name, asks, views, config, callbacks, shown, newest, called, replaced>>
playerVars  == <<play, meta, url, time, saved, timer, timers, loader, current, request, content,
                 part, answer, watched, mixed, cleared>>
sessionVars == <<login, authToken, requested, late, signedOut, query>>
photosVars  == <<length, wanted, shuffled, photos, top, drawn, movies>>

ASSUME AppAssumption ==
    DomViews!NamesAssumption /\ Player!PlayerAssumption /\ Photos!PhotosAssumption

\* The parts that are not the subject stay in one of their initial states.
InitPart ==
    /\ subject \in {"loads", "views", "player", "session", "photos"}
    /\ subject = "loads" \/ page = TRUE
    /\ subject = "photos" \/ (length = 0 /\ wanted = 0 /\ shuffled = FALSE)
    /\ Init /\ DomViews!Init /\ Player!Init /\ Session!Init /\ Photos!Init

NextPart ==
    /\ UNCHANGED subject
    /\ \/ subject = "loads" /\ Next
          /\ UNCHANGED <<viewsVars, playerVars, sessionVars, photosVars>>
       \/ subject = "views" /\ DomViews!Next
          /\ UNCHANGED <<vars, playerVars, sessionVars, photosVars>>
       \/ subject = "player" /\ Player!Next
          /\ UNCHANGED <<vars, viewsVars, sessionVars, photosVars>>
       \/ subject = "session" /\ Session!Next
          /\ UNCHANGED <<vars, viewsVars, playerVars, photosVars>>
       \/ subject = "photos" /\ Photos!Next
          /\ UNCHANGED <<vars, viewsVars, playerVars, sessionVars>>

\* The steps of a part that is not the subject are never enabled.
FairPart ==
    /\ InitPart
    /\ [][NextPart]_<<subject, vars, viewsVars, playerVars, sessionVars, photosVars>>
    /\ Fairness /\ Player!Fairness /\ Session!Fairness

\* A view's dialog calls the handlers of its own view.
ViewsOwn == DomViews!ViewsOwn

\* A player's bookmark, log timer and assets are its own.
PlaybackOwn == Player!BookmarksOwn /\ Player!OwnAssets

\* A session ends with the logout; and who waits for a callback, of a login, a query
\* or a request for assets, is called.
SessionKept == Session!LoggedOut /\ Session!CallbacksCalled /\ Player!AssetsAnswered

\* Every order of the photos is as likely, and no list loses or repeats anything.
PhotosRight == Photos!PhotosRight
=============================================================================
