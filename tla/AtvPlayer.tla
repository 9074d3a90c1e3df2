----------------------------- MODULE AtvPlayer ------------------------------
(***************************************************************************)
(* What Content/js/application.js does around a playback: it logs by a     *)
(* timer, keeps a bookmark in sessionStorage and saves it in the end, and  *)
(* gives the player the parts of a playlist, one request after the other.  *)
(*                                                                         *)
(* All of it is in globals.  The device calls didStopPlaying "at some      *)
(* point after playback stops", which may be after the next                *)
(* willStartPlaying, and the handler of a playlist request looks at        *)
(* playlistRequest, which may be another request by then, or null.         *)
(***************************************************************************)
EXTENDS Naturals, FiniteSets

CONSTANTS
    Playbacks,
    Parts,      \* at most so many parts of a playlist
    None

VARIABLES
    play,       \* play[p]: how far the playback got
    meta,       \* meta[p]: which of its metadata the asset has
    url,        \* "bookmark-url": the playback it belongs to
    time,       \* "bookmark-time": the playback it was taken in
    saved,      \* the bookmarks sent to the server
    timer,      \* logTimer: the playback that started it
    timers,     \* the timers that run
    loader,     \* atv.player.loadMoreAssets: the playback that installed it
    current,    \* playlistRequest
    request,    \* request[<<p, n>>]: the n-th request for p's player
    content,    \* content[r]: whose playlist it asks for, and which part
    part,       \* part[p]: currentPlaylistPart of the loadMoreAssets p installed
    answer,     \* answer[r]: what its callback was first given
    watched,    \* history: playbacks that reported a time
    mixed,      \* history: playbacks that began before another's didStopPlaying
    cleared     \* history: playbacks that met a logout

session  == <<url, time>>
playlist == <<loader, current, request, content, part, answer>>
logging  == <<timer, timers>>
history  == <<watched, mixed, cleared>>
vars     == <<session, play, meta, saved, logging, playlist, history>>

\* What a callback is given besides the assets of a request: null, or a failure.
End      == <<"end", 0>>
Failure  == <<"failure", 0>>
Requests == Playbacks \X (1 .. Parts)

PlayerAssumption ==
    /\ Parts \in Nat \ {0}
    /\ None \notin Playbacks \union Requests \union {End, Failure}

Metadata == (SUBSET {"bookmark", "playlist"}) \union {{"none"}}

Init ==
    /\ play = [p \in Playbacks |-> "none"]
    /\ meta = [p \in Playbacks |-> {}]
    /\ url = None /\ time = None /\ saved = {}
    /\ timer = None /\ timers = {}
    /\ loader = None /\ current = None
    /\ request = [r \in Requests |-> "none"]
    /\ part = [p \in Playbacks |-> 1]
    /\ answer = [r \in Requests |-> None]
    /\ content = [r \in Requests |-> None]
    /\ watched = {} /\ mixed = {} /\ cleared = {}

Active == {p \in Playbacks : play[p] \in {"playing", "stopped"}}

-----------------------------------------------------------------------------
\* onLogout clears the whole of sessionStorage.
OnLogout ==
    /\ url' = None /\ time' = None
    /\ cleared' = cleared \union Active
    /\ UNCHANGED <<play, meta, saved, logging, playlist, watched, mixed>>

\* willStartPlaying.  An asset without metadata leaves the bookmark and the
\* loadMoreAssets of another playback where they are.
WillStartPlaying(p) ==
    /\ play[p] = "none" /\ \A q \in Playbacks : play[q] # "playing"
    /\ play' = [play EXCEPT ![p] = "playing"]
    /\ timer' = p /\ timers' = timers \union {p}
    /\ \E m \in Metadata :
          /\ meta' = [meta EXCEPT ![p] = m]
          /\ url' = IF m = {"none"} THEN url ELSE IF "bookmark" \in m THEN p ELSE None
          /\ loader' = IF m = {"none"} THEN loader ELSE IF "playlist" \in m THEN p ELSE None
    /\ mixed' = IF Active = {} THEN mixed ELSE mixed \union Active \union {p}
    /\ UNCHANGED <<time, saved, current, request, content, part, answer,
                   watched, cleared>>

\* playerTimeDidChange.
PlayerTimeDidChange(p) ==
    /\ play[p] = "playing"
    /\ time' = IF url = None THEN time ELSE p
    /\ watched' = watched \union {p}
    /\ UNCHANGED <<url, play, meta, saved, logging, playlist, mixed, cleared>>

Stop(p) ==
    /\ play[p] = "playing"
    /\ play' = [play EXCEPT ![p] = "stopped"]
    /\ UNCHANGED <<session, meta, saved, logging, playlist, history>>

\* loadMoreAssets of the playback that installed it, called for p's player.  The
\* device calls it again when it was given assets, and not after null or failure.
LoadMoreAssets(p) ==
    /\ play[p] = "playing" /\ loader # None /\ part[loader] <= Parts
    /\ \E n \in 1 .. Parts :
          /\ request[<<p, n>>] = "none"
          /\ \A k \in 1 .. (n - 1) : answer[<<p, k>>] \in Requests
          /\ request' = [request EXCEPT ![<<p, n>>] = "sent"]
          /\ content' = [content EXCEPT ![<<p, n>>] = <<loader, part[loader]>>]
          /\ current' = <<p, n>>
    /\ part' = [part EXCEPT ![loader] = @ + 1]
    /\ UNCHANGED <<session, play, meta, saved, logging, loader, answer, history>>

\* Mutant of Assets: a failure is only logged.
AssetsLogged(c) == CASE request'[c] = "ok"  -> {content[c]}
                     [] request'[c] = "end" -> {End}
                     [] OTHER               -> {None}

\* The handler of request r, which looks at playlistRequest: it does nothing
\* until that one is complete, and throws twice, the second time in its catch,
\* when there is none.  Assets, null or failure: the first to come counts.
Assets(c) == CASE request'[c] = "ok"    -> {content[c], Failure}
               [] request'[c] = "end"   -> {End}
               [] request'[c] = "error" -> {Failure}
               [] OTHER                 -> {None}

PlaylistHandler(r) ==
    IF current = None \/ answer[r] # None THEN UNCHANGED answer
    ELSE \E a \in Assets(current) : answer' = [answer EXCEPT ![r] = a]

\* It is called when r gets on, and when r is answered.
Progress(r) ==
    /\ request[r] = "sent"
    /\ \E s \in {"sent", "ok", "end", "error"} :
          request' = [request EXCEPT ![r] = s] /\ PlaylistHandler(r)
    /\ UNCHANGED <<session, play, meta, saved, logging, loader, current, content,
                   part, history>>

\* Mutant of SaveBookmark: "bookmark-url" stays.
SaveBookmarkOnly ==
    /\ saved' = IF url = None THEN saved ELSE saved \union {<<url, time>>}
    /\ UNCHANGED url

SaveBookmark ==
    /\ saved' = IF url = None THEN saved ELSE saved \union {<<url, time>>}
    /\ url' = None

\* didStopPlaying.  The aborted request calls its handler at once, or does not.
DidStopPlaying(p) ==
    /\ play[p] = "stopped"
    /\ play' = [play EXCEPT ![p] = "over"]
    /\ timers' = timers \ {timer} /\ timer' = None
    /\ SaveBookmark
    /\ loader' = None /\ current' = None
    /\ IF current # None /\ request[current] = "sent"
       THEN /\ request' = [request EXCEPT ![current] = "error"]
            /\ PlaylistHandler(current) \/ UNCHANGED answer
       ELSE UNCHANGED <<request, answer>>
    /\ UNCHANGED <<time, meta, content, part, history>>

-----------------------------------------------------------------------------
Playback(p) ==
    \/ WillStartPlaying(p) \/ PlayerTimeDidChange(p) \/ Stop(p) \/ LoadMoreAssets(p)
    \/ DidStopPlaying(p)

Next ==
    \/ \E p \in Playbacks : Playback(p)
    \/ \E r \in Requests : Progress(r)
    \/ OnLogout

Spec == Init /\ [][Next]_vars

\* Requests are answered or fail, and the device calls didStopPlaying in time.
Fairness ==
    /\ \A p \in Playbacks : WF_vars(DidStopPlaying(p))
    /\ \A r \in Requests : WF_vars(Progress(r) /\ request'[r] # "sent")
FairSpec == Spec /\ Fairness

-----------------------------------------------------------------------------
TypeOK ==
    /\ play \in [Playbacks -> {"none", "playing", "stopped", "over"}]
    /\ meta \in [Playbacks -> Metadata]
    /\ {url, time, timer, loader} \subseteq Playbacks \union {None}
    /\ saved \subseteq Playbacks \X (Playbacks \union {None})
    /\ UNION {timers, watched, mixed, cleared} \subseteq Playbacks
    /\ current \in Requests \union {None}
    /\ request \in [Requests -> {"none", "sent", "ok", "end", "error"}]
    /\ content \in [Requests -> Requests \union {None}]
    /\ part \in [Playbacks -> 1 .. (Parts + 1)]
    /\ answer \in [Requests -> Requests \union {End, Failure, None}]

\* The bookmark saved for a playback is a time of that playback, unless it
\* reported none (the last playback's is saved then) or another began before its
\* didStopPlaying; and each playback with a bookmark gets it saved, but for that
\* and for a logout.
BookmarksOwn ==
    /\ \A b \in saved : b[1] = b[2] \/ b[1] \notin watched \/ b[1] \in mixed
    /\ \A p \in Playbacks : play[p] = "over" /\ "bookmark" \in meta[p] =>
          p \in mixed \union cleared \/ \E b \in saved : b[1] = p

\* A player is given the parts of its own playlist in their order, and the log
\* timers stop with the last playback, unless two playbacks met.
OwnAssets ==
    /\ \A p \in Playbacks, n \in 1 .. Parts :
          answer[<<p, n>>] \in Requests => answer[<<p, n>>] = <<p, n>> \/ p \in mixed
    /\ Active = {} => timers \subseteq mixed

\* Every request for assets is answered, unless its playback stops first or met
\* another.
AssetsAnswered ==
    \A r \in Requests : request[r] = "sent" ~>
        answer[r] # None \/ r[1] \in mixed \/ play[r[1]] # "playing"
=============================================================================
