# A verification project for AppleTvLiar

AppleTvLiar makes an Apple TV talk to a private server. A DNS server on the
local network answers `trailers.apple.com` with the server's own address, a TLS
listener on port 443 hands out a changed `application.js`, and a WCF web service
answers the Apple TV's page requests with XML built from scraped web sites, from
JSON services and from an IPTV list, and streams television that an external
player transcodes. A Windows service hosts all of it and replaces its own DLLs
and data files from a remote update description. The server is C# on the .NET
Framework; what runs on the Apple TV is JavaScript, which the server hands out
from `Content/js` and `XmlDir/js`. The repository has no tests and no design
document: the code and a few comments are the reference.

## Inventory

On the server:

| component | source | state it keeps | operations | hard behaviour | correct means |
|---|---|---|---|---|---|
| Service host | `AppleTvService/AppletvLiar.cs` | `calcInstance`, the loaded assemblies, a timer | `Start`, `StartService`, `Callback` at every tick | `Callback` is `async void`: ticks overlap each other and `Start`; the catch block can throw | one web service listens when all is quiet; nothing else ends the process |
| Update manager | `Common/Update/UpdateManager.cs` | `Updates/UpdateConfig.xml`, the target files, `Updates/Removes`, downloads | `CheckUpadate`, `StartUpdate`, `CleanUpdates` | the version is recorded before the files are there; a crash between `File.Move` and `File.Copy`; failed downloads; a slow tick | no target is lost; the recorded version is the one in place; it catches up |
| Web service host | `AppleTvLiar/AppleChannels/MikrainProgramm.cs` | the static `ServiceHost` of each loaded assembly, an idle timer | `Init`, `Close`, `Dispose` | an instance disposed before it is opened; no network, or the port taken: `Init` swallows it, and `Close` throws for the faulted host | as above |
| Television player | `ProccessManager.cs`, `TvManager.PlayChannel`, `MikrainServiceMethods.GetStream*` | `ace_player` processes, the directory `streamtv`, `DateChannel` | `StartChannel`, `KillAce`, `GetStream`, `GetStreamTs`, the timer | kill, sweep, start and read by request threads that nothing serialises; files held open | one player; no leftovers; every wait ends |
| Page cache | `AppleBase.ReadDoc/SaveDoc` | files in `AppleCache` | read, expire, delete, save | concurrent fills, torn writes, names used by several pages, creation times | what is served is fresh, whole and the page that was asked for |
| Site managers: catalogues | `AppleTvLiar/AppleChannels/HtmlManager` | a dictionary per request, shared by its tasks; one `HtmlDocument` shared by work items | fan out, join, assemble; ask again for a link | unsynchronised `Dictionary`, `XElement`, counters; spin wait; eight tries | every page in order; own posters; an answer; a button that plays |
| Cartoon catalogue | `XmlManager/RussianCartoons.cs` | static `_films` | look, replace, fill, read | a cache filled in place while others read it | the whole catalogue, once |
| MovieBox | `JsonManager/MovieBoxManager.cs` | static `sortedList`, `isShow` | catalogue, search | one user's list read, sorted and added to by another's request | a page of one kind, whole; links of the right kind |
| POST helpers, throttle | `AppleBase.SendPostRequest/SendMoonRequest`, `App.config` | a `TaskCompletionSource` per call | begin, two callbacks, await | a path on which the task is never completed | every admitted call is answered |
| TLS listener | `AppleTvSSL/StartTcp.cs` | one outstanding accept, a retry count | `Start`, `ProcessClient` | re-armed only by a handler that succeeds; no timeout in the handshake | it goes on listening |
| DNS server library: UDP | `ARSoft.Tools.Net/Dns/DnsServer.cs` | `_availableUdpListener`, `_hasActiveUdpListener` | `Start`, `Stop`, receive, process and send callbacks | slot accounting over failing asynchronous calls | one receive at a time, never deaf |
| DNS service | `AppleTvLiar/DNS/DNSService.cs` | `_ipSite` | `Init`, `ProcessQuery` | the server starts before its answer is known; every name is resolved before it is looked at, perhaps by the service itself | every query ends; what it answers |
| Television lists | `TvManager.cs`, `MUObject.cs` | none | parse, menu, page of a category | blocks of three lines, shelves of four | the channels of the file, each once, in order |

On the Apple TV (`src/AppleTest/bin/Debug/Content/js` and `XmlDir/js`; several
scripts are in both directories with the same text):

| component | source | state it keeps | operations | hard behaviour | correct means |
|---|---|---|---|---|---|
| Loading of pages | `ATVUtils` in `application.js`, `main.js` | the proxy, its request, the page of the script | `loadURL`, `loadAndSwapURL`, `decorateURLWithProxy`, `loadTrailerDetailPage`, `onAppEntry` | exceptions caught by three callers, each of which tries again, or by nobody (`makeRequest` after the spinner is shown); cancelling | every spinner ends, or stays for a reason; after a cancel no page comes but one the proxy had already |
| Showtimes | `Trailers.Showtimes.js`, `showtimesconfig.js`, `Ajax` | counters that are globals by mistake, `activeRequests`, `LOCATION` | the handlers, replies in any order, aborting | two loads share the counters; handlers that throw; requests of one millisecond | whole and newest times; spinners that tell the truth; every call ends |
| Theatres and times | `Trailers.Showtimes.js` | `theatreData` | merge replies, choose a theatre, sort | which reply is merged first | the times of the theatre asked for or nearest, in order |
| Dates | `Trailers.Showtimes.js`, `MOVIEPAGE` | the page's date | `dateNavigation`, handlers | a day of 24 hours against the clock's days | times of the day that is marked |
| Templates | `EJS` in `XmlDir/js/main.js` | scanner and compiler | scan, compile, run | delimiters found by regular expressions; comments; line ends | the page is what the template says |
| Views and dialogs | `DomViewManager` in `XmlDir/js/main.js` | views by name, dialogs, `callbackEvents` | create, load, unload, choose | callback names that begin anew with every dialog | an option calls its own function |
| Playback | `Content/js/application.js` | bookmark in `sessionStorage`, timer, `playlistRequest` | `willStartPlaying`, `didStopPlaying`, `loadMoreAssets` | two playbacks overlap; a reply meets another request | own bookmarks, own assets |
| Session, screensaver | `application.js` (both) | `auth-token`, the photos | `onAuthenticate`, `onLogout`, `onExecuteQuery`, shuffle | a token arrives after the logout; bounds of the shuffle | no token after a logout; every order as likely |

How they meet. `AppletvLiar.Start` starts the timer, queues `StartTcp` on the
pool, loads the DNS service and the web service out of `AppleTvLiar.dll`. A tick
of the timer runs `Callback`, which uses the update manager and disposes and
starts the web service. The web service (`PerCall`, `Reentrant`) makes an
instance for each call, so every call is a thread without locks; calls share
the static fields, the cache directory, the player's directory and the
process. The tasks and callbacks of a call run on the pool, where an exception
that nobody catches ends the process for all of them. The Apple TV finds the
server by DNS, gets its application script by TLS, and its pages by HTTP; its
scripts run one handler at a time, each to its end, between replies and the
viewer's choices that come in any order. An `application.js` lives as long as the
application, the other scripts as long as their page.

## Modules

| module | models | composed with |
|---|---|---|
| `StreamPlayer` | `ProccessManager`, `TvManager.PlayChannel`, the channel pages, `GetStream`, `GetStreamTs`, the five-hour timer; the player is external | |
| `UpdateCheck` | `CheckUpadate` alone, by ticks without end | implemented by `UpdateService` |
| `UpdateService` | `AppletvLiar`, `UpdateManager`, `MikrainProgramm` | `Check == INSTANCE UpdateCheck WITH ...` |
| `DnsUdpServer` | the UDP side of `DnsServer` | |
| `DnsService` | `DNSService.Init`, `ProcessQuery`: what becomes of each datagram | extends `DnsUdpServer`, whose actions its own contain |
| `PageCache` | `ReadDoc`, `SaveDoc`, and every method that calls them with its cache name | |
| `FilmsCache` | `RussianCartoons.GetCatalogue`, `InitCache` | |
| `PageFanout` | `UcozKino.GetContent`, `Ucoz.GetContent` | |
| `VideoLinks` | `UcozKino.GetMovie`, `ShowUcozSer`, `ShowUcozSerGo` with `GetLink`, `HttpRequestsGo` | |
| `FramePosters` | `MultPoiskSiteManager.GetListOfMovies`, `MyExtensions.GetHtmlRequest` | |
| `MovieBox` | `MovieBoxManager.GetListOfMovies`, `GetListOfShows`, `Searchmovie` | |
| `M3uList` | `MUObject.CreateDictionary`, `TvManager.CreateXCategories`, `CreateM3U8Channels` | |
| `SslServer` | `StartTcp` | `ServiceProcess` |
| `PostRequest` | `SendPostRequest`, `SendMoonRequest`, the throttle | `ServiceProcess` (`Web == INSTANCE PostRequest`) |
| `ServiceProcess` | both in one process, whose end they share | `SslServer`, `PostRequest` |
| `ProxyPages` | abstract: what a page behind a spinner promises | implemented by `AtvLoader` |
| `AtvLoader` | `makeRequest`, `loadURL`, `loadAndSwapURL`, the two decorate functions, `loadTrailerDetailPage`, `onAppEntry` | `Promise == INSTANCE ProxyPages WITH ...` |
| `AtvShowtimes` | the handlers and requests of the showtimes pages with `ATVUtils.Ajax` | |
| `AtvTheatres` | `loadTheatreData`, `LoadFinished`, `selectedTheatre`, `nearbyTheatres` | |
| `AtvDates` | `dateNavigation`, `nextDay`, `prevDay`, the dates of `MOVIEPAGE` | |
| `AtvTemplates` | `EJS`: `Scanner`, `Compiler`, the run of the script | |
| `AtvDomViews` | `DomViewManager` with its dialogs and their callbacks | |
| `AtvPlayer` | what `application.js` does around a playback | |
| `AtvSession` | `onAuthenticate`, `onLogout`, `onGenerateRequest`, `onExecuteQuery` | |
| `AtvPhotos` | `shuffleArray` with the slice of `onExecuteQuery`, `moveNoDataMoviesToBottom` | |

`MC*.tla` and `MC*.cfg` give the constants values; `MCLive`, `MCCaches`, `MCLists`, `MCAtvPages` and
`MCAtvApp` also put several components into one specification. `*_proofs.tla` hold theorems.
Variables have the names of the fields and locals they stand for; an action has
the name of the method, or of the call inside it that it stands for. Definitions
whose comment begins with "Mutant of" are faulty forms of a definition, kept to
show that a property notices such a fault; no specification uses them.
`PROJECT.json` gives the source lines of every definition. Where a script is there
twice, the lines are those of one copy; definitions next to each other may point
at different copies of the same text.

Some conventions the reader needs:

- *Steps.* On the server a call of the file system, the network, a process or a
  shared field is a step of its own wherever another thread can come in between.
  What runs under a lock is one step. On the Apple TV a handler is one step, from its
  call to its return, because nothing else runs meanwhile; text entry and
  requests split a function into several. (`AtvShowtimes` splits a handler that
  aborts requests, since an abort runs the aborted request's own callback at once;
  `starting` keeps everything else out until it is done.)
- *Undefined behaviour.* `XElement`, `Dictionary`, `List` and `x++` without a
  lock are races. The model lets them have any outcome the build can produce:
  lost elements, a short `Count`, a bucket chain without an end, an exception.
  The order in which `Array.prototype.sort` leaves equal elements is a choice too.
  The variables marked "history" remember that such a thing took place: no guard of
  the code reads them.
- *Exceptions.* One that reaches a thread of the pool ends the process
  (`crashed`, or `Crash` in `UpdateService`). `MovieBox`, `PageCache`, `PageFanout`
  and `FilmsCache` answer with an error instead, because WCF or `Task` catches it. On
  the Apple TV an exception ends the handler, at the statement that throws it, and
  what the handler did before stays done.

Details of single modules.

- **StreamPlayer.** Players are numbered; a file is known by the player that
  wrote it. `KillAce` is list, then per process kill, list files, delete each;
  deleting fails on a file a reply holds. `GetStream` is test, arm the watcher,
  wait up to forty seconds, test again, open.
- **UpdateService.** `LoadFile` gives back the assembly that is already loaded from
  a path, whatever the file holds now; this is how .NET documents it and why a
  downloaded DLL has the time in its name. `StartUpdate` cannot return null: each
  path that would is preceded by an exception or returns an instance. A crash
  forgets memory and keeps files. What the system may refuse, it may refuse at any time: a
  download, `File.Create`, `File.Move` and `File.Copy` fail as alternatives of their actions,
  whatever else goes on (`broken` remembers the targets that leaves missing or empty). A web service that is to be opened
  may find no network (`FixEndpoints`) or its port taken by another program, which faults the host; an
  open one may fault by itself (`HostFaults`). `Close` throws for a faulted host and only aborts it:
  out of `Init`, to `Callback` or, from its catch block, to nobody. `lost` remembers that the newest host was kept from listening.
  Two things are taken to go well: the descriptions can be read and written when they are not
  locked or cut off, and a DLL that loads is a good one.
- **UpdateCheck.** The same `CheckUpadate` without what follows it, so that ticks need no
  bound: a tick that is done is free to be the next. `MCUpdateService` gives each number to one update only.
- **DnsUdpServer.** Threads are counted, not named, by what they will do next;
  the body of a query (parse, process, encode) is one step that succeeds or
  throws. After `Stop` the real `StartUdpListen` and `HandleUdpException` call
  each other without end; the program never calls `Stop`.
- **DnsService.** Each action contains the action of `DnsUdpServer` it takes part in;
  `NoAnswer` is the one whose effect on the server's variables, `GiveUp`, is not among them (a
  datagram that does not parse goes the way of `HandleUdpException`). With `self`, `GetHostAddresses`
  sends a new datagram and waits, with its listener, for its answer or the resolver's timeout.
- **PageCache.** `age` counts from the creation time, `old` from when the content
  was made. Overwriting keeps the creation time, and so does NTFS tunnelling for
  a name that has just been deleted (`freed`), assumed here: a file can be older
  than its content, never younger, which is what `Fresh` rests on. `UcozKino.cs:392` and `Ucoz.cs:358`, two `SaveDoc` calls,
  cannot be reached. MultPoisk's three catalogues share one name for every `ext`:
  `OnlyKnownMixUps` states that and the other confusions there are, and that
  there are no more.
- **FramePosters.** One request. That a list of more than twenty frames is also saved in
  `multCache`, and served from there for good, is left out: what is saved is the answer, of
  which the properties speak.
- **PageFanout.** The pages that came in are a set; the loop over the page numbers that
  assembles the answer gives it its order.
- **VideoLinks.** `GetLink` returns one of four things: an address, an empty text (`"empty"`), null or an
  exception. That it may wait for good is in `PostRequest`.
- **M3uList.** Names are cut at the next comma of the text that follows, so a url
  with a comma (`WithComma`) is told apart. A blank line may be empty, and is skipped with the two after it (`SkipBlank`), or still hold
  its `\r`, which `IsNullOrEmpty` lets through and which has no second part, so that the request throws (`ParseThrows`). `_channels` is two
  things: `keys`, the categories in the order of the dictionary, and what each holds. The menu and the page are made
  by a step for each turn of their loops. `Reads` says what the dictionary should be in terms of the file alone:
  each name at the place where it was first said and with the url it was last given.
- **SslServer.** A listener whose first accept failed is abandoned but keeps the
  port, so that the retries of `Start` fail on it.
- **PostRequest.** A request begun with `BeginGetResponse` has no timeout: the
  property of `HttpWebRequest.Timeout` does not count for it. `Silent` are calls
  whose site may never answer.
- **AtvLoader.** A handler's nested `try` and `catch` are operators that return the set of
  outcomes of a call: the document the proxy took in the end, `"throws"`, or `"refused"` when
  the device would not show it. A request may also not be sent at all (`"unsent"`), because `makeRequest` throws
  when the spinner is there already; then `onCancel` has nothing to abort. It aborts a request under way and does nothing
  to one that is done: a document that is with `proxy.loadXML` stays there.
- **AtvShowtimes.** Parts are counted from 1 and the movie's own request is 0. Requests
  of one millisecond take each other's place in `activeRequests`; `aborting` is the loop of
  `MOVIE_SHOWTIMES_HANDLER` over it.
- **AtvDates.** Hours. `change` and `shift` put the viewer's clock forward or back once.
- **AtvTemplates.** A template is a sequence of tokens; a body may hold a line end, a
  JavaScript comment and an escaped delimiter, the three things that disturb the compiler.
- **AtvPlayer.** A request is known by the playback that made it and its number; what it
  asks for (`content`) is apart, since `loadMoreAssets` of another playback may have made it.

## Runs

Parts that share no state are checked in one run where that is possible: a
variable (`subject`, `about`) says which one a behaviour is about, the others stay in an
initial state (one of them, so that they multiply nothing), and the next-state relation is the subject's.
An invariant of such a run is then one of every part's reachable states, as in a run
of its own; a liveness property holds trivially in behaviours about another part and
is asked of the part's own under the part's own fairness, as steps of parts that
are not the subject are never enabled.

| run | instance | checks |
|---|---|---|
| `stream` | two clients, the timer, two players; clients symmetric | `OverlapOnlyFromRace`: two players run together only if their `StartChannel`s overlapped; `LeftoverHasCause`: a dead player's file is there only for three causes; `SweepSparesNobodyItSaw`: a sweep never clears files of a player it chose to spare |
| `live` | one client, the timer, two players; or three ticks at a time, without end, three versions | `KillAceEnds`, `GetStreamAnswered`: no wait is for ever; `RecordedCatchesUp`: the recorded version catches up with the remote one |
| `update` | one target (the DLL), two versions, two updates, one crash, anything refused at any time | `TargetWhole`, `RecordedIsApplied`, `QuietMeansListening`, `FatalHasCause` |
| `dns_udp` | three listeners, four pool threads, three failing calls, `Stop` | `OneReceiver`, `NeverDeaf`, `HandlersBounded`, `ListensAgain` |
| `dns_udp_count` | one listener, three threads, two failures | violates `DocumentedCount`, see *Finding* |
| `dns_service` | three datagrams of any kind, one listener as the program has, two threads, one failing call, self-lookup or not | `NoSelfAnswer`: a machine that is its own name server gets no address from the service; `QueryEnds`: every datagram that was sent is dealt with |
| `caches` | two requests of any methods over the files, lifetime of one tick, one name at a time; or three requests for the cartoons, two entries | `Fresh`; `OnlyKnownFaults`: mix-ups and short pages, each with its cause, and a cartoon catalogue that is whole if one request filled it; `FaultsForgotten`: torn files and pages of an outage do not stay; `FilmsRecover`: neither does a spoiled catalogue |
| `lists` | three calls of MovieBox, two titles, symmetric; or four pages; or up to three frames or eight tries; or every file of up to three channels, two categories, a blank line anywhere, shelves of two | `MoviesRight`; `PagesWhole`: the pages of a site and the buttons of a film or episode; `ChannelsRight`: the channels of a file, its menu and the page of a category |
| `frame_posters` | three frames | `NeverEarly`, `PosterOwn`, `Answered` |
| `service_process` | two TLS clients, one faulty; three calls, one of a silent site; two admitted | `OneAtATime`, `DeafHasCause`, `DeafForGood`; `CallersServed`: who waits for good has a cause |
| `atv_pages` | two calls of the showtimes handlers with a movie of two parts; or two versions in three theatres, two of them equally near; or a movie's page over two midnights with a change of the clock; or every template of three tokens and four bodies | `PageRight`: the bar of dates and the spinner; `RenderRight`: the times of a theatre, and templates; `ShowtimesRight`: replies and calls |
| `atv_app` | two page loads; or three views of two names; or two playbacks of two parts; or two logins and a query; or every list of up to four photos with every draw | `KeepsPromise`: the loader implements `ProxyPages`; `StuckHasCause`, `LoadEnds`; `ViewsOwn`; `PlaybackOwn`; `SessionKept`, with every callback that is waited for; `PhotosRight` |

What they show, in the order of what a maintainer would care about:

- An update whose download fails, that throws or that dies after
  `CheckUpadate` is never repeated: `RecordedIsApplied` only holds with `causes = {}`,
  and each member of `causes` is reached. A crash, `CleanUpdates`, or a `File.Move` or `File.Copy` that is
  refused and swallowed can take a target away; overlapping updates alone cannot
  (`TargetWhole`). The service is left without a listener after two of `Start` and the updates were busy
  together, or without any overlap when there is no network, the port is taken or the host fails: `Init` swallows that
  and `StartService` returns as if it listened. Nothing else does it, and without overlap at least nothing listens that the
  next update could not close (`QuietMeansListening`). The same two, and a DLL that is not whole, are what can end the process by an exception
  (`FatalHasCause`). Its memory of the version catches up, however slow ticks set it back meanwhile, unless
  `UpdateConfig.xml` was cut off by a crash (`RecordedCatchesUp`).
- The TLS server serves one client at a time and is deaf for good after the
  first handler that fails before it asks for the next accept.
- A call whose site cannot be reached hangs and keeps its place of the 128: the
  others are answered while fewer hang than the service admits.
- A machine that uses the DNS service as its own name server cannot resolve anything
  through it, `trailers.apple.com` included: each query waits for a query of its own, so the
  first of them that ends does so by the resolver's timeout, and is answered with a failure, and
  so are those that waited for it (`NoSelfAnswer`, `QueryEnds`). On other machines a query that comes before `_ipSite`
  is assigned is answered with 255.255.255.255 (`"nowhere"` in `answer`).
- A page that is loaded on the Apple TV keeps what `ProxyPages` promises, whatever is
  thrown where: a viewer who gave up gets no page but one whose document was already with the proxy, or
  whose request has no `onCancel` (an error page may come, of the aborted request). Its spinner ends, except in named cases (`StuckHasCause`, `LoadEnds`): `loadURL` and
  `loadAndSwapURL` have an error page for every failure of a request that was sent, while the decorate functions,
  `loadTrailerDetailPage` and `onAppEntry`'s hook leave the spinner when it fails. A request that
  cannot be sent leaves the spinner in all of them, `loadURL` included.
- Two loads of showtimes in one page share their counters. Only then (`shaken`), or after a
  handler that threw (`puzzled`), can a page have part of its times, be shown twice or never
  (`ShowtimesRight`). A navigation's older reply never replaces a newer one's, unless two
  requests began in the same millisecond. A failed part calls `failure` at once and
  again for the next (`hurt`), and the spinner may go or stay too long (`PageRight`).
- A page opened without a chosen theatre shows the nearest, with the times of one
  reply only, and the hour after midnight is sorted as the hour after
  noon (`RenderRight`). The bar of dates skips or repeats a day when the clock is changed between, and only for a
  page made within an hour of midnight (`PageRight`).
- `EJS` with the delimiters `<%` does not know `%%>`; a template that avoids it, and ends its
  comments in their tags, is rendered as written (`RenderRight`).
- Only the newest dialog is sure to call its own functions (`ViewsOwn`): the numbers of the older ones are overwritten, and of
  what those call nothing is claimed. Bookmarks and playlists are
  mixed only between playbacks that overlapped, and the shuffle is fair
  (`PlaybackOwn`, `PhotosRight`). A token that arrives after the logout is stored again
  (`late` in `LoggedOut`): no other way leads back to a token.
- Without concurrent requests the shared catalogues are right; each property of
  `MovieBox`, `FilmsCache`, `PageFanout` and `FramePosters` says what exactly a race
  can spoil and that nothing else can: a lost increment makes the request spin for
  good (`Answered` has that case), but never answer early.
- The page cache recovers by itself from torn files and short pages.

**Bounds and why they are enough.** The races of this code are between two
threads, with a third one as the onlooker: two clients and the timer, two updates
and `Start`, three ticks of `CheckUpadate` (a slow one, one it sets back, and the next), each as often as it
likes, three requests (`MovieBox`, `FilmsCache`), three frames (two that clash
and one between). Two versions tell old from new; two players tell one's files from
the other's; in `live`, three versions let a slow tick be late by more than one. Four pages leave room for a lost page before, between and after
two others; the code has fourteen. The lifetimes are one tick and the ages are
cut off when they are over it: all that the code asks of an age is whether it is
over. Shelves of two and three channels have the full, the short and the second
shelf; the code has shelves of four. Two admitted calls, one of which a silent
site holds, leave one place. `HttpRequestsGo` has its own count. `PageCache` follows one file name in a behaviour
(`Shelves`): requests for different names touch different files; the order in which
a catalogue reads its posters' cache is the one exception, and the poster chain
of `ShowUcozSer` is modelled. The liveness of the page cache is about
the names in `Watched`, one of each kind: a title, a name two managers share, and a
name with many arguments. Three datagrams at one listener: a query, the one its lookup makes, and one
that comes between. On the Apple TV two of a kind meet (loads, calls, playbacks,
logins); two parts make one reply the last and another not; three theatres have the chosen,
a near one and one as near; three tokens put any tag between two others, which is as far as
the compiler's state reaches (the open tag and the line); four photos have orders enough for the
unfair draws of a shuffle off by one. The hours run from the second evening to the third night, with a change
of the clock in that night or the one after the next. The other
bounds of counters (`MaxStarts`, `MaxFailures`, `MaxUpdates`, `MaxVersion`, `MaxCrashes`,
`MaxAge`, `MaxChannels`, `MaxFrames`, `MaxLength`, `MaxPhotos`, `LastHour`) are constants
whose comments say so.

`MCUpdateService` has a VIEW: states that differ only in what no step and no property of the run reads any more count as one (a host
that is not open and that nobody refers to, the locals of a `Callback` that is done with them, used copies). What it leaves out is
listed there.

**Deadlock** is checked in `stream`, `live` and `caches`, whose
systems never come to rest. The others may: a service that died, calls each made once,
the one request that is answered, a file taken apart, updates used up, a viewer who has called what there is
to call.

**Fairness.** Weak fairness of the steps a thread takes once it has begun, because
the scheduler runs every thread and each wait in those steps has a timeout
(`WaitForChanged`, `WebClient`, stream timeouts). None for what users, sites,
players, crashes and versions do, with these exceptions: ticks of the clock
(`Tick`) and of the service's timer, whose `Callback`s end, as their downloads do; strong fairness of `Accept` and `Admit`, because the listener's backlog and
the throttle's queue are served in order, so a client's turn comes whenever turns
go round; the answer or failure of a site that is not in `Silent`; `<>[][~Restart]`,
as a service that is restarted for ever promises nothing; in `DnsUdpServer` and `DnsService`,
that the threads of the pool run, that sends end and that the resolver returns (it has a
timeout). On the Apple TV: a request is answered or fails, the device calls `loadXML`'s
callback and `didStopPlaying`, and a handler that has begun goes on. None for the viewer.
A handshake with a faulty
client has no fairness: the code sets its timeouts after it. Once the handshake is done the read of a faulty client ends by its
`ReadTimeout`: right for the clients the module calls faulty, which are silent, have hung up or fail the handshake.
`ReadTimeout` is of each read, so a client that sends a byte now and then could hold the handler there as well. Nothing keeps the process of the
service up: `RecordedCatchesUp` is asked of behaviours in which it is up for good at last (`<>[]up`).

## Finding

`DnsServer`'s constructor documents `udpListenerCount` as "The count of threads listings
on udp". When `EndSend` throws, `HandleUdpException` gives the listener back and
`EndUdpSend` gives it back again, so that every failed send lets one more query be
in work (`DocumentedCount`, violated by `dns_udp_count`). `HandlersBounded`, which is
proved, says how far: by the number of such failures and no further.

## Proofs

| module | theorems | for every |
|---|---|---|
| `StreamPlayer_proofs` | `TypeCorrect`, `OverlapTheorem`, `SweepTheorem`, `LeftoverTheorem` | set of clients, number of players |
| `UpdateService_proofs` | `TypeTheorem`, `TargetTheorem`, `QuietTheorem`, `AppliedTheorem`, `FatalTheorem`, `CheckTheorem` (the refinement) | set of items and of updates, versions, crashes |
| `DnsService_proofs` | `TypeCorrect`, `OneReceiverTheorem`, `NeverDeafTheorem`, `HandlersTheorem` of the server; `ServerUnderService`, `OneReceiverServed`, `NeverDeafServed`, `NoSelfAnswerHolds` of the service | count of listeners, threads, failures; finite set of datagrams |
| `ServiceProcess_proofs` | `OneAtATimeHolds`, `DeafHasCauseHolds`, `DeafForGoodHolds`, `ProcessListens` | set of clients, faulty or not, with any calls beside them |
| `Caches_proofs` | `PagesType`, `FreshTheorem`, `MixUpsTheorem`, `FaultsTheorem` | set of requests, lifetime, names; set of entries of a catalogue |
| `Lists_proofs` | `MoviesType`, `MoviesTheorem`, `PagesTheorem`, `ListsTheorem`, `ChannelsTheorem` | set of calls and titles; number of pages, frames, tries; channels of a file, of a shelf, pictures of a category |
| `FramePosters_proofs` | `NeverEarlyHolds`, `PosterOwnHolds` | number of frames |
| `AtvApp_proofs` | `LoadsType`, `StuckTheorem`, `PromiseTheorem` (the refinement), `ViewsTheorem`, `PlaybackTheorem`, `LoggedOutTheorem`, `PhotosTheorem`, `AppTheorem`; `ShowtimesTheorem`, `SpinnerTheorem`, `DatesTheorem`, `PageTheorem`; `TheatresTheorem`, `TemplatesTheorem`, `RenderTheorem` | set of loads, views, names, options, playbacks, logins, queries, calls; number of parts, of photos; starts and changes of the clock; theatres, their distances and times; length of templates, bodies of tags |

They assume the named `ASSUME`s of the modules and nothing else: `AppAssumption`,
`UpdateAssumption`, `PagesAssumption`, `ListsAssumption`, `ItemsAssumption`, `NoneAssumption`, `CacheAssumption` and `FilmsAssumption` say that numbers are
numbers, that sets are finite where their members are counted, and that the value for "none" is not one of the things it stands
beside; and of the times of a theatre that they are hours of a clock that goes from 1 to 12, which is what the feed has and
`sortByShowtimes` counts on. `AppTheorem`, `PageTheorem`, `RenderTheorem`, `FaultsTheorem`, `PagesTheorem` and `ListsTheorem` are about the
specifications that the runs check, whichever part a behaviour is about. The inductive
invariants, and why the properties alone are not inductive:

- *StreamPlayer*: `IInv` adds `Knows` to the type invariant. A thread's list is out of
  date by exactly the players that started since: every running player it does
  not know has a number above `saw[t]`, and one about to start a player has an
  empty list. `OverlapOnlyFromRace` follows for the player it then starts, and
  `SweepSparesNobodyItSaw` for those it spares. `LeftoverTheorem` adds whose sweep a
  file of a dead player belongs to.
- *UpdateService*: `Typed` and `Locals` say what an update can know at each of its steps;
  `HalfReplaced`: a missing target has an update at `copy`, an empty one at
  `move`, or is in `broken`, and the steps of two updates on one target can only swap these; a move or copy that is refused
  adds to `broken` what it leaves;
  `Solo`: until two that were busy met, one at most is busy, and it opens the host it made;
  `Orderly`: until then nothing listens from an update's `Dispose` to its `StartService`, `calcInstance`
  is the assembly it hosts, and with nobody on the way one service listens, unless `Start` failed or the newest host is `lost`: then
  none listens (`RestOrder`), and only a host that was kept from listening is closed on the way (`HostOrder`);
  `Applied`: while `causes` is empty the items of the recorded version are in place, or one update has each of them
  in hand or before it, and the code that is going to listen is as new. The members of `causes` are what it needs: the step that adds
  one is a step that breaks it. `CheckTheorem`: the refinement maps every step from `dispose` on to `update`, so the steps
  of `CheckUpadate` are those of `UpdateCheck`, an end of the process is `ProcessEnds`, and all else stutters; it carries the safety part
  of `UpdateCheck`, about which `RecordedCatchesUp` is checked, over to the service, and not its fairness, as an update number is used once.
- *DnsUdpServer*: `Accounting` counts each listener once, as available, held by one of the
  steps, or lost; `NoLostWakeup` says that an available listener without an active
  receive has a thread on its way to start one.
- *DnsService*: every step is one of the server's, leaves it alone, or is `GiveUp`
  (`ServiceSteps`); so one lemma about `GiveUp` carries the server's invariant, and the
  theorems on its listeners, over to the service. `NoSelfAnswer` is inductive once the
  types of `answer` and `kind` are known: on a machine with `self` an answer is made of what another
  datagram was answered with, and none of those is an address.
- *SslServer*: `Baton`: the pending accept and the handlers that have yet to ask for the
  next one are one baton, which is somewhere unless `lost`. In `ServiceProcess` only
  `crashed` is shared, and steps of the web service may only set it, so the invariant
  is kept by them as well.
- *Caches*: for the pages, `FilesRight` (a file is at least as old as its content, and holds a page of a
  method that may write it), `JobsRight` (what a request asks for and is going to save is a page of the name) and `Young` (what a
  request found young enough still is, until it has read it): `Fresh` alone says nothing between the look and the answer.
  For the cartoons, `Counted`: each entry is in the list, or before each of the requests that have yet to add it, no more often
  than requests filled the list.
- *Lists*: for MovieBox, `Sound` and, until two requests overlap, `Serial`: who makes a catalogue
  is alone (`Lone`), the shared list is as far as its loop (`Making`), whole when it is left (`Made`), and what a search
  finds (`Ready`). For the pages of a site, `Meetings` (who met whom) and `Counting`: `Count` is not short of the pages whose `Add`
  met no other, not even where one writes back what it read when it began. For the buttons, how far a film, an
  episode and the loop of `HttpRequestsGo` have come (`FilmSoFar`, `EpisodeSoFar`, `GoSoFar`). For an m3u file, `FileInv`: the
  loop is at the first line of a channel with the dictionary made of those before it, or past a blank line,
  and then it cannot come to the end but by throwing, whatever it takes the lines for: it goes on by three, and one line is left in the end. `PageInv`: the channel put on a shelf n-th is at place
  `(n - 1) % Width` of shelf `(n - 1) \div Width`, which needs the division by a width that is not known to go up by one at the right
  turn; `MenuInv`: the pictures of a category are next to each other and as many as it has channels, up to the limit.
- *FramePosters*: `CountInv`: neither the counter nor any value read to be raised
  exceeds the work items that have ended, which a lost increment keeps true.
  `PosterInv`: one frame at a time is loaded, and whoever still reads then is in `raced`.
- *AtvLoader*: `Flow` relates how far a load's request, its document and its view are; the
  lemma `Outcomes` says what the nested handlers can come to for each kind of call. The
  refinement maps `bound` to the loads whose function has no `onCancel` and those whose document is with `proxy.loadXML`: `Call` is
  `Ask`, `Answer` with a page is `Arrive`, `Shown` is `Show` or `Tell`, `NotShown` is `Drop`, `Cancel` is `Dismiss`, and the rest
  stutters. A dismissed load with an `onCancel` has no request under way (`Flow`), so no page arrives for it.
- *AtvDomViews*: `Named` and `Asking`: the dialog made last has the callbacks of its own options,
  since its numbers overwrite those of older ones.
- *AtvPlayer*: two active playbacks have met (`Alone`); each global belongs to an active one (`Held`), so for a playback that met
  no other they are all its own; its requests are for its parts in their order (`InOrder`).
- *AtvSession*: while nobody signed in since the last logout, a login that can still bring a token was under way at one.
- *AtvPhotos*: the photos are where the draws so far have put them (`Shuffling`). A turn settles its place for good
  (`Settled`); so draws that differ first at some turn settle different photos there (`OneCourse`), any order is settled place by
  place (`EveryOrder`), and there are as many lists of draws as orders (`AsMany`): that is what a fair shuffle is. The movies of a
  theatre stay parted in those moved to the end and the others, each in their order (`Parting`). The library's induction
  theorems take an operator; these proofs go by the least number at which the claim would fail (`Least`), which is a fact about sets.
- *AtvShowtimes*: `Aborts`, `Meets`, `Counts`: for a call that met no other, the replies
  counted and those to come are as many as the global counter says, hence the last one, and it only, shows the page. In
  between, after the movie's own reply, the counter is reset in one step with the requests it counts. `Spins` needs
  that equality, not only the bound, for the spinner to go with the last reply.
- *AtvDates*: `DatesInv`: the day a page asks for lies between that of its list and today. `Navigation`
  computes the bar of days, which its definition gives item by item, and `DaysGoOn` when 24 hours are a day.
- *AtvTheatres*: `TheatresInv`: the data has an entry for each theatre that a good reply told of, and nothing else, the nearer
  theatres first (`DataOf`), whatever order the replies came in and wherever a sort leaves equal elements: `Reordered` and
  `Ascending` are all that is known of it. For a theatre that was asked for, what its entries show is what the
  replies told of it (`AskedWhole`); the first entry, which is taken otherwise, is of one reply (`NearestTold`): so the
  page has the times of that reply only. `NearbyIs` follows the filter of `nearbyTheatres`: after each theatre (`Kept`) the list has those
  before it but the selected one, each once and by distance.
- *AtvTemplates*: `TemplatesInv`: the scanner is between two pieces (`Between`), with the pieces after it in the tokens and what the script
  puts out equal to what those before it mean, or after some word of a tag's body (`Within`). That a run of the
  lines loses nothing needs `EndedLine`: only the last command of a line may be a comment to its end, since
  the compiler ends the line there. Of `FlattenSeq`, which is recursive, two facts are used: what one more element at
  its end (`FlattenAppend`) or at its front (`FlattenFront`) does, both by `Least`. Templates that are not
  careful, by `Careful`, are in the model, and nothing is claimed of them.

Only model-checked:

- liveness: `KillAceEnds`, `GetStreamAnswered`, `RecordedCatchesUp`, `ListensAgain`, `QueryEnds`, `FaultsForgotten`,
  `FilmsRecover`, `Answered`, `CallersServed`, `LoadEnds`, `CallsEnd` in `ShowtimesRight` and the answers in `SessionKept`: fairness
  and ENABLED are beyond the prover (the other parts of `ShowtimesRight` and `SessionKept` are proved).

Every invariant of a run is proved, and every action property.

The `TypeOK`s are invariants of their modules; no run
repeats them, as their other properties already depend on the types.

## Not modelled

- The TCP side of the DNS server: it is started with no TCP listener (`DNSService.cs:81`). DNS messages and
  the other clients of that library: third-party data formats, unused clients. The truncation of a long answer
  and TSIG are one outcome of the processing.
- Managers that keep no state (Friends, Show, Arrr, M4Kino, BestRussian) and the pages of seasons and episodes,
  made in one loop of what one page says. `GetSeries` of `UcozKino` and `Ucoz` begins after a `return`.
- Generated clients, the tray program, the sample service, installers, logging.
- On the Apple TV: menus, `handleNavigate`, `swapLabel`, the event logger and the text entry controllers, which move
  elements of a document whose layout the device owns (`TextViewController` is never initiated, and of the menus nothing is called);
  the code behind `SHOW_EVENT_EXAMPLE`, which is switched off; `EJS.Helpers` and `EjsView`, which only write HTML and
  are called nowhere; formatting of dates, addresses and durations; a `refresh` of an `Ajax` request, never asked for.
- The scripts under `src/ssl`: they belong to web pages about OpenSSL that were saved with their files, and
  are no part of the program. They are ten of the seventeen thousand lines of JavaScript in the repository,
  so the share of all JavaScript lines that the map covers says little about the Apple TV's scripts, of which it covers a good third of
  the text, and every function that keeps state, each once.

## Plan

Done: the modules above. To come:

1. Abstract specifications: a cache that gives the page asked for within its lifetime or
   nothing (`PageCache`), a set of listener permits (`DnsUdpServer`).
2. `multCache` (`MultPoiskSiteManager.cs:99`, `:178`), which keeps what `FramePosters`
   answers, lost elements included, without an age.
