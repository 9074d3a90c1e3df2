----------------------------- MODULE AtvSession -----------------------------
(***************************************************************************)
(* Signing in and out, and the screensaver's query.  The application's     *)
(* script of Content/js keeps the token in sessionStorage, and adds it to  *)
(* every request the device makes; a reply to onAuthenticate may come      *)
(* after a logout, or after the reply to a later login.  onExecuteQuery is *)
(* there twice, in Content/js and in XmlDir/js.                            *)
(***************************************************************************)
EXTENDS Naturals, FiniteSets

CONSTANTS
    Logins,     \* calls of onAuthenticate
    Queries,    \* calls of onExecuteQuery
    None

VARIABLES
    login,      \* login[a]: how far onAuthenticate got
    token,      \* "auth-token": the login it came from
    request,    \* the token the device's last request was sent with
    late,       \* history: logins under way when the viewer logged out
    signedOut,  \* history: nobody signed in since the last logout
    query       \* query[q]: how far onExecuteQuery got

vars == <<login, token, request, late, signedOut, query>>

Sites == {"Content", "XmlDir"}

Init ==
    /\ login = [a \in Logins |-> "none"]
    /\ token = None /\ request = None
    /\ late = {} /\ signedOut = TRUE
    /\ query = [q \in Queries |-> "none"]

\* onAuthenticate; setting up the request may throw.
OnAuthenticate(a) ==
    /\ login[a] = "none"
    /\ \E s \in {"sent", "failure"} : login' = [login EXCEPT ![a] = s]
    /\ signedOut' = FALSE
    /\ UNCHANGED <<token, request, late, query>>

\* Its handler: a token, no token, another status, or no JSON at all.
Authenticated(a) ==
    /\ login[a] = "sent"
    /\ \/ login' = [login EXCEPT ![a] = "success"] /\ token' = a
       \/ login' = [login EXCEPT ![a] = "failure"] /\ UNCHANGED token
    /\ UNCHANGED <<request, late, signedOut, query>>

\* Mutant of OnLogout: the token stays.
LogoutOnly ==
    /\ late' = late \union {a \in Logins : login[a] = "sent"}
    /\ signedOut' = TRUE
    /\ UNCHANGED <<login, token, request, query>>

\* onLogout clears sessionStorage.
OnLogout ==
    /\ token' = None
    /\ late' = late \union {a \in Logins : login[a] = "sent"}
    /\ signedOut' = TRUE
    /\ UNCHANGED <<login, request, query>>

\* onGenerateRequest decorates the URL.
OnGenerateRequest == request' = token /\ UNCHANGED <<login, token, late, signedOut, query>>

\* onExecuteQuery of either script.  Content's has no answer for a failure, and
\* neither has one for a reply it cannot read.
OnExecuteQuery(q) ==
    /\ query[q] = "none"
    /\ \E s \in Sites : query' = [query EXCEPT ![q] = s]
    /\ UNCHANGED <<login, token, request, late, signedOut>>

QueryReply(q) ==
    /\ query[q] \in Sites
    /\ \E a \in {"success", "unread", IF query[q] = "XmlDir" THEN "failure" ELSE "unanswered"} :
          query' = [query EXCEPT ![q] = a]
    /\ UNCHANGED <<login, token, request, late, signedOut>>

Next ==
    \/ \E a \in Logins : OnAuthenticate(a) \/ Authenticated(a)
    \/ OnLogout \/ OnGenerateRequest
    \/ \E q \in Queries : OnExecuteQuery(q) \/ QueryReply(q)

Spec == Init /\ [][Next]_vars

\* Requests are answered or fail.
Fairness ==
    /\ \A a \in Logins : WF_vars(Authenticated(a))
    /\ \A q \in Queries : WF_vars(QueryReply(q))
FairSpec == Spec /\ Fairness

-----------------------------------------------------------------------------
TypeOK ==
    /\ login \in [Logins -> {"none", "sent", "success", "failure"}]
    /\ {token, request} \subseteq Logins \union {None}
    /\ late \subseteq Logins /\ signedOut \in BOOLEAN
    /\ query \in [Queries -> Sites \union {"none", "success", "failure", "unread", "unanswered"}]

\* After a logout no request carries a token, until somebody signs in, unless a
\* login that was under way at the logout brought one back.
LoggedOut ==
    [][request' # request /\ signedOut => request' \in late \union {None}]_vars

\* Every login is answered, as the comment on onAuthenticate demands, and every
\* query of XmlDir's script, but for a reply it cannot read.
CallbacksCalled ==
    /\ \A a \in Logins : login[a] = "sent" ~> login[a] \in {"success", "failure"}
    /\ \A q \in Queries :
          query[q] = "XmlDir" ~> query[q] \in {"success", "failure", "unread"}
=============================================================================
