------------------------------ MODULE PostRequest ------------------------------
(***************************************************************************)
(* Calls of the service that await AppleBase.SendPostRequest (or           *)
(* SendMoonRequest, the same code): a TaskCompletionSource is completed by *)
(* two callbacks of an HttpWebRequest, which has no timeout when it is     *)
(* used in this way.  The service admits a number of calls at one time.    *)
(***************************************************************************)
EXTENDS Naturals, FiniteSets

CONSTANTS Calls,
          Silent,               \* the calls whose site may leave a request unanswered
          MaxConcurrentCalls    \* 128 in App.config

VARIABLES
    call,     \* the next step of each call
    tcs,      \* its TaskCompletionSource
    crashed   \* the process has ended

vars == <<call, tcs, crashed>>

Init ==
    /\ call    = [c \in Calls |-> "away"]
    /\ tcs     = [c \in Calls |-> "none"]
    /\ crashed = FALSE

At(steps)      == {c \in Calls : call[c] \in steps}
Goto(c, step)  == call' = [call EXCEPT ![c] = step]
Becomes(c, as) == tcs' = [tcs EXCEPT ![c] = as]

\* The calls that count against the throttle, those nothing will go on with,
\* and those that may be among them.
Admitted == At({"stream", "response", "ended", "resumed"})
Dropped  == {c \in At({"ended"}) : tcs[c] = "open"}
Held     == Dropped \union (Silent \cap At({"stream", "response"}))

Arrive(c) ==
    /\ call[c] = "away" /\ ~crashed
    /\ Goto(c, "queued")
    /\ UNCHANGED <<tcs, crashed>>

\* The call is admitted and its request is begun: the task is awaited.
Admit(c) ==
    /\ call[c] = "queued" /\ ~crashed
    /\ Cardinality(Admitted) < MaxConcurrentCalls
    /\ Goto(c, "stream")
    /\ Becomes(c, "open")
    /\ UNCHANGED crashed

\* The first callback writes the parameters and asks for the response.
GotStream(c) ==
    /\ call[c] = "stream" /\ ~crashed
    /\ Goto(c, "response")
    /\ UNCHANGED <<tcs, crashed>>

\* The second callback reads the response.
GotResponse(c) ==
    /\ call[c] = "response" /\ ~crashed
    /\ Goto(c, "ended")
    /\ Becomes(c, "result")
    /\ UNCHANGED crashed

\* An exception in a callback that is not a WebException, or one with the
\* site's response, completes the task.
Fails(c) ==
    /\ call[c] \in {"stream", "response"} /\ ~crashed
    /\ Goto(c, "ended")
    /\ Becomes(c, "exception")
    /\ UNCHANGED crashed

\* A WebException without a response - no such host, no connection - is caught
\* and nothing is made of it.
FailsWithoutResponse(c) ==
    /\ call[c] \in {"stream", "response"} /\ ~crashed
    /\ Goto(c, "ended")
    /\ UNCHANGED <<tcs, crashed>>

\* Reading the response of a WebException throws inside the catch, on a thread
\* of the pool.
CatchThrows(c) ==
    /\ call[c] \in {"stream", "response"} /\ ~crashed
    /\ crashed' = TRUE
    /\ UNCHANGED <<call, tcs>>

\* Mutant of Resume: only a result resumes the call.
ResumeResult(c) ==
    /\ call[c] = "ended" /\ tcs[c] = "result" /\ ~crashed
    /\ Goto(c, "resumed")
    /\ UNCHANGED <<tcs, crashed>>

\* The await goes on when the task is complete.
Resume(c) ==
    /\ call[c] = "ended" /\ tcs[c] # "open" /\ ~crashed
    /\ Goto(c, "resumed")
    /\ UNCHANGED <<tcs, crashed>>

\* The page is made of the result, or null of an exception, which is logged: an
\* answer in either case.
Answer(c) ==
    /\ call[c] = "resumed" /\ ~crashed
    /\ Goto(c, "away")
    /\ Becomes(c, "none")
    /\ UNCHANGED crashed

Callback(c) ==
    GotStream(c) \/ GotResponse(c) \/ Fails(c) \/ FailsWithoutResponse(c) \/ CatchThrows(c)

Next ==
    \E c \in Calls : Arrive(c) \/ Admit(c) \/ Callback(c) \/ Resume(c) \/ Answer(c)

Spec == Init /\ [][Next]_vars

\* The service admits the calls in their order; a site that is not silent
\* answers or the connection fails; what the process itself does goes on.
Fairness ==
    /\ \A c \in Calls : SF_vars(Admit(c)) /\ WF_vars(Resume(c) \/ Answer(c))
    /\ \A c \in Calls \ Silent : WF_vars(Callback(c))
FairSpec == Spec /\ Fairness

-----------------------------------------------------------------------------
\* Properties.

\* Every variable keeps its type, and the service admits no more than its number.
TypeOK ==
    /\ call \in [Calls -> {"away", "queued", "stream", "response", "ended", "resumed"}]
    /\ tcs \in [Calls -> {"none", "open", "result", "exception"}]
    /\ crashed \in BOOLEAN
    /\ Cardinality(Admitted) <= MaxConcurrentCalls
    /\ \A c \in Calls : tcs[c] = "none" <=> call[c] \in {"away", "queued"}

\* Every call that waits is admitted and answered in the end, as long as there
\* are fewer calls held by sites that are silent or could not be reached than
\* the service admits.
QueuedAnswered ==
    [](Cardinality(Held) < MaxConcurrentCalls /\ ~crashed) =>
        \A c \in Calls \ Silent :
            (call[c] = "queued") ~> (call[c] = "away" \/ c \in Dropped)

=============================================================================
