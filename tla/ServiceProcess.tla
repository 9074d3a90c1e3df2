---------------------------- MODULE ServiceProcess ----------------------------
(***************************************************************************)
(* The process of the Windows service as its users meet it: the TLS        *)
(* listener (SslServer) beside the calls of the web service that wait for  *)
(* other sites (PostRequest).  They share the process: an exception on a   *)
(* thread of the pool, in a handler of either, ends both.                  *)
(***************************************************************************)
EXTENDS SslServer

CONSTANTS Calls, Silent, MaxConcurrentCalls

ASSUME ServiceAssumption ==
    /\ Silent \subseteq Calls
    /\ MaxConcurrentCalls \in Nat \ {0}

VARIABLES call, tcs

Web == INSTANCE PostRequest

sslVars     == <<start, count, taken, bound, pending, pc, fileOk, lost>>
webVars     == <<call, tcs>>
processVars == <<sslVars, webVars, crashed>>

ProcessInit == Init /\ Web!Init

\* A thread of the one or of the other moves.
ProcessNext ==
    \/ Next /\ UNCHANGED webVars
    \/ Web!Next /\ UNCHANGED sslVars

ProcessSpec == ProcessInit /\ [][ProcessNext]_processVars /\ Fairness /\ Web!Fairness

-----------------------------------------------------------------------------
\* Properties.

\* A client of the listener that waits for good has a cause, and every call of the
\* web service that waits is admitted and answered in the end, whatever the TLS
\* listener's clients do, as long as the process lives and fewer calls are held
\* by sites that are silent or could not be reached than the service admits.
CallersServed == WaitingHasCause /\ Web!QueuedAnswered

=============================================================================
