------------------------------ MODULE PageFanout ------------------------------
(***************************************************************************)
(* UcozKino.GetContent (and Ucoz.GetContent, the same code): one request   *)
(* starts a task for each page of the site.  The tasks put what they made  *)
(* of their page in one Dictionary, which is not made for several threads, *)
(* and the request, when all have ended, puts the pages together in order. *)
(***************************************************************************)
EXTENDS Naturals, FiniteSets

CONSTANT Last   \* the number of the last page, 14 in the code

LastAssumption == Last \in Nat \ {0}

Pages == 1 .. Last

VARIABLES
    started,   \* the pages whose task has been started are 1 .. started
    pc,        \* the next step of each task
    elements,  \* the pages a lookup finds in the dictionary
    count,     \* the dictionary's Count
    over,      \* during a page's Add: the pages whose Add ran at the same time,
               \* and after it {} if there were none, otherwise the page itself
    saw,       \* during a page's Add: Count when it began
    answer,    \* what the request has answered with
    shown      \* the pages of the answer; the loop puts them in their order

vars == <<started, pc, elements, count, over, saw, answer, shown>>

Init ==
    /\ started  = 0
    /\ pc       = [i \in Pages |-> "none"]
    /\ elements = {}
    /\ count    = 0
    /\ over     = [i \in Pages |-> {}]
    /\ saw      = [i \in Pages |-> 0]
    /\ answer   = "none"
    /\ shown    = {}

Goto(i, step) == pc' = [pc EXCEPT ![i] = step]
Adding == {i \in Pages : pc[i] = "adding"}
Ended  == {i \in Pages : pc[i] \in {"done", "failed"}}

\* Two Adds have run at the same time: from then on the dictionary's chains and
\* its count may contradict each other.
Raced   == {i \in Pages : over[i] # {}}
Spoiled == Raced # {}

Unanswered == UNCHANGED <<answer, shown>>
Untouched  == UNCHANGED <<elements, count, over, saw>>

\* Task.Run, for one page after the other.
Start ==
    /\ started < Last
    /\ started' = started + 1
    /\ Goto(started + 1, "request")
    /\ Untouched /\ Unanswered

\* The page is loaded and its entries are read.
Request(i) ==
    /\ pc[i] = "request"
    /\ Goto(i, "add")
    /\ UNCHANGED started /\ Untouched /\ Unanswered

\* The site fails, or an entry lacks its picture or its link.
RequestThrows(i) ==
    /\ pc[i] = "request"
    /\ Goto(i, "failed")
    /\ UNCHANGED started /\ Untouched /\ Unanswered

\* ContainsKey, which does not find the page, and the beginning of Add.
BeginAdd(i) ==
    /\ pc[i] = "add"
    /\ Goto(i, "adding")
    /\ over' = [j \in Pages |-> IF j = i THEN Adding
                                ELSE IF j \in Adding THEN over[j] \union {i} ELSE over[j]]
    /\ saw' = [saw EXCEPT ![i] = count]
    /\ UNCHANGED <<started, elements, count>> /\ Unanswered

\* The end of Add.  Alone it adds the page; at the same time as others it may
\* lose its page or theirs, and count fewer than there were.
EndAdd(i) ==
    /\ pc[i] = "adding"
    /\ Goto(i, "done")
    /\ \E lost \in SUBSET (IF over[i] = {} THEN {} ELSE over[i] \union {i}) :
          elements' = (elements \union {i}) \ lost
    /\ count' \in IF over[i] = {} THEN {count + 1} ELSE saw[i] + 1 .. count + 1
    /\ over' = [over EXCEPT ![i] = IF @ = {} THEN {} ELSE {i}]
    /\ saw' = [saw EXCEPT ![i] = 0]
    /\ UNCHANGED started /\ Unanswered

\* A spoiled dictionary makes a call throw, or follow a chain without end.
DictionaryFails(i) ==
    /\ pc[i] \in {"add", "adding"}
    /\ Spoiled
    /\ \E step \in {"failed", "stuck"} : Goto(i, step)
    /\ UNCHANGED started /\ Untouched /\ Unanswered

\* The pages that the loop from first to end finds, one after the other.
Assembled(first, end) == (first .. end) \intersect elements

\* Mutants of Assemble: the loop starts at the second page, or ends before the
\* last two.
AssembleFromTwo ==
    /\ answer = "none" /\ started = Last
    /\ Ended = Pages
    /\ IF \E i \in Pages : pc[i] = "failed"
       THEN answer' = "error" /\ UNCHANGED shown
       ELSE answer' = "page" /\ shown' = Assembled(2, count - 1)
    /\ UNCHANGED <<started, pc>> /\ Untouched

AssembleShort ==
    /\ answer = "none" /\ started = Last
    /\ Ended = Pages
    /\ IF \E i \in Pages : pc[i] = "failed"
       THEN answer' = "error" /\ UNCHANGED shown
       ELSE answer' = "page" /\ shown' = Assembled(1, IF count > 1 THEN count - 2 ELSE 0)
    /\ UNCHANGED <<started, pc>> /\ Untouched

\* WaitAll: the exception of a task is the request's; otherwise the pages below
\* the dictionary's Count are put together.  (The last one is not below it.)
Assemble ==
    /\ answer = "none" /\ started = Last
    /\ Ended = Pages
    /\ IF \E i \in Pages : pc[i] = "failed"
       THEN answer' = "error" /\ UNCHANGED shown
       ELSE answer' = "page" /\ shown' = Assembled(1, count - 1)
    /\ UNCHANGED <<started, pc>> /\ Untouched

\* The loop's ContainsKey meets a chain without end.
AssembleHangs ==
    /\ answer = "none" /\ started = Last
    /\ Ended = Pages /\ \A i \in Pages : pc[i] = "done"
    /\ Spoiled
    /\ answer' = "hangs"
    /\ UNCHANGED <<started, pc, shown>> /\ Untouched

Task(i) == Request(i) \/ RequestThrows(i) \/ BeginAdd(i) \/ EndAdd(i) \/ DictionaryFails(i)
GetContent == Start \/ Assemble \/ AssembleHangs

Next == GetContent \/ \E i \in Pages : Task(i)

Spec == Init /\ [][Next]_vars

-----------------------------------------------------------------------------
\* Properties.

\* Every variable keeps its type; the dictionary holds pages whose task has
\* ended, or has been told so, and counts no more than were added.
TypeOK ==
    /\ started \in 0 .. Last
    /\ pc \in [Pages -> {"none", "request", "add", "adding", "done", "failed", "stuck"}]
    /\ elements \subseteq {i \in Pages : pc[i] = "done"}
    /\ count \in 0 .. Cardinality({i \in Pages : pc[i] = "done"})
    /\ over \in [Pages -> SUBSET Pages]
    /\ saw \in [Pages -> 0 .. Last]
    /\ answer \in {"none", "page", "error", "hangs"}
    /\ shown \subseteq Pages

\* When the Adds came one after the other, the page that is answered, and kept
\* for two hours, has every page of the site but the last one.
WholeWhenQuiet ==
    answer = "page" /\ ~Spoiled => shown = 1 .. Last - 1

\* Adds at the same time cost at most two pages for each of them.
LossBounded ==
    answer = "page" /\ Spoiled => Cardinality(shown) + 2 * Cardinality(Raced) >= Last

=============================================================================
