----------------------------- MODULE FramePosters -----------------------------
(***************************************************************************)
(* MultPoiskSiteManager.GetListOfMovies: a work item for each frame of a   *)
(* series' page loads the frame into one HtmlDocument, reads the poster    *)
(* from it and lists the frame; the request spins until a counter, which   *)
(* the work items raise without a lock, says that all have ended.          *)
(***************************************************************************)
EXTENDS Naturals

CONSTANT Frames   \* the number of frames

ASSUME FramesAssumption == Frames \in Nat

Items == 1 .. Frames
None  == 0
\* The document while LoadHtml builds it.
Torn  == Frames + 1

VARIABLES
    queued,      \* the work items queued are 1 .. queued
    movies,      \* the frames among them that are not a flash player
    pc,          \* the next step of each work item
    doc,         \* the frame the shared document was made from
    poster,      \* the frame whose poster a work item has read
    tmp,         \* the value a work item has read of the counter it raises
    count,       \* the number for the next id
    id,          \* the number of a work item's element
    frameCount,  \* the counter of the work items that have ended
    items,       \* the frames a reader of the list finds
    clashed,     \* the frames that were added at the same time as another (history)
    raced,       \* the frames that another one's load or a failure may have
                 \* given a wrong poster (history)
    end          \* "spin", then "answered", or "crashed" with the process

vars == <<queued, movies, pc, doc, poster, tmp, count, id, frameCount, items, clashed, raced, end>>

Init ==
    /\ queued     = 0
    /\ movies     = {}
    /\ pc         = [f \in Items |-> "none"]
    /\ doc        = None
    /\ poster     = [f \in Items |-> None]
    /\ tmp        = [f \in Items |-> 0]
    /\ count      = 0
    /\ id         = [f \in Items |-> 0]
    /\ frameCount = 0
    /\ items      = {}
    /\ clashed    = {}
    /\ raced      = {}
    /\ end        = "spin"

Goto(f, step)  == pc' = [pc EXCEPT ![f] = step]
At(step)       == {f \in Items : pc[f] = step}
Running        == end # "crashed"
SameDocument   == UNCHANGED <<doc, poster, raced>>
SameList       == UNCHANGED <<count, id, items, clashed>>

\* QueueUserWorkItem; a frame with a flash player only counts.
Queue ==
    /\ queued < Frames /\ end = "spin"
    /\ queued' = queued + 1
    /\ \/ Goto(queued + 1, "count") /\ UNCHANGED movies
       \/ Goto(queued + 1, "load") /\ movies' = movies \union {queued + 1}
    /\ SameDocument /\ SameList /\ UNCHANGED <<tmp, frameCount, end>>

\* GetHtmlRequest has an answer and LoadHtml begins, under the document's lock.
Load(f) ==
    /\ pc[f] = "load" /\ Running
    /\ At("parse") = {}
    /\ Goto(f, "parse")
    /\ doc' = Torn
    /\ raced' = raced \union At("read")
    /\ SameList /\ UNCHANGED <<queued, movies, poster, tmp, frameCount, end>>

\* Mutant of Loaded: the document is empty.
LoadedNot(f) ==
    /\ pc[f] = "parse" /\ Running
    /\ Goto(f, "read")
    /\ doc' = None
    /\ SameList /\ UNCHANGED <<queued, movies, poster, raced, tmp, frameCount, end>>

Loaded(f) ==
    /\ pc[f] = "parse" /\ Running
    /\ Goto(f, "read")
    /\ doc' = f
    /\ SameList /\ UNCHANGED <<queued, movies, poster, raced, tmp, frameCount, end>>

\* GetHtmlRequest catches whatever fails; the document stays as it is.
LoadFails(f) ==
    /\ pc[f] = "load" /\ Running
    /\ Goto(f, "read")
    /\ raced' = raced \union {f}
    /\ SameList /\ UNCHANGED <<queued, movies, doc, poster, tmp, frameCount, end>>

\* The first video of the document, which may be another frame's by now, gives
\* the poster; what is read of a document being built is any frame's or none.
ReadPoster(f) ==
    /\ pc[f] = "read" /\ Running
    /\ \E p \in (IF doc = Torn THEN {None} \union Items ELSE {doc}) :
          poster' = [poster EXCEPT ![f] = p]
    /\ Goto(f, "readId")
    /\ SameList /\ UNCHANGED <<queued, movies, doc, raced, tmp, frameCount, end>>

\* The enumeration meets a document being built and throws, on a thread of the
\* pool: the process ends.
ReadThrows(f) ==
    /\ pc[f] = "read" /\ Running
    /\ doc = Torn
    /\ end' = "crashed"
    /\ SameDocument /\ SameList /\ UNCHANGED <<queued, movies, pc, tmp, frameCount>>

\* Mutant of ReadId: the number is raised before it is used.
ReadIdRaised(f) ==
    /\ pc[f] = "readId" /\ Running
    /\ id' = [id EXCEPT ![f] = count + 1]
    /\ Goto(f, "writeId")
    /\ SameDocument /\ UNCHANGED <<queued, movies, tmp, count, frameCount, items, clashed, end>>

\* count++ for the element's id: the read, then the write.
ReadId(f) ==
    /\ pc[f] = "readId" /\ Running
    /\ id' = [id EXCEPT ![f] = count]
    /\ Goto(f, "writeId")
    /\ SameDocument /\ UNCHANGED <<queued, movies, tmp, count, frameCount, items, clashed, end>>

WriteId(f) ==
    /\ pc[f] = "writeId" /\ Running
    /\ count' = id[f] + 1
    /\ Goto(f, "add")
    /\ SameDocument /\ UNCHANGED <<queued, movies, tmp, id, frameCount, items, clashed, end>>

\* XElement.Add, from its beginning to its end.
BeginAdd(f) ==
    /\ pc[f] = "add" /\ Running
    /\ clashed' = IF At("adding") = {} THEN clashed ELSE clashed \union At("adding") \union {f}
    /\ Goto(f, "adding")
    /\ SameDocument /\ UNCHANGED <<queued, movies, tmp, count, id, frameCount, items, end>>

\* Adds at the same time may lose each other's elements.
EndAdd(f) ==
    /\ pc[f] = "adding" /\ Running
    /\ \E lost \in SUBSET (IF f \in clashed THEN clashed ELSE {}) :
          items' = (items \union {f}) \ lost
    /\ Goto(f, "count")
    /\ SameDocument /\ UNCHANGED <<queued, movies, tmp, count, id, frameCount, clashed, end>>

\* frameCount++, the last thing a work item does: the read, then the write.
ReadCount(f) ==
    /\ pc[f] = "count" /\ Running
    /\ tmp' = [tmp EXCEPT ![f] = frameCount]
    /\ Goto(f, "raise")
    /\ SameDocument /\ SameList /\ UNCHANGED <<queued, movies, frameCount, end>>

\* Mutant of RaiseCount: a frame counts twice.
RaiseCountTwice(f) ==
    /\ pc[f] = "raise" /\ Running
    /\ frameCount' = tmp[f] + 2
    /\ Goto(f, "done")
    /\ tmp' = [tmp EXCEPT ![f] = 0]
    /\ SameDocument /\ SameList /\ UNCHANGED <<queued, movies, end>>

RaiseCount(f) ==
    /\ pc[f] = "raise" /\ Running
    /\ frameCount' = tmp[f] + 1
    /\ Goto(f, "done")
    /\ tmp' = [tmp EXCEPT ![f] = 0]
    /\ SameDocument /\ SameList /\ UNCHANGED <<queued, movies, end>>

\* Mutant of Answer: the loop ends with the last but one.
AnswerEarly ==
    /\ end = "spin" /\ queued = Frames
    /\ frameCount + 1 >= Frames
    /\ end' = "answered"
    /\ SameDocument /\ SameList /\ UNCHANGED <<queued, movies, pc, tmp, frameCount>>

\* The loop ends when the counter is the number of frames.  (The answer of a long
\* list is also saved as it is, for the requests that come later.)
Answer ==
    /\ end = "spin" /\ queued = Frames
    /\ frameCount = Frames
    /\ end' = "answered"
    /\ SameDocument /\ SameList /\ UNCHANGED <<queued, movies, pc, tmp, frameCount>>

Item(f) ==
    \/ Load(f) \/ Loaded(f) \/ LoadFails(f) \/ ReadPoster(f) \/ ReadThrows(f)
    \/ ReadId(f) \/ WriteId(f) \/ BeginAdd(f) \/ EndAdd(f) \/ ReadCount(f) \/ RaiseCount(f)

Next == Queue \/ Answer \/ \E f \in Items : Item(f)

Spec == Init /\ [][Next]_vars

\* The request's thread and those of the pool run.
FairSpec == Spec /\ WF_vars(Queue \/ Answer) /\ \A f \in Items : WF_vars(Item(f))

-----------------------------------------------------------------------------
\* Properties.

\* Every variable keeps its type, and the list has no frame without a movie.
TypeOK ==
    /\ queued \in 0 .. Frames
    /\ movies \subseteq 1 .. queued
    /\ pc \in [Items -> {"none", "load", "parse", "read", "readId", "writeId",
                         "add", "adding", "count", "raise", "done"}]
    /\ doc \in 0 .. Torn
    /\ poster \in [Items -> 0 .. Frames]
    /\ tmp \in [Items -> 0 .. Frames]
    /\ count \in 0 .. Frames
    /\ id \in [Items -> 0 .. Frames]
    /\ frameCount \in 0 .. Frames
    /\ items \subseteq movies
    /\ clashed \subseteq movies
    /\ raced \subseteq movies
    /\ end \in {"spin", "answered", "crashed"}

\* However the unlocked increments of the counter interleave, the request never
\* answers before every work item has ended: an increment may be lost, none is
\* counted twice.
NeverEarly == end = "answered" => At("done") = Items

\* A movie is shown with the poster of another one only when that one was loaded
\* between the movie's own load and its reading, or its own load failed.
PosterOwn == \A f \in items \ raced : poster[f] = f

\* The answer lists every movie but those that were added at the same time as
\* another one, and their unlocked numbers may repeat, but leave none out.
AnswerSound ==
    LET used == {id[f] : f \in movies}
    IN  end = "answered" =>
            /\ movies \ clashed \subseteq items
            /\ \A k \in used : 0 .. k \subseteq used

\* The request is answered soundly or the process has ended, unless an increment
\* of the counter was lost: then the request spins for good.
Answered ==
    /\ []AnswerSound
    /\ <>(end # "spin" \/ (At("done") = Items /\ frameCount < Frames))

=============================================================================
