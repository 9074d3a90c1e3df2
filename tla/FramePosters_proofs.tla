------------------------- MODULE FramePosters_proofs -------------------------
(***************************************************************************)
(* Proofs about FramePosters, for any number of frames: the counter never  *)
(* runs ahead of the work items, and a poster is its movie's own unless    *)
(* another load or a failure came between.                                 *)
(***************************************************************************)
EXTENDS FramePosters, FiniteSetTheorems, TLAPS

USE FramesAssumption DEF FramesAssumption

Steps == {"none", "load", "parse", "read", "readId", "writeId", "add", "adding",
          "count", "raise", "done"}

\* A work item that is not queued has not begun.
Shape ==
    /\ queued \in 0 .. Frames
    /\ pc \in [Items -> Steps]
    /\ \A f \in Items : f > queued => pc[f] = "none"
    /\ end \in {"spin", "answered", "crashed"}

-----------------------------------------------------------------------------
\* The counter.

Done == At("done")

\* No value of the counter, nor one that is about to be raised and written
\* back, exceeds the number of the work items that have ended.
CountInv ==
    /\ Shape
    /\ frameCount \in Nat /\ tmp \in [Items -> Nat]
    /\ frameCount <= Cardinality(Done)
    /\ \A f \in Items : pc[f] = "raise" => tmp[f] <= Cardinality(Done)
    /\ end = "answered" => Done = Items

LEMMA ItemsFinite == IsFiniteSet(Items) /\ Cardinality(Items) = Frames
  BY FS_Interval DEF Items

LEMMA DoneFinite == IsFiniteSet(Done) /\ Cardinality(Done) \in Nat /\ Cardinality(Done) <= Frames
<1>1. Done \subseteq Items
  BY DEF Done, At
<1> QED
  BY <1>1, ItemsFinite, FS_Subset, FS_CardinalityType

\* A work item that goes to a step other than its last leaves the set of those
\* that have ended alone; one that ends makes it one larger.
LEMMA DoneAfter ==
    ASSUME Shape, NEW f \in Items, pc[f] # "done", NEW step \in Steps, Goto(f, step)
    PROVE  /\ pc' \in [Items -> Steps]
           /\ step # "done" => Done' = Done
           /\ step = "done" => /\ Done' = Done \union {f}
                               /\ Cardinality(Done') = Cardinality(Done) + 1
<1>1. pc' \in [Items -> Steps]
  BY DEF Shape, Goto
<1>2. step # "done" => Done' = Done
  BY DEF Shape, Goto, Done, At
<1>3. step = "done" => Done' = Done \union {f}
  BY DEF Shape, Goto, Done, At
<1>4. f \notin Done
  BY DEF Done, At
<1> QED
  BY <1>1, <1>2, <1>3, <1>4, DoneFinite, FS_AddElement

\* The shape is kept by the steps of a work item.
LEMMA ShapeAfter ==
    ASSUME Shape, NEW f \in Items, pc[f] # "none", NEW step \in Steps, Goto(f, step),
           UNCHANGED queued, end' \in {end, "crashed"}
    PROVE  Shape'
BY DEF Shape, Goto

LEMMA CountInit == Init => CountInv
<1> SUFFICES ASSUME Init PROVE CountInv
  OBVIOUS
<1>1. Done = {}
  BY DEF Init, Done, At
<1>2. Cardinality(Done) = 0
  BY <1>1, FS_EmptySet
<1> QED
  BY <1>2 DEF Init, CountInv, Shape, Steps

\* Every step keeps the counter from running ahead.
LEMMA CountStep == CountInv /\ [Next]_vars => CountInv'
<1> SUFFICES ASSUME CountInv, [Next]_vars PROVE CountInv'
  OBVIOUS
<1> USE DEF CountInv
<1>1. CASE Queue
  <2>1. PICK step \in {"count", "load"} : Goto(queued + 1, step)
    BY <1>1 DEF Queue
  <2>2. queued + 1 \in Items /\ pc[queued + 1] = "none"
    BY <1>1 DEF Queue, Shape, Items
  <2>3. Done' = Done
    BY <2>1, <2>2, DoneAfter DEF Steps
  <2>4. Shape'
    BY <1>1, <2>1, <2>2 DEF Queue, Shape, Goto, Steps, Items
  <2>5. \A g \in Items : pc'[g] = "raise" => pc[g] = "raise"
    BY <2>1, <2>2 DEF Goto, Shape
  <2> QED
    BY <1>1, <2>3, <2>4, <2>5 DEF Queue
<1>2. CASE Answer
  <2>1. Cardinality(Done) = Frames
    BY <1>2, DoneFinite DEF Answer
  <2>2. Done \subseteq Items
    BY DEF Done, At
  <2>3. Done = Items
    BY <2>1, <2>2, ItemsFinite, FS_Subset
  <2>4. Done' = Done
    BY <1>2 DEF Answer, Done, At
  <2> QED
    BY <1>2, <2>3, <2>4 DEF Answer, Shape
<1>3. ASSUME NEW f \in Items, NEW step \in Steps \ {"raise", "done"}, Goto(f, step),
             pc[f] \notin {"none", "done"}, UNCHANGED <<queued, tmp, frameCount, end>>
      PROVE  CountInv'
  <2>1. Done' = Done
    BY <1>3, DoneAfter
  <2>2. Shape'
    BY <1>3, ShapeAfter
  <2>3. \A g \in Items : pc'[g] = "raise" => pc[g] = "raise"
    BY <1>3 DEF Goto, Shape
  <2> QED
    BY <1>3, <2>1, <2>2, <2>3
<1>4. ASSUME NEW f \in Items, Load(f) PROVE CountInv'
  BY <1>3, <1>4 DEF Load, SameList, Steps
<1>5. ASSUME NEW f \in Items, Loaded(f) PROVE CountInv'
  BY <1>3, <1>5 DEF Loaded, SameList, Steps
<1>6. ASSUME NEW f \in Items, LoadFails(f) PROVE CountInv'
  BY <1>3, <1>6 DEF LoadFails, SameList, Steps
<1>7. ASSUME NEW f \in Items, ReadPoster(f) PROVE CountInv'
  BY <1>3, <1>7 DEF ReadPoster, SameList, Steps
<1>8. ASSUME NEW f \in Items, ReadThrows(f) PROVE CountInv'
  <2>1. Done' = Done
    BY <1>8 DEF ReadThrows, Done, At
  <2> QED
    BY <1>8, <2>1 DEF ReadThrows, Shape
<1>9. ASSUME NEW f \in Items, ReadId(f) PROVE CountInv'
  BY <1>3, <1>9 DEF ReadId, SameDocument, Steps
<1>10. ASSUME NEW f \in Items, WriteId(f) PROVE CountInv'
  BY <1>3, <1>10 DEF WriteId, SameDocument, Steps
<1>11. ASSUME NEW f \in Items, BeginAdd(f) PROVE CountInv'
  BY <1>3, <1>11 DEF BeginAdd, SameDocument, Steps
<1>12. ASSUME NEW f \in Items, EndAdd(f) PROVE CountInv'
  BY <1>3, <1>12 DEF EndAdd, SameDocument, Steps
<1>13. ASSUME NEW f \in Items, ReadCount(f) PROVE CountInv'
  <2>1. Goto(f, "raise") /\ pc[f] = "count" /\ UNCHANGED <<queued, frameCount, end>>
    BY <1>13 DEF ReadCount
  <2>2. Done' = Done
    BY <2>1, DoneAfter DEF Steps
  <2>3. Shape'
    BY <2>1, ShapeAfter DEF Steps
  <2>4. tmp' = [tmp EXCEPT ![f] = frameCount]
    BY <1>13 DEF ReadCount
  <2>5. \A g \in Items \ {f} : pc'[g] = pc[g] /\ tmp'[g] = tmp[g]
    BY <2>1, <2>4 DEF Goto, Shape
  <2>6. tmp' \in [Items -> Nat] /\ tmp'[f] = frameCount
    BY <2>4
  <2> QED
    BY <2>1, <2>2, <2>3, <2>5, <2>6
<1>14. ASSUME NEW f \in Items, RaiseCount(f) PROVE CountInv'
  <2>1. Goto(f, "done") /\ pc[f] = "raise" /\ UNCHANGED <<queued, end>>
    BY <1>14 DEF RaiseCount
  <2>2. Done' = Done \union {f} /\ Cardinality(Done') = Cardinality(Done) + 1
    BY <2>1, DoneAfter DEF Steps
  <2>3. Shape'
    BY <2>1, ShapeAfter DEF Steps
  <2>4. tmp' = [tmp EXCEPT ![f] = 0] /\ frameCount' = tmp[f] + 1
    BY <1>14 DEF RaiseCount
  <2>5. \A g \in Items \ {f} : pc'[g] = pc[g] /\ tmp'[g] = tmp[g]
    BY <2>1, <2>4 DEF Goto, Shape
  <2>6. tmp' \in [Items -> Nat] /\ frameCount' \in Nat /\ pc'[f] = "done"
    BY <2>1, <2>4 DEF Goto, Shape
  <2>7. frameCount' <= Cardinality(Done')
    BY <2>1, <2>2, <2>4, DoneFinite
  <2>8. \A g \in Items : pc'[g] = "raise" => tmp'[g] <= Cardinality(Done')
    BY <2>2, <2>5, <2>6, DoneFinite
  <2>9. end' = "answered" => Done' = Items
    BY <2>1, <2>2
  <2> QED
    BY <2>3, <2>6, <2>7, <2>8, <2>9
<1>15. CASE UNCHANGED vars
  BY <1>15 DEF vars, Shape, Done, At
<1> QED
  BY <1>1, <1>2, <1>4, <1>5, <1>6, <1>7, <1>8, <1>9, <1>10, <1>11, <1>12, <1>13, <1>14, <1>15
     DEF Next, Item

\* The request never answers before every work item has ended, whatever the
\* increments of the counter do to each other.
THEOREM NeverEarlyHolds == Spec => []NeverEarly
<1>1. CountInv => NeverEarly
  BY DEF CountInv, NeverEarly, Done
<1> QED
  BY <1>1, CountInit, CountStep, PTL DEF Spec

-----------------------------------------------------------------------------
\* The posters.

Listing == {"readId", "writeId", "add", "adding"}

\* One frame at a time is taken into the document; whoever still reads from it
\* is known to have been overtaken; a work item nobody overtook has its own
\* frame before it and then its own poster; who is listed has added itself.
PosterInv ==
    /\ Shape
    /\ doc \in Nat /\ poster \in [Items -> Nat]
    /\ \A f, g \in Items : pc[f] = "parse" /\ pc[g] = "parse" => f = g
    /\ \A f, g \in Items : pc[f] = "read" /\ pc[g] = "parse" => f \in raced
    /\ \A f \in Items : pc[f] = "read" /\ f \notin raced => doc = f
    /\ \A f \in Items : pc[f] \in Listing /\ f \notin raced => poster[f] = f
    /\ items \subseteq {f \in Items : pc[f] \in {"count", "raise", "done"}}
    /\ PosterOwn

LEMMA PosterInit == Init => PosterInv
  BY DEF Init, PosterInv, PosterOwn, Shape, Steps, None, Listing

\* Every step keeps the posters with their owners.
LEMMA PosterStep == PosterInv /\ [Next]_vars => PosterInv'
<1> SUFFICES ASSUME PosterInv, [Next]_vars PROVE PosterInv'
  OBVIOUS
<1> USE DEF PosterInv, PosterOwn, Listing
<1>1. CASE Queue
  <2>1. PICK step \in {"count", "load"} : Goto(queued + 1, step)
    BY <1>1 DEF Queue
  <2>2. queued + 1 \in Items /\ pc[queued + 1] = "none"
    BY <1>1 DEF Queue, Shape, Items
  <2>3. Shape'
    BY <1>1, <2>1, <2>2 DEF Queue, Shape, Goto, Steps, Items
  <2>4. \A g \in Items : pc'[g] = pc[g] \/ (pc[g] = "none" /\ pc'[g] = step)
    BY <2>1, <2>2 DEF Goto, Shape
  <2> QED
    BY <1>1, <2>1, <2>3, <2>4 DEF Queue, SameDocument, SameList
<1>2. CASE Answer
  BY <1>2 DEF Answer, Shape, SameDocument, SameList
<1>3. ASSUME NEW f \in Items, NEW step \in Steps, Goto(f, step), pc[f] # "none",
             UNCHANGED <<queued, end>>
      PROVE  /\ Shape'
             /\ pc'[f] = step
             /\ \A g \in Items \ {f} : pc'[g] = pc[g]
  <2>1. Shape'
    BY <1>3, ShapeAfter
  <2> QED
    BY <1>3, <2>1 DEF Goto, Shape
<1>4. ASSUME NEW f \in Items, Load(f) PROVE PosterInv'
  <2>1. Goto(f, "parse") /\ pc[f] = "load" /\ UNCHANGED <<queued, end>>
    BY <1>4 DEF Load
  <2>2. Shape' /\ pc'[f] = "parse" /\ \A g \in Items \ {f} : pc'[g] = pc[g]
    BY <2>1, <1>3 DEF Steps
  <2>3. \A g \in Items : pc[g] # "parse"
    BY <1>4 DEF Load, At
  <2>4. raced' = raced \union {g \in Items : pc[g] = "read"} /\ UNCHANGED <<poster, items>>
    BY <1>4 DEF Load, At, SameList
  <2>5. doc' \in Nat
    BY <1>4 DEF Load, Torn
  <2> QED
    BY <2>1, <2>2, <2>3, <2>4, <2>5
<1>5. ASSUME NEW f \in Items, Loaded(f) PROVE PosterInv'
  <2>1. Goto(f, "read") /\ pc[f] = "parse" /\ UNCHANGED <<queued, end>>
    BY <1>5 DEF Loaded
  <2>2. Shape' /\ pc'[f] = "read" /\ \A g \in Items \ {f} : pc'[g] = pc[g]
    BY <2>1, <1>3 DEF Steps
  <2>3. doc' = f /\ UNCHANGED <<poster, raced, items>>
    BY <1>5 DEF Loaded, SameList
  <2>4. \A g \in Items \ {f} : pc'[g] # "parse"
    BY <2>1, <2>2
  <2>5. \A g \in Items : pc'[g] = "read" /\ g \notin raced => g = f
    BY <2>1, <2>2
  <2>6. doc' \in Nat
    BY <2>3 DEF Items
  <2> QED
    BY <2>1, <2>2, <2>3, <2>4, <2>5, <2>6
<1>6. ASSUME NEW f \in Items, LoadFails(f) PROVE PosterInv'
  <2>1. Goto(f, "read") /\ pc[f] = "load" /\ UNCHANGED <<queued, end>>
    BY <1>6 DEF LoadFails
  <2>2. Shape' /\ pc'[f] = "read" /\ \A g \in Items \ {f} : pc'[g] = pc[g]
    BY <2>1, <1>3 DEF Steps
  <2>3. raced' = raced \union {f} /\ UNCHANGED <<doc, poster, items>>
    BY <1>6 DEF LoadFails, SameList
  <2> QED
    BY <2>1, <2>2, <2>3
<1>7. ASSUME NEW f \in Items, ReadPoster(f) PROVE PosterInv'
  <2>1. Goto(f, "readId") /\ pc[f] = "read" /\ UNCHANGED <<queued, end>>
    BY <1>7 DEF ReadPoster
  <2>2. Shape' /\ pc'[f] = "readId" /\ \A g \in Items \ {f} : pc'[g] = pc[g]
    BY <2>1, <1>3 DEF Steps
  <2>3. UNCHANGED <<doc, raced, items>>
    BY <1>7 DEF ReadPoster, SameList
  <2>4. PICK p \in (IF doc = Torn THEN {None} \union Items ELSE {doc}) :
            poster' = [poster EXCEPT ![f] = p]
    BY <1>7 DEF ReadPoster
  <2>5. f \notin raced => p = f
    BY <2>1, <2>4 DEF Torn, Items
  <2>6. p \in Nat
    BY <2>4 DEF None, Items
  <2>7. poster' \in [Items -> Nat] /\ poster'[f] = p
        /\ \A g \in Items \ {f} : poster'[g] = poster[g]
    BY <2>4, <2>6
  <2> QED
    BY <2>1, <2>2, <2>3, <2>5, <2>7
<1>8. ASSUME NEW f \in Items, ReadThrows(f) PROVE PosterInv'
  BY <1>8 DEF ReadThrows, Shape, SameDocument, SameList
<1>9. ASSUME NEW f \in Items, NEW step \in Steps \ {"parse", "read"}, Goto(f, step),
             pc[f] \in Listing \union {"count", "raise"},
             step \in Listing => pc[f] \in Listing,
             pc[f] \in {"count", "raise"} => step \in {"raise", "done"},
             SameDocument, UNCHANGED <<queued, items, end>>
      PROVE  PosterInv'
  <2>1. Shape' /\ pc'[f] = step /\ \A g \in Items \ {f} : pc'[g] = pc[g]
    BY <1>9, <1>3
  <2>2. UNCHANGED <<doc, poster, raced, items>>
    BY <1>9 DEF SameDocument
  <2>3. items \subseteq {g \in Items : pc'[g] \in {"count", "raise", "done"}}
    BY <1>9, <2>1
  <2> QED
    BY <1>9, <2>1, <2>2, <2>3
<1>10. ASSUME NEW f \in Items, ReadId(f) PROVE PosterInv'
  BY <1>9, <1>10 DEF ReadId, Steps
<1>11. ASSUME NEW f \in Items, WriteId(f) PROVE PosterInv'
  BY <1>9, <1>11 DEF WriteId, Steps
<1>12. ASSUME NEW f \in Items, BeginAdd(f) PROVE PosterInv'
  BY <1>9, <1>12 DEF BeginAdd, Steps
<1>13. ASSUME NEW f \in Items, EndAdd(f) PROVE PosterInv'
  <2>1. Goto(f, "count") /\ pc[f] = "adding" /\ UNCHANGED <<queued, end>>
    BY <1>13 DEF EndAdd
  <2>2. Shape' /\ pc'[f] = "count" /\ \A g \in Items \ {f} : pc'[g] = pc[g]
    BY <2>1, <1>3 DEF Steps
  <2>3. items' \subseteq items \union {f} /\ UNCHANGED <<doc, poster, raced>>
    BY <1>13 DEF EndAdd, SameDocument
  <2> QED
    BY <2>1, <2>2, <2>3
<1>14. ASSUME NEW f \in Items, ReadCount(f) PROVE PosterInv'
  BY <1>9, <1>14 DEF ReadCount, SameList, Steps
<1>15. ASSUME NEW f \in Items, RaiseCount(f) PROVE PosterInv'
  BY <1>9, <1>15 DEF RaiseCount, SameList, Steps
<1>16. CASE UNCHANGED vars
  BY <1>16 DEF vars, Shape
<1> QED
  BY <1>1, <1>2, <1>4, <1>5, <1>6, <1>7, <1>8, <1>10, <1>11, <1>12, <1>13, <1>14, <1>15, <1>16
     DEF Next, Item

\* A listed movie has its own poster, unless another frame was loaded between
\* its load and its reading, or its load failed.
THEOREM PosterOwnHolds == Spec => []PosterOwn
<1>1. PosterInv => PosterOwn
  BY DEF PosterInv
<1> QED
  BY <1>1, PosterInit, PosterStep, PTL DEF Spec

=============================================================================
