------------------------------ MODULE AtvPhotos ------------------------------
(***************************************************************************)
(* Two lists the Apple TV's scripts put in order: the photos of the        *)
(* screensaver (onExecuteQuery of XmlDir/js/application.js with            *)
(* ATVUtils.shuffleArray), and the movies of a theatre, where those that   *)
(* have no poster come last (moveNoDataMoviesToBottom).                    *)
(***************************************************************************)
EXTENDS Naturals, Sequences, FiniteSets, SequencesExt

CONSTANTS
    MaxPhotos   \* bound: the length of the lists

PhotosAssumption == MaxPhotos \in Nat

VARIABLES
    length,     \* of the list the site sent
    wanted,     \* query.length
    shuffled,   \* query.shuffle
    photos,
    top,        \* top of shuffleArray; 0 when it is done
    drawn,      \* history: the random numbers drawn
    movies      \* the movies of a theatre: TRUE for one without a poster, and its place

vars == <<length, wanted, shuffled, photos, top, drawn, movies>>

Given(n) == [i \in 1 .. n |-> i]

Init ==
    /\ length \in 0 .. MaxPhotos /\ wanted \in 0 .. MaxPhotos /\ shuffled \in BOOLEAN
    /\ photos = Given(length)
    /\ top = IF shuffled THEN length ELSE 0
    /\ drawn = <<>>
    /\ \E bare \in [1 .. length -> BOOLEAN] : movies = [i \in 1 .. length |-> <<bare[i], i>>]

-----------------------------------------------------------------------------
\* Mutant of Exchange: any place of the list may be drawn.
ExchangeAny(p, t, c) == [p EXCEPT ![1 + (c % Len(p))] = p[t], ![t] = p[1 + (c % Len(p))]]

\* Places current and top of the list, counted from 0, change their contents.
Exchange(p, t, c) == [p EXCEPT ![c + 1] = p[t + 1], ![t + 1] = p[c + 1]]

\* One turn of the loop of shuffleArray: while(--top).
Turn ==
    /\ top > 1
    /\ \E current \in 0 .. (top - 1) :
          /\ photos' = Exchange(photos, top - 1, current)
          /\ drawn' = Append(drawn, current)
    /\ top' = top - 1
    /\ UNCHANGED <<length, wanted, shuffled, movies>>

Next == Turn

Spec == Init /\ [][Next]_vars

-----------------------------------------------------------------------------
\* success: the photos given to the device.
Slice == IF Len(photos) > wanted THEN SubSeq(photos, 1, wanted) ELSE photos

\* moveNoDataMoviesToBottom: each movie without a poster, in the order of the
\* document, is taken out and put at the end.
ToBottom(list, movie) ==
    LET place == CHOOSE k \in 1 .. Len(list) : list[k] = movie
    IN  Append(RemoveAt(list, place), movie)
MoveNoDataMoviesToBottom ==
    LET moved[i \in 0 .. length] ==
            IF i = 0 THEN movies
            ELSE IF movies[i][1] THEN ToBottom(moved[i - 1], movies[i]) ELSE moved[i - 1]
    IN  moved[length]

-----------------------------------------------------------------------------
\* The order of the photos after the draws d, and all the draws there may be.
After(d) ==
    LET order[i \in 0 .. Len(d)] ==
            IF i = 0 THEN Given(length) ELSE Exchange(order[i - 1], length - i, d[i])
    IN  order[Len(d)]
Draws == {d \in [1 .. Len(drawn) -> 0 .. (length - 1)] : \A i \in 1 .. Len(d) : d[i] <= length - i}

\* Every order of the photos comes from draws of its own, one for each order: none
\* is likelier than another, and no photo is lost or shown twice.
ShuffleFair ==
    /\ ToSet(photos) = 1 .. length
    /\ \A d \in Draws : After(d) = photos => d = drawn
    /\ shuffled /\ top <= 1 =>
          Cardinality(Draws) = Cardinality(SetToSeqs(1 .. length))

\* The device gets as many as it asked for, if there are, and no photo twice.
SliceRight ==
    top <= 1 => /\ Len(Slice) = (IF wanted < length THEN wanted ELSE length)
                /\ Cardinality(ToSet(Slice)) = Len(Slice)

\* Every movie is there once, those with a poster come first, and within both
\* groups the order stays.
BottomRight ==
    LET moved == MoveNoDataMoviesToBottom IN
    /\ ToSet(moved) = ToSet(movies) /\ Len(moved) = length
    /\ \A i, j \in 1 .. length : i < j =>
          \/ ~moved[i][1] /\ moved[j][1]
          \/ moved[i][1] = moved[j][1] /\ moved[i][2] < moved[j][2]

PhotosRight == ShuffleFair /\ SliceRight /\ BottomRight
=============================================================================
