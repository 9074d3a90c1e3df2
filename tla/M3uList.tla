-------------------------------- MODULE M3uList --------------------------------
(***************************************************************************)
(* The list of television channels of an m3u file: MUObject.Create-        *)
(* Dictionary takes it apart, three lines for a channel; CreateXCategories *)
(* makes the menu of the categories, and CreateM3U8Channels the page of    *)
(* one of them, in shelves.  Every request reads the file anew.            *)
(***************************************************************************)
EXTENDS Naturals, Sequences, FiniteSets

CONSTANTS Names, Categories, Urls,
          WithComma,    \* the urls that hold a comma
          Width,        \* the channels of a shelf, 4 in the code
          Previews,     \* the pictures shown for a category, 3 in the code
          MaxChannels   \* bound: the channels in a file

WidthAssumption    == Width \in Nat \ {0} /\ Previews \in Nat \ {0}
UrlsAssumption     == WithComma \subseteq Urls
ChannelsAssumption == MaxChannels \in Nat

Channels == [name : Names, category : Categories, url : Urls]
Texts    == Names \union Categories \union Urls
Files    == UNION {[1 .. n -> Channels] : n \in 0 .. MaxChannels}

VARIABLES
    file,      \* the channels of the file
    blank,     \* the line that is blank besides, 0 if there is none
    i,         \* the line the loop of CreateDictionary is at
    keys,      \* the keys of _channels, in the order they were added
    channels,  \* _channels: of each category what was added, in order
    state,     \* "parse", "threw", "parsed", "menu", "shelve" or "answered"
    asked,     \* the category of the page
    count,     \* the channels put on shelves
    group,     \* the shelf being filled
    shelves,   \* the shelves of the page
    menu       \* the menu's categories and pictures

vars == <<file, blank, i, keys, channels, state, asked, count, group, shelves, menu>>

Init ==
    /\ file     \in Files
    /\ blank    \in 0 .. 3 * Len(file) + 1
    /\ i        = 1
    /\ keys     = <<>>
    /\ channels = [category \in Texts |-> <<>>]
    /\ state    = "parse"
    /\ asked    \in Categories
    /\ count    = 0
    /\ group    = <<>>
    /\ shelves  = <<>>
    /\ menu     = [items |-> <<>>, images |-> <<>>]

\* The lines of the file after its first: name, category and url of each channel.
\* A blank line may be anywhere.
FileLine(k) ==
    LET ch == file[((k - 1) \div 3) + 1]
    IN  IF k % 3 = 1 THEN [kind |-> "name", is |-> ch.name]
        ELSE IF k % 3 = 2 THEN [kind |-> "category", is |-> ch.category]
        ELSE [kind |-> "url", is |-> ch.url]
Line(k) == IF blank = 0 \/ k < blank THEN FileLine(k)
           ELSE IF k = blank THEN [kind |-> "blank", is |-> "blank"]
           ELSE FileLine(k - 1)
Lines == 3 * Len(file) + (IF blank = 0 THEN 0 ELSE 1)

\* What the code takes for the name of a channel: what follows the first comma.
\* A line without one has no second part.
HasName(line)     == line.kind = "name" \/ (line.kind = "url" /\ line.is \in WithComma)
\* And for its category: what follows the first colon; every line but a blank
\* one has a colon.
HasCategory(line) == line.kind # "blank"

\* Mutant of Added: the first url of a name stays.
AddedOnce(own, ch) ==
    IF \E k \in 1 .. Len(own) : own[k].name = ch.name THEN own ELSE Append(own, ch)

\* AddChannel in a category: the url of a name that is there is replaced, in its place.
Added(own, ch) ==
    IF \E k \in 1 .. Len(own) : own[k].name = ch.name
    THEN [k \in 1 .. Len(own) |-> IF own[k].name = ch.name THEN ch ELSE own[k]]
    ELSE Append(own, ch)
AddChannel(ch) ==
    /\ keys' = IF \E k \in 1 .. Len(keys) : keys[k] = ch.category THEN keys
               ELSE Append(keys, ch.category)
    /\ channels' = [channels EXCEPT ![ch.category] = Added(channels[ch.category], ch)]

Asking == UNCHANGED <<file, blank, asked>>
NoPage == UNCHANGED <<count, group, shelves, menu>>
Parses == i + 2 <= Lines /\ HasName(Line(i)) /\ HasCategory(Line(i + 1))

\* One turn of the loop: a line that is not blank, with the two after it.
Parse ==
    /\ state = "parse" /\ i <= Lines
    /\ Parses
    /\ AddChannel([name |-> Line(i).is, category |-> Line(i + 1).is, url |-> Line(i + 2).is])
    /\ i' = i + 3
    /\ UNCHANGED state /\ Asking /\ NoPage

\* A blank line that is empty is skipped together with the two that follow it.
SkipBlank ==
    /\ state = "parse" /\ i <= Lines
    /\ Line(i).kind = "blank"
    /\ i' = i + 3
    /\ UNCHANGED <<keys, channels, state>> /\ Asking /\ NoPage

\* Mutant of ParseThrows: what cannot be taken apart ends the list.
ParseEnds ==
    /\ state = "parse" /\ i <= Lines
    /\ ~Parses
    /\ state' = "parsed"
    /\ UNCHANGED <<i, keys, channels>> /\ Asking /\ NoPage

\* A part or a line that is not there: the request fails.  So it does at a blank
\* line that still has its carriage return: that one is not empty, and has no comma.
ParseThrows ==
    /\ state = "parse" /\ i <= Lines
    /\ ~Parses
    /\ state' = "threw"
    /\ UNCHANGED <<i, keys, channels>> /\ Asking /\ NoPage

Parsed ==
    /\ state = "parse" /\ i > Lines
    /\ state' = "parsed"
    /\ UNCHANGED <<i, keys, channels>> /\ Asking /\ NoPage

CreateXCategories ==
    /\ state = "parsed"
    /\ state' = IF keys = <<>> THEN "answered" ELSE "menu"
    /\ UNCHANGED <<i, keys, channels>> /\ Asking /\ NoPage

\* One turn of its loop over the categories: the line of one, and the pictures of
\* its first channels.
AddCategory ==
    /\ state = "menu"
    /\ LET category == keys[Len(menu.items) + 1]
           own == channels[category]
       IN  menu' = [items  |-> Append(menu.items, category),
                    images |-> menu.images \o (IF Len(own) <= Previews THEN own
                                               ELSE SubSeq(own, 1, Previews))]
    /\ state' = IF Len(menu.items) + 1 = Len(keys) THEN "answered" ELSE "menu"
    /\ UNCHANGED <<i, keys, channels, count, group, shelves>> /\ Asking

\* The page of a category; one that the file no longer has gives an empty page.
CreateM3U8Channels ==
    /\ state = "parsed"
    /\ state' = IF channels[asked] = <<>> THEN "answered" ELSE "shelve"
    /\ UNCHANGED <<i, keys, channels>> /\ Asking /\ NoPage

\* Mutant of Shelve: the last shelf is made only if it is full.
ShelveFull ==
    /\ state = "shelve"
    /\ LET all  == channels[asked]
           next == Append(group, all[count + 1])
           full == Len(next) = Width
       IN  /\ count' = count + 1
           /\ group' = IF full THEN <<>> ELSE next
           /\ shelves' = IF full THEN Append(shelves, next) ELSE shelves
           /\ state' = IF count' = Len(all) THEN "answered" ELSE "shelve"
    /\ UNCHANGED <<i, keys, channels, menu>> /\ Asking

\* One turn of the loop over the names: before a fifth channel the shelf is put
\* on the page and a new one begun; after the last one the shelf is put there.
Shelve ==
    /\ state = "shelve"
    /\ LET all    == channels[asked]
           anew   == count % Width = 0 /\ count # 0
           before == IF anew THEN Append(shelves, group) ELSE shelves
           filled == Append(IF anew THEN <<>> ELSE group, all[count + 1])
           last   == count + 1 = Len(all)
       IN  /\ count' = count + 1
           /\ group' = filled
           /\ shelves' = IF last THEN Append(before, filled) ELSE before
           /\ state' = IF last THEN "answered" ELSE "shelve"
    /\ UNCHANGED <<i, keys, channels, menu>> /\ Asking

Next ==
    \/ Parse \/ SkipBlank \/ ParseThrows \/ Parsed
    \/ CreateXCategories \/ AddCategory \/ CreateM3U8Channels \/ Shelve

Spec == Init /\ [][Next]_vars

-----------------------------------------------------------------------------
\* Properties.

\* Every variable keeps its type; the shelf that is filled never outgrows its width.
TypeOK ==
    /\ file \in Files /\ blank \in 0 .. 3 * Len(file) + 1
    /\ i \in 1 .. 3 * Len(file) + 4
    /\ \A category \in Texts : Len(channels[category]) <= MaxChannels
    /\ state \in {"parse", "threw", "parsed", "menu", "shelve", "answered"}
    /\ asked \in Categories
    /\ count \in 0 .. MaxChannels
    /\ Len(group) <= Width
    /\ \A k \in 1 .. Len(shelves) : Len(shelves[k]) \in 1 .. Width

\* The dictionary has what the first m channels of the file say: each category, and
\* each name of it, once, in the order of their first places; a name with its last url.
Same(ch, other) == ch.category = other.category /\ ch.name = other.name
KeysOf(m) ==
    /\ \A k \in 1 .. m : \E a \in 1 .. Len(keys) : keys[a] = file[k].category
    /\ \A a \in 1 .. Len(keys) : \E k \in 1 .. m : file[k].category = keys[a]
    /\ \A a, b \in 1 .. Len(keys) : a < b =>
          \E k \in 1 .. m : /\ file[k].category = keys[a]
                            /\ \A l \in 1 .. k : file[l].category # keys[b]
ChannelsOf(m, own, category) ==
    /\ \A k \in 1 .. m : file[k].category = category =>
          \E a \in 1 .. Len(own) : own[a].name = file[k].name
    /\ \A a \in 1 .. Len(own) :
          /\ own[a].category = category
          /\ \E k \in 1 .. m : file[k] = own[a] /\ \A l \in k + 1 .. m : ~Same(file[l], own[a])
    /\ \A a, b \in 1 .. Len(own) : a < b =>
          \E k \in 1 .. m : Same(file[k], own[a]) /\ \A l \in 1 .. k : ~Same(file[l], own[b])
Reads(m) == KeysOf(m) /\ \A category \in Texts : ChannelsOf(m, channels[category], category)

\* A file without a blank line inside is taken apart into its channels.
Made == state \in {"parsed", "menu", "shelve", "answered"}
ParsedRight == Made /\ blank \in {0, 3 * Len(file) + 1} => Reads(Len(file))

\* A blank line anywhere else makes the request fail, instead of showing a part of
\* the list or channels made of the wrong lines: the last line is left alone, even
\* where the lines before it could be taken for channels.
NoPartOfFile == Made => blank \in {0, 3 * Len(file) + 1}

\* The page shows the category's channels, each one once and in order, on full
\* shelves but for the last.
ShelvesRight ==
    state = "answered" /\ count # 0 =>
        LET all == channels[asked]
            Shelf(n) == ((n - 1) \div Width) + 1
            Place(n) == ((n - 1) % Width) + 1
        IN  /\ Len(shelves) = Shelf(Len(all))
            /\ \A k \in 1 .. Len(shelves) :
                  Len(shelves[k]) = IF k < Len(shelves) THEN Width ELSE Place(Len(all))
            /\ \A n \in 1 .. Len(all) : shelves[Shelf(n)][Place(n)] = all[n]

\* In the menu every category has its line, and pictures of its own.
MenuRight ==
    state = "answered" /\ menu.items # <<>> =>
        /\ menu.items = keys
        /\ \A category \in Texts : channels[category] # <<>> =>
              LET own == {k \in 1 .. Len(menu.images) : menu.images[k].category = category}
              IN  /\ \E a \in 1 .. Len(keys) : keys[a] = category
                  /\ own # {} /\ Cardinality(own) <= Previews

PagesRight == ShelvesRight /\ MenuRight

=============================================================================
