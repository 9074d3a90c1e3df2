---------------------------- MODULE AtvTemplates -----------------------------
(***************************************************************************)
(* The templates the showtimes pages are made of: EJS of XmlDir/js/main.js *)
(* turns a text with tags into a script, whose run is the page.  Scanner   *)
(* splits the text into lines and each line into tokens, and the block of  *)
(* Compiler.compile takes one token after the other.                       *)
(*                                                                         *)
(* A template is a sequence of words, line ends, tags <% %>, <%= %> and    *)
(* <%# %> with a body, and <%%, which stands for <%.  In a body %%> stands *)
(* for %>.  A word of a body may be a JavaScript comment to the line's end.*)
(***************************************************************************)
EXTENDS Naturals, Sequences, FiniteSets, SequencesExt

CONSTANTS
    Bodies,     \* bound: the bodies of tags, sequences of Words
    MaxLength,  \* bound: the length of a template
    None

VARIABLES
    type,       \* the delimiters, "<" or "["
    template,
    tokens,     \* the tokens still to be scanned
    stag,       \* the tag that is open
    content,    \* the words since the last command
    line,       \* the commands of the script's line
    script      \* its lines, when complete

vars == <<type, template, tokens, stag, content, line, script>>

Openers == {"<%", "<%=", "<%#"}
Words   == {"word", "\n", "//", "%%>"}
Texts   == {[is |-> w, body |-> <<>>] : w \in {"word", "\n", "<%%"}}
Tags    == [is : Openers, body : Bodies]

BodiesAssumption == Bodies \subseteq Seq(Words) /\ MaxLength \in Nat
StagAssumption   == None \notin Openers

\* What the author wrote.
Source(piece) ==
    IF piece.is \in Openers THEN <<piece.is>> \o piece.body \o <<"%>">> ELSE <<piece.is>>

\* SplitRegexp: the delimiters < have (%%%%>) where (%%>) was meant, so %%> is no
\* token of its own.  Lines are split first, so %> and a line end are two tokens.
Split(t, word) == IF word = "%%>" /\ t = "<" THEN <<"%", "%>">> ELSE <<word>>

Init ==
    /\ type \in {"<", "["}
    /\ template \in UNION {[1 .. n -> Texts \union Tags] : n \in 1 .. MaxLength}
    /\ tokens = FlattenSeq([i \in 1 .. Len(template) |->
                    FlattenSeq([j \in 1 .. Len(Source(template[i])) |->
                        Split(type, Source(template[i])[j])])])
    /\ stag = None
    /\ content = <<>> /\ line = <<>> /\ script = <<>>

-----------------------------------------------------------------------------
Put(words)    == [do |-> "put", of |-> words]
Run(words)    == [do |-> "run", of |-> words]
Insert(words) == [do |-> "insert", of |-> words]

Token == Head(tokens)
Scanned == tokens # <<>> /\ tokens' = Tail(tokens) /\ UNCHANGED <<type, template>>

\* A line of the template is a line of the script; clean keeps the words.
Newline ==
    /\ Scanned /\ stag = None /\ Token = "\n"
    /\ script' = Append(script, Append(line, Put(Append(content, "\n"))))
    /\ line' = <<>> /\ content' = <<>>
    /\ UNCHANGED stag

Opens ==
    /\ Scanned /\ stag = None /\ Token \in Openers
    /\ stag' = Token
    /\ line' = IF content = <<>> THEN line ELSE Append(line, Put(content))
    /\ content' = <<>>
    /\ UNCHANGED script

\* <%% outside a tag, and %%> in one.
Escaped ==
    /\ Scanned
    /\ \/ stag = None /\ Token = "<%%" /\ content' = Append(content, "<%")
       \/ stag # None /\ Token = "%%>" /\ content' = Append(content, "%>")
    /\ UNCHANGED <<stag, line, script>>

Chop(words) == Front(words)

\* Mutant of Closes: the script's line goes on after a body that ends with its line.
ClosesOnLine ==
    /\ Scanned /\ stag # None /\ Token = "%>"
    /\ line' = CASE stag = "<%"  -> Append(line, Run(IF content # <<>> /\ Last(content) = "\n"
                                                     THEN Chop(content) ELSE content))
                 [] stag = "<%=" -> Append(line, Insert(content))
                 [] stag = "<%#" -> line
    /\ stag' = None /\ content' = <<>>
    /\ UNCHANGED script

\* A body that ends with its line ends the script's line as well.
Closes ==
    /\ Scanned /\ stag # None /\ Token = "%>"
    /\ IF stag = "<%" /\ content # <<>> /\ Last(content) = "\n"
       THEN script' = Append(script, Append(line, Run(Chop(content)))) /\ line' = <<>>
       ELSE /\ line' = CASE stag = "<%"  -> Append(line, Run(content))
                         [] stag = "<%=" -> Append(line, Insert(content))
                         [] stag = "<%#" -> line
            /\ UNCHANGED script
    /\ stag' = None /\ content' = <<>>

Other ==
    /\ Scanned
    /\ IF stag = None THEN Token \notin Openers \union {"\n", "<%%"}
                      ELSE Token \notin {"%>", "%%>"}
    /\ content' = Append(content, Token)
    /\ UNCHANGED <<stag, line, script>>

Next == Newline \/ Opens \/ Escaped \/ Closes \/ Other

Spec == Init /\ [][Next]_vars

-----------------------------------------------------------------------------
\* The end of compile: what is left of an open tag is text like any other, and
\* the last line is closed.
Script == Append(script, IF content = <<>> THEN line ELSE Append(line, Put(content)))

\* A comment that is open to the end of a command goes on to the line's end.
Commented(words) ==
    \E i \in 1 .. Len(words) : words[i] = "//" /\ \A j \in i .. Len(words) : words[j] # "\n"

\* An expression with such a comment lacks its closing parentheses: eval throws,
\* unless the line is in a comment already.
Cut(l, i)    == \E j \in 1 .. i - 1 : l[j].do = "run" /\ Commented(l[j].of)
Broken(l)    == \E i \in 1 .. Len(l) : l[i].do = "insert" /\ Commented(l[i].of) /\ ~Cut(l, i)
Executed(l)  == [i \in 1 .. Cardinality({j \in 1 .. Len(l) : ~Cut(l, j)}) |-> l[i]]

\* The run of the script: the words it puts and the bodies it runs and inserts.
Text(words) == [i \in 1 .. Len(words) |-> <<"put", <<words[i]>>>>]
Puts(c)   == IF c.do = "put" THEN Text(c.of) ELSE <<<<c.do, c.of>>>>
Output(l) == FlattenSeq([i \in 1 .. Len(Executed(l)) |-> Puts(Executed(l)[i])])
Page      == FlattenSeq([i \in 1 .. Len(Script) |-> Output(Script[i])])

-----------------------------------------------------------------------------
\* What the author meant, piece by piece.
Unescaped(body) == [i \in 1 .. Len(body) |-> IF body[i] = "%%>" THEN "%>" ELSE body[i]]
Chopped(body)   == IF body # <<>> /\ Last(body) = "\n" THEN Front(body) ELSE body
Meaning(piece) ==
    CASE piece.is = "<%%" -> Text(<<"<%">>)
      [] piece.is = "<%"  -> <<<<"run", Chopped(Unescaped(piece.body))>>>>
      [] piece.is = "<%=" -> <<<<"insert", Unescaped(piece.body)>>>>
      [] piece.is = "<%#" -> <<>>
      [] OTHER            -> Text(<<piece.is>>)
Meant == FlattenSeq([i \in 1 .. Len(template) |-> Meaning(template[i])])

\* The template escapes nothing in a tag of type <, and a comment ends in its tag.
Careful ==
    \A i \in 1 .. Len(template) :
        /\ type = "[" \/ ~Contains(template[i].body, "%%>")
        /\ template[i].is # "<%#" => ~Commented(template[i].body)

\* The page is what the author of a careful template meant, whatever the lines its
\* tags and their bodies begin and end on.
RenderRight ==
    tokens = <<>> /\ Careful =>
        /\ \A i \in 1 .. Len(Script) : ~Broken(Script[i])
        /\ Page = Meant
=============================================================================
