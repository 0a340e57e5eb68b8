------------------------------- MODULE Markdown -------------------------------
(***************************************************************************)
(* The Markdown renderer of the documentation viewer: tokenizeCodeFences,  *)
(* parseTable and the loop of markdownToHtml.                              *)
(*                                                                         *)
(* A line is what the tests of the loop can tell of it.  A block of output *)
(* is its tag and the source lines whose text it shows; what renderInline  *)
(* makes of the text of one line is left out.                              *)
(***************************************************************************)
EXTENDS Integers, Sequences, FiniteSets

\* A fence is a line of three backticks: alone, with a language, or indented.
Fences == {"fence", "languageFence", "indentedFence"}

\* A list item may hold a '|', as a row of a table does.
Line == {"blank", "text", "pipe", "separator", "heading", "quote", "bullet",
         "pipedBullet", "number"} \union Fences

HasPipe == {"pipe", "separator", "pipedBullet"}
Bullets == {"bullet", "pipedBullet"}

\* A loop over the positions of step: at i it emits step[i].out, a sequence, and
\* goes on at step[i].next, until it is past the last.
Emitted(step) ==
    LET n == Len(step)
        from[i \in 1..(n + 1)] ==
          IF i > n THEN <<>> ELSE step[i].out \o from[step[i].next]
    IN  from[1]

------------------------------------------------------------------------------
(* tokenizeCodeFences.                                                     *)

\* The next fence, of any kind, ends the code that a fence starts.
Closing(src, i) ==
    CHOOSE j \in (i + 1)..(Len(src) + 1) :
      /\ j <= Len(src) => src[j] \in Fences
      /\ \A k \in (i + 1)..(j - 1) : src[k] \notin Fences

\* A token that shares its line with blanks before it, or with the language of
\* the fence that ends it, is not recognised later, and its code is lost.
TokenOf(src, i, j) ==
    IF src[i] # "indentedFence" /\ src[j] # "languageFence" THEN "token" ELSE "spoiltToken"

\* The line or the code that starts at line i: what it is, and its lines from..to.
TokenAt(src, i) ==
    IF src[i] \notin Fences THEN [kind |-> src[i], from |-> i, to |-> i]
    ELSE LET j == Closing(src, i)
         IN  IF j > Len(src) THEN [kind |-> "text", from |-> i, to |-> i]
             ELSE [kind |-> TokenOf(src, i, j), from |-> i, to |-> j]

\* The transformed lines.
Tokenized(src) ==
    Emitted([i \in DOMAIN src |->
       [out |-> <<TokenAt(src, i)>>, next |-> TokenAt(src, i).to + 1]])

------------------------------------------------------------------------------
(* parseTable and markdownToHtml.                                          *)

\* The first line from i on that is none of K, where a table or a list ends.
EndOfRun(lines, i, K) ==
    CHOOSE j \in i..(Len(lines) + 1) :
      /\ j <= Len(lines) => lines[j].kind \notin K
      /\ \A k \in i..(j - 1) : lines[k].kind \in K

\* Defect: the first row of the body goes with the separator.
TableRowsShort(lines, i, j) == {lines[k].from : k \in {i} \union ((i + 3)..(j - 1))}

\* parseTable: a line with a '|' over a separator.
IsTable(lines, i) ==
    /\ lines[i].kind \in HasPipe
    /\ i < Len(lines) /\ lines[i + 1].kind = "separator"

\* The header and the rows: rows.slice(2).
TableRows(lines, i, j) == {lines[k].from : k \in {i} \union ((i + 2)..(j - 1))}

Run(lines, i, j) == {lines[k].from : k \in i..(j - 1)}

\* The lines of the code of a token: the blank ones at its end are trimmed.
CodeShown(src, token) ==
    {k \in (token.from + 1)..(token.to - 1) : \E l \in k..(token.to - 1) : src[l] # "blank"}

Block(tag, shown) == <<[tag |-> tag, shown |-> shown]>>

\* What an iteration of the loop emits, and the line it moves on to.
Emit(blocks, next) == [out |-> blocks, next |-> next]

\* One branch of the loop for each thing a line can start.
Branch(src, lines, i) ==
    LET line == lines[i]
        table == EndOfRun(lines, i, HasPipe)
        bullets == EndOfRun(lines, i, Bullets)
        numbers == EndOfRun(lines, i, {"number"})
    IN  CASE line.kind = "blank" -> Emit(<<>>, i + 1)
          [] IsTable(lines, i) -> Emit(Block("table", TableRows(lines, i, table)), table)
          [] line.kind = "token" -> Emit(Block("pre", CodeShown(src, line)), i + 1)
          [] line.kind \in {"heading", "quote"} -> Emit(Block(line.kind, {line.from}), i + 1)
          [] line.kind \in Bullets /\ ~IsTable(lines, i) ->
               Emit(Block("ul", Run(lines, i, bullets)), bullets)
          [] line.kind = "number" -> Emit(Block("ol", Run(lines, i, numbers)), numbers)
          [] line.kind = "spoiltToken" -> Emit(Block("p", {}), i + 1)
          [] OTHER -> Emit(Block("p", {line.from}), i + 1)

MarkdownToHtml(src) ==
    LET lines == Tokenized(src)
    IN  Emitted([i \in DOMAIN lines |-> Branch(src, lines, i)])

------------------------------------------------------------------------------
(* What a reader may expect of the page, said without the loop.            *)

FencesBefore(src, i) == Cardinality({k \in 1..(i - 1) : src[k] \in Fences})
FencesAfter(src, i) == Cardinality({k \in (i + 1)..Len(src) : src[k] \in Fences})

\* A fence or a line of code: between the first and the second fence, the third
\* and the fourth, and so on; a last fence without a partner is text.
Opens(src, i) == src[i] \in Fences /\ FencesBefore(src, i) % 2 = 0 /\ FencesAfter(src, i) > 0
Closes(src, i) == src[i] \in Fences /\ FencesBefore(src, i) % 2 = 1
IsCode(src, i) ==
    src[i] \notin Fences /\ FencesBefore(src, i) % 2 = 1 /\ FencesAfter(src, i) > 0

\* Code that is not among the blank lines before the fence that ends it.
ShownAsCode(src, i) ==
    IsCode(src, i)
    /\ \E j \in i..Len(src) : src[j] # "blank" /\ \A k \in i..j : src[k] \notin Fences

\* Every fence that starts code is at the start of its line, and none that ends
\* code names a language: so are all fences of README.md and docs/.
WellFenced(src) ==
    \A i \in DOMAIN src :
      /\ Opens(src, i) => src[i] # "indentedFence"
      /\ Closes(src, i) => src[i] # "languageFence"

\* A separator that the page may leave out: a line with a '|' is above it.
UnderHeader(src, i) == src[i] = "separator" /\ i > 1 /\ src[i - 1] \in HasPipe

\* The page shows every line once, in the order of the source, whatever mixture
\* of tables, lists, code and text follow one another: code as code, but for blank
\* lines at its end, and nothing else as code, and only blank lines, fences and the
\* separators of tables are left out.  Neighbouring items of a kind are one list.
RendersWhole(src, html) ==
    LET shown == UNION {html[b].shown : b \in DOMAIN html}
        pre == UNION {html[b].shown : b \in {c \in DOMAIN html : html[c].tag = "pre"}}
    IN  /\ \A b, c \in DOMAIN html : b < c =>
             \A i \in html[b].shown, j \in html[c].shown : i < j
        /\ \A i \in DOMAIN src :
             /\ ShownAsCode(src, i) <=> i \in pre
             /\ src[i] = "blank" \/ Opens(src, i) \/ Closes(src, i) \/ UnderHeader(src, i)
                \/ i \in shown
        /\ \A b \in DOMAIN html : b > 1 /\ html[b].tag \in {"ul", "ol"} =>
             html[b - 1].tag # html[b].tag
             \/ \A i \in html[b].shown : i - 1 \notin html[b - 1].shown

=============================================================================
