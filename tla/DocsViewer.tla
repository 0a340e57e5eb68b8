------------------------------ MODULE DocsViewer ------------------------------
(***************************************************************************)
(* The documentation viewer (docs/viewer/app.js): a page that fetches the  *)
(* files of the documentation, keeps them, shows one and searches all.     *)
(*                                                                         *)
(* The page is one event loop.  A handler runs until it awaits a fetch; a  *)
(* file that is in the cache is awaited without leaving the loop's turn,   *)
(* so that an action is what one click, submit, input event or answer does *)
(* up to the next fetch.  Nothing cancels a fetch, and nothing orders the  *)
(* answers.  Where a search ends, it loads the chosen document anew.       *)
(*                                                                         *)
(* A search term is a model value; NoTerm is the empty one.                *)
(***************************************************************************)
EXTENDS Markdown, FiniteSetsExt

CONSTANTS
    Docs,           \* the documents, in the order of the list
    Terms,          \* search terms
    Short,          \* those of one character, which are not searched for
    NoTerm,
    Hits,           \* Hits[t][d]: how many lines of d contain t
    ResultCap,      \* how many hits a search lists, 60
    Sittings,       \* bound: what the server serves, and how much the user does
    MaxFailures     \* bound: fetches that fail

Doc == {Docs[i] : i \in DOMAIN Docs}

ASSUME ViewerAssumption ==
    /\ Docs \in Seq(Doc) \ {<<>>}
    /\ NoTerm \notin Terms /\ Short \subseteq Terms
    /\ Hits \in [Terms -> [Doc -> Nat]]
    /\ ResultCap \in Nat \ {0}
    /\ Sittings \subseteq [files : [Doc -> Seq(Line)], acts : Nat]
    /\ MaxFailures \in Nat

VARIABLES
    files,          \* files[d]: the Markdown the server has for d
    docCache,       \* the documents that have been fetched
    currentDoc,     \* the document chosen last: its button, title and raw link
    activeSearchTerm,
    content,        \* what the page shows of which document, marking which term
    searchStatus,   \* the line under the search box, and the term it is about
    searchResults,  \* the list under it: the documents, and the term searched for
    loads,          \* the loads that await their fetch, oldest first
    searches,       \* the searches that await a fetch, oldest first
    acts,           \* what the user may still do
    failures,       \* fetches that have failed
    asked           \* ghost: the newest load, and those that awaited their fetch
                    \* when it began

vars == <<files, docCache, currentDoc, activeSearchTerm, content, searchStatus,
          searchResults, loads, searches, acts, failures, asked>>

NoResults == [term |-> NoTerm, docs |-> {}]
Status(says, term) == [says |-> says, term |-> term]
Hint == Status("hint", NoTerm)

\* contentElement after a load that succeeded, and after one that failed.
Shown(d, term) ==
    [doc |-> d, html |-> MarkdownToHtml(files[d]), term |-> term, rendered |-> TRUE]
ErrorFor(d) == [doc |-> d, html |-> <<>>, term |-> NoTerm, rendered |-> FALSE]

Without(s, i) == SubSeq(s, 1, i - 1) \o SubSeq(s, i + 1, Len(s))

\* The script loads the first document as soon as it runs.
Init ==
    /\ \E s \in Sittings : files = s.files /\ acts = s.acts
    /\ docCache = {} /\ failures = 0
    /\ currentDoc = Docs[1] /\ activeSearchTerm = NoTerm
    /\ content = [doc |-> Docs[1], html |-> <<>>, term |-> NoTerm, rendered |-> FALSE]
    /\ searchStatus = Hint /\ searchResults = NoResults
    /\ loads = <<[doc |-> Docs[1], term |-> NoTerm]>>
    /\ searches = <<>>
    /\ asked = [doc |-> Docs[1], term |-> NoTerm, by |-> "list", rivals |-> {}]

------------------------------------------------------------------------------
(* loadDocument and searchAcrossDocs.                                      *)

\* The load that d is asked for by, next to those that await their fetches.
Asks(d, term, by, pending) ==
    asked' = [doc |-> d, term |-> term, by |-> by,
              rivals |-> {pending[i] : i \in DOMAIN pending}]

\* Defect: a load chooses the document only once it has its file.
LoadChoosingLate(d, term, by, pending) ==
    /\ currentDoc' = IF d \in docCache' THEN d ELSE currentDoc
    /\ Asks(d, term, by, pending)
    /\ IF d \in docCache' THEN content' = Shown(d, term) /\ loads' = pending
       ELSE content' = content /\ loads' = Append(pending, [doc |-> d, term |-> term])

\* loadDocument, while the loads `pending` await their fetches: d is chosen at
\* once, and shown at once if it is in the cache.
LoadDocument(d, term, by, pending) ==
    /\ currentDoc' = d
    /\ Asks(d, term, by, pending)
    /\ IF d \in docCache' THEN content' = Shown(d, term) /\ loads' = pending
       ELSE content' = content /\ loads' = Append(pending, [doc |-> d, term |-> term])

HitsIn(term, S) == MapThenSumSet(LAMBDA d : Hits[term][d], S)

\* The documents of which the first ResultCap hits in those found name a line.
Listed(term, found) ==
    {d \in found : \E i \in DOMAIN Docs :
       d = Docs[i] /\ HitsIn(term, found \intersect {Docs[k] : k \in 1..(i - 1)}) < ResultCap}

\* The end of a search: its results replace whatever the page lists by then.
Finish(term, found) ==
    /\ searchResults' = IF found = {} THEN NoResults
                        ELSE [term |-> term, docs |-> Listed(term, found)]
    /\ searchStatus' = Status(IF found = {} THEN "none" ELSE "found", term)

\* The first document from position i on that the search has to fetch.
NextFetch(i) ==
    CHOOSE j \in i..(Len(Docs) + 1) :
      /\ j <= Len(Docs) => Docs[j] \notin docCache'
      /\ \A k \in i..(j - 1) : Docs[k] \in docCache'

\* Defect: the document that has just been fetched is not looked at.
FoundInCached(term, i, j) == {d \in {Docs[k] : k \in (i + 1)..j} : Hits[term][d] > 0}

\* The documents from position i up to j that contain the term.
FoundIn(term, i, j) == {d \in {Docs[k] : k \in i..j} : Hits[term][d] > 0}

\* Defect: the document is loaded with the term of this search.
SearchOnReloadingOwn(term, i, found, others, status) ==
    LET next == NextFetch(i)
        all == found \union FoundIn(term, i, next - 1)
    IN  IF next <= Len(Docs)
        THEN /\ searches' = Append(others, [term |-> term, at |-> next, found |-> all])
             /\ searchStatus' = status
             /\ UNCHANGED <<searchResults, currentDoc, content, loads, asked>>
        ELSE /\ searches' = others
             /\ Finish(term, all)
             /\ LoadDocument(currentDoc, term, "submit", loads)

\* A search for term goes on at position i, next to the other searches: it reads
\* what is in the cache and waits for its next fetch, the status line saying
\* `status`, or ends; then the submit handler that awaits it loads the chosen
\* document with the term active by now.
SearchOn(term, i, found, others, status) ==
    LET next == NextFetch(i)
        all == found \union FoundIn(term, i, next - 1)
    IN  IF next <= Len(Docs)
        THEN /\ searches' = Append(others, [term |-> term, at |-> next, found |-> all])
             /\ searchStatus' = status
             /\ UNCHANGED <<searchResults, currentDoc, content, loads, asked>>
        ELSE /\ searches' = others
             /\ Finish(term, all)
             /\ LoadDocument(currentDoc, activeSearchTerm', "submit", loads)

------------------------------------------------------------------------------
(* The user.                                                               *)

Act == acts > 0 /\ acts' = acts - 1 /\ UNCHANGED <<files, docCache, failures>>

ClickDoc ==
    /\ Act
    /\ \E d \in Doc : LoadDocument(d, activeSearchTerm, "list", loads)
    /\ UNCHANGED <<activeSearchTerm, searchStatus, searchResults, searches>>

ClickResult ==
    /\ Act
    /\ \E d \in searchResults.docs : LoadDocument(d, searchResults.term, "result", loads)
    /\ UNCHANGED <<activeSearchTerm, searchStatus, searchResults, searches>>

\* Defect: what the box holds is kept before it is trimmed.
EmptySearchUntrimmed(term) ==
    /\ activeSearchTerm' = IF term = NoTerm THEN "blanks" ELSE term
    /\ searchStatus' = Hint /\ searchResults' = NoResults
    /\ LoadDocument(currentDoc, term, "submit", loads)
    /\ UNCHANGED searches

\* What a box with less than two characters means to the handlers of submit and
\* of input; the searches in flight go on.
EmptySearch(term) ==
    /\ activeSearchTerm' = term
    /\ searchStatus' = Hint /\ searchResults' = NoResults
    /\ LoadDocument(currentDoc, term, "submit", loads)
    /\ UNCHANGED searches

\* The box is emptied; to submit it empty is the same.
Clear == Act /\ EmptySearch(NoTerm)

Submit ==
    /\ Act
    /\ \/ \E t \in Short : EmptySearch(t)
       \/ \E t \in Terms \ Short :
            /\ activeSearchTerm' = t
            /\ SearchOn(t, 1, {}, searches, Status("searching", t))

------------------------------------------------------------------------------
(* The answers to the fetches.                                             *)

Fetched(d) == docCache' = docCache \union {d} /\ UNCHANGED failures

\* The network fails, or the server answers with an error (a limiter's 429 is one).
FetchFails ==
    /\ failures < MaxFailures /\ failures' = failures + 1
    /\ UNCHANGED docCache

LoadAnswered ==
    \E i \in DOMAIN loads :
      /\ loads' = Without(loads, i)
      /\ \/ Fetched(loads[i].doc) /\ content' = Shown(loads[i].doc, loads[i].term)
         \/ FetchFails /\ content' = ErrorFor(loads[i].doc)
      /\ UNCHANGED <<files, currentDoc, activeSearchTerm, searchStatus, searchResults,
                     searches, acts, asked>>

\* Defect: a failed fetch is not caught, and ends the search with its handler.
SearchAnsweredOrDies ==
    \E i \in DOMAIN searches :
      LET s == searches[i]
      IN  /\ UNCHANGED <<files, activeSearchTerm, acts>>
          /\ \/ Fetched(Docs[s.at]) /\ SearchOn(s.term, s.at, s.found, Without(searches, i), searchStatus)
             \/ /\ FetchFails /\ searches' = Without(searches, i)
                /\ UNCHANGED <<searchStatus, searchResults, currentDoc, content, loads, asked>>

\* A document that cannot be fetched is left out of the search.
SearchAnswered ==
    \E i \in DOMAIN searches :
      LET s == searches[i]
          others == Without(searches, i)
      IN  /\ UNCHANGED <<files, activeSearchTerm, acts>>
          /\ \/ Fetched(Docs[s.at]) /\ SearchOn(s.term, s.at, s.found, others, searchStatus)
             \/ FetchFails /\ SearchOn(s.term, s.at + 1, s.found, others, searchStatus)

Next ==
    \/ ClickDoc \/ ClickResult \/ Clear \/ Submit
    \/ LoadAnswered \/ SearchAnswered

Spec == Init /\ [][Next]_vars

\* The browser ends the fetches that searches await; whether those of loads ever end
\* does not matter to them, and the user owes nothing.
FairSpec == Spec /\ WF_vars(SearchAnswered)

------------------------------------------------------------------------------
(* Properties.                                                             *)

\* What a load and a search remember while they await a fetch.
Loading == [doc : Doc, term : Terms \union {NoTerm}]
Searching == [term : Terms, at : DOMAIN Docs, found : SUBSET Doc]

\* Every variable has its type.
TypeOK ==
    /\ files \in [Doc -> Seq(Line)] /\ docCache \subseteq Doc /\ currentDoc \in Doc
    /\ activeSearchTerm \in Terms \union {NoTerm}
    /\ content.doc \in Doc /\ content.term \in Terms \union {NoTerm}
    /\ content.rendered \in BOOLEAN
    /\ searchStatus \in [says : {"hint", "searching", "none", "found"},
                         term : Terms \union {NoTerm}]
    /\ searchResults \in [term : Terms \union {NoTerm}, docs : SUBSET Doc]
    /\ loads \in Seq(Loading) /\ searches \in Seq(Searching)
    /\ asked \in [doc : Doc, term : Terms \union {NoTerm},
                  by : {"list", "result", "submit"}, rivals : SUBSET Loading]
    /\ acts \in Nat /\ failures \in 0..MaxFailures

Newest == [doc |-> asked.doc, term |-> asked.term]

\* The page is the one of load l, or says that it failed.
IsPageOf(l) == content.doc = l.doc /\ (content.rendered => content.term = l.term)

\* Whatever the searches in flight do, the page ends up with the document that
\* the list, the title and the raw link name, and with the marks of the newest
\* load; or with those of a load that awaited its fetch when the newest began,
\* since fetches that race are shown in the order of their answers, but never with
\* anything older.
SettledPageIsTheOneAsked ==
    loads = <<>> =>
      asked.doc = currentDoc /\ \E l \in {Newest} \union asked.rivals : IsPageOf(l)

\* However many submits, clears, clicks and searches overlap, once all have ended
\* the page marks the term submitted last, or none if the box was cleared after it,
\* and not the term of the search that happened to end last.  A click on a result
\* marks what that result was found by; and a load of something else that awaited
\* its fetch when the newest began may have come last.
MarksFollowTheLastSubmit ==
    /\ searches = <<>> /\ loads = <<>> /\ content.rendered
    /\ asked.by # "result" /\ asked.rivals \subseteq {Newest}
    => content.term = activeSearchTerm

\* The status line never contradicts the list under it, whichever search ended
\* last and whatever was cleared meanwhile; and a search misses no document
\* that matches, whoever fetched it first, unless a fetch failed or the list is
\* full.
StatusAgreesWithResults ==
    /\ searchStatus.says = "found" =>
         searchResults.docs # {} /\ searchResults.term = searchStatus.term
    /\ searchStatus.says \in {"none", "hint"} => searchResults.docs = {}
    /\ \A d \in searchResults.docs : Hits[searchResults.term][d] > 0
    /\ searchStatus.says \in {"found", "none"} /\ failures = 0 =>
         \A d \in Doc \ searchResults.docs :
           LET t == searchStatus.term
           IN  Hits[t][d] = 0 \/ HitsIn(t, searchResults.docs) >= ResultCap

\* The page shown has every line of its file, in order.
PageIsWhole ==
    content.rendered /\ WellFenced(files[content.doc]) =>
      RendersWhole(files[content.doc], content.html)

\* "Buscando..." does not stay for ever, even if fetches fail.
SearchEnds == searchStatus.says = "searching" ~> searchStatus.says # "searching"

=============================================================================
