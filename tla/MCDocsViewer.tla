----------------------------- MODULE MCDocsViewer -----------------------------
(* Instances of DocsViewer for TLC. *)
EXTENDS DocsViewer

CONSTANTS readme, setup, t1, t2, s1, nothing

TwoDocs == <<readme, setup>>

\* One term fills the list before the second document, the others are in the
\* second only.
HitsOf == [t \in Terms |-> [d \in Doc |-> IF d = setup THEN 1 ELSE IF t = t1 THEN 2 ELSE 0]]

\* A user who acts four times, on files of a blank line; or who only reads, any
\* file of up to four lines.
BrowsingOrReading ==
    {[files |-> [d \in Doc |-> <<"blank">>], acts |-> 4]} \union
    {[files |-> [d \in Doc |-> IF d = readme THEN f ELSE <<>>], acts |-> 0] :
       f \in UNION {[1..n -> Line] : n \in 0..4}}

=============================================================================
