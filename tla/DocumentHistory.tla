--------------------------- MODULE DocumentHistory ---------------------------
(***************************************************************************)
(* What the document API promises its callers: a document is a sequence of *)
(* revisions that only grows, one revision at a time, and the current one  *)
(* is the last.  There are no requests, no rows and no storage here;       *)
(* Documents implements this, and Tenancy for each of its organizations.   *)
(***************************************************************************)
EXTENDS Naturals, Sequences

CONSTANTS
    Docs,     \* the documents there can be
    Contents  \* what the bytes of an upload can be

VARIABLES
    revisions,  \* per document: the contents uploaded, oldest first
    live        \* the documents that can be found

vars == <<revisions, live>>

Init ==
    /\ revisions = [d \in Docs |-> <<>>]
    /\ live = {}

Create(d, c) ==
    /\ revisions[d] = <<>>
    /\ revisions' = [revisions EXCEPT ![d] = <<c>>]
    /\ live' = live \cup {d}

\* An upload that began while the document was live may end after it was
\* deleted.
Revise(d, c) ==
    /\ revisions[d] # <<>>
    /\ revisions' = [revisions EXCEPT ![d] = Append(@, c)]
    /\ UNCHANGED live

Delete(d) ==
    /\ d \in live
    /\ live' = live \ {d}
    /\ UNCHANGED revisions

Next ==
    \E d \in Docs :
        \/ Delete(d)
        \/ \E c \in Contents : Create(d, c) \/ Revise(d, c)

Spec == Init /\ [][Next]_vars
=============================================================================
