------------------------------ MODULE Documents ------------------------------
(***************************************************************************)
(* DocumentService: uploads of new documents, uploads of revisions and     *)
(* deletion, over the rows of one organization and its part of object      *)
(* storage.                                                                *)
(*                                                                         *)
(* An upload stores the bytes first and writes the row last; every await   *)
(* in between is a place where another request, a failure or the death of  *)
(* the server can come in, so each of them is a step here.  The storage    *)
(* key of a version is made of the document, the number and the file       *)
(* extension, nothing else.                                                *)
(***************************************************************************)
EXTENDS Naturals, FiniteSetsExt

CONSTANTS
    Docs,        \* ids of documents; uuid4 never gives one twice
    Contents,    \* what the bytes of an upload can be, up to their hash
    Exts,        \* file extensions
    MaxVersion,  \* bound: no document gets more versions
    Requests,    \* requests in flight at the same time
    Faults,      \* which of "storage", "database" and "crash" can happen
    None         \* no bytes

ASSUME DocumentsAssumption ==
    /\ MaxVersion \in Nat \ {0}
    /\ None \notin Contents

VARIABLES
    doc,        \* the rows of documents
    ver,        \* the rows of document_versions
    object,     \* what storage holds, by key
    req,        \* per request: where it is and what it knows
    endangered, \* history: keys two requests wrote, or a failed one disowned
    forsaken    \* history: keys a fault took the cleanup from

vars == <<doc, ver, object, req, endangered, forsaken>>

Numbers == 1..MaxVersion
Keys == Docs \X Numbers \X Exts

Document == [state : {"none", "live", "deleted"}, current : 0..MaxVersion]

NoVersion == [content |-> None, ext |-> None]
Version == [content : Contents, ext : Exts] \cup {NoVersion}

Idle == [pc |-> "idle"]

\* seen is the document's current version as the request loaded it.
Upload ==
    [pc : {"number", "store", "compare", "commit", "refresh", "discard"},
     op : {"upload", "add_version"}, doc : Docs, number : 0..MaxVersion,
     ext : Exts, content : Contents, seen : 0..MaxVersion]

Exists(d, n) == ver[<<d, n>>] # NoVersion

\* A key that forgets which version it is for.
KeyWithoutNumber(q) == <<q.doc, 1, q.ext>>

KeyOf(q) == <<q.doc, q.number, q.ext>>

\* The row that owns a key, by the key it would have been given.
Owned(k) == Exists(k[1], k[2]) /\ ver[<<k[1], k[2]>>].ext = k[3]

-----------------------------------------------------------------------------
Init ==
    /\ doc = [d \in Docs |-> [state |-> "none", current |-> 0]]
    /\ ver = [v \in Docs \X Numbers |-> NoVersion]
    /\ object = [k \in Keys |-> None]
    /\ req = [r \in Requests |-> Idle]
    /\ endangered = {}
    /\ forsaken = {}

Goto(r, pc) == req' = [req EXCEPT ![r].pc = pc]
Return(r) == req' = [req EXCEPT ![r] = Idle]

AtWork(r) == req[r].pc # "idle"

\* An id nobody has been given.
Fresh(d) ==
    /\ doc[d].state = "none"
    /\ \A k \in Keys : k[1] = d => object[k] = None
    /\ \A r \in Requests : AtWork(r) => req[r].doc # d

\* Numbering that starts at zero.
BeginUploadAtZero(r, d, c, x) ==
    /\ ~AtWork(r) /\ Fresh(d)
    /\ req' = [req EXCEPT ![r] =
         [pc |-> "store", op |-> "upload", doc |-> d, number |-> 0, ext |-> x,
          content |-> c, seen |-> 0]]
    /\ UNCHANGED <<doc, ver, object, endangered, forsaken>>

BeginUpload(r, d, c, x) ==
    /\ ~AtWork(r) /\ Fresh(d)
    /\ req' = [req EXCEPT ![r] =
         [pc |-> "store", op |-> "upload", doc |-> d, number |-> 1, ext |-> x,
          content |-> c, seen |-> 0]]
    /\ UNCHANGED <<doc, ver, object, endangered, forsaken>>

BeginAddVersion(r, d, c, x) ==
    /\ ~AtWork(r) /\ doc[d].state = "live"
    /\ req' = [req EXCEPT ![r] =
         [pc |-> "number", op |-> "add_version", doc |-> d, number |-> 0, ext |-> x,
          content |-> c, seen |-> doc[d].current]]
    /\ UNCHANGED <<doc, ver, object, endangered, forsaken>>

\* The highest version number the document has by now.
Highest(q) == Max({n \in Numbers : Exists(q.doc, n)} \cup {0})

NextNumber(r) ==
    /\ req[r].pc = "number"
    /\ Highest(req[r]) < MaxVersion
    /\ req' = [req EXCEPT ![r].pc = "store", ![r].number = Highest(req[r]) + 1]
    /\ UNCHANGED <<doc, ver, object, endangered, forsaken>>

\* What the request stored stays, and nobody is left to delete it.
Forsake(r) == forsaken' = forsaken \cup {KeyOf(req[r])}

\* A request that has its bytes in storage.
HasStored(r) == req[r].pc \in {"compare", "commit", "refresh", "discard"}

\* put_stream: the object is there when the last byte is, over whatever the
\* key held before.
Put(r) ==
    LET k == KeyOf(req[r])
        shared == Owned(k) \/ \E s \in Requests \ {r} :
                                AtWork(s) /\ KeyOf(req[s]) = k
    IN  /\ req[r].pc = "store"
        /\ object' = [object EXCEPT ![k] = req[r].content]
        /\ endangered' = IF shared THEN endangered \cup {k} ELSE endangered
        /\ UNCHANGED <<doc, ver>>

Store(r) == Put(r) /\ Goto(r, "compare") /\ UNCHANGED forsaken

\* The answer to the last byte is lost: the object is there, and the request
\* fails before it has anything to clean up after.
StoreUnanswered(r) ==
    /\ Put(r) /\ "storage" \in Faults
    /\ Forsake(r)
    /\ Return(r)

\* Too large, or storage failed: the stream is aborted and no object appears.
StoreFails(r) ==
    /\ req[r].pc = "store"
    /\ Return(r)
    /\ UNCHANGED <<doc, ver, object, endangered, forsaken>>

\* The versions in the organization with these bytes.
Matches(c) == {v \in Docs \X Numbers : ver[v].content = c}

\* The same, of live documents only: what would have to be looked for.
LiveDuplicate(c) == \E v \in Matches(c) : doc[v[1]].state = "live"

\* What _existing_duplicate may find: of the matches the oldest counts, and only
\* if its document is live.  The oldest is any of them here: created_at is the
\* start of the transaction, an order that commits need not follow.
Duplicate(c) ==
    IF Matches(c) = {} THEN {FALSE}
    ELSE {doc[v[1]].state = "live" : v \in Matches(c)}

\* The comparison made with the first version.
UnchangedSinceFirst(q) == ver[<<q.doc, 1>>].content = q.content

\* The current version, as this request loaded it, has these bytes already.
Unchanged(q) == q.seen \in Numbers /\ ver[<<q.doc, q.seen>>].content = q.content

\* A query outside the try block fails: whatever was stored stays.
ReadFails(r) ==
    /\ req[r].pc \in {"number", "compare"} /\ "database" \in Faults
    /\ IF HasStored(r) THEN Forsake(r) ELSE UNCHANGED forsaken
    /\ Return(r)
    /\ UNCHANGED <<doc, ver, object, endangered>>

Compare(r) ==
    /\ req[r].pc = "compare"
    /\ LET q == req[r]
       IN  \E known \in IF q.op = "upload" THEN Duplicate(q.content)
                         ELSE {Unchanged(q)} :
             Goto(r, IF known THEN "discard" ELSE "commit")
    /\ UNCHANGED <<doc, ver, object, endangered, forsaken>>

-----------------------------------------------------------------------------
\* The version row without the update of the document.
InsertRowOnly(q) ==
    /\ ver' = [ver EXCEPT ![<<q.doc, q.number>>] =
                 [content |-> q.content, ext |-> q.ext]]
    /\ doc' = IF q.op = "upload"
              THEN [doc EXCEPT ![q.doc] = [state |-> "live", current |-> 1]]
              ELSE doc

\* The whole document row as the request loaded it, not what it changed.
InsertWholeRow(q) ==
    /\ ver' = [ver EXCEPT ![<<q.doc, q.number>>] =
                 [content |-> q.content, ext |-> q.ext]]
    /\ doc' = [doc EXCEPT ![q.doc] = [state |-> "live", current |-> q.number]]

\* The rows of one upload, in one transaction.
Insert(q) ==
    /\ ver' = [ver EXCEPT ![<<q.doc, q.number>>] =
                 [content |-> q.content, ext |-> q.ext]]
    /\ doc' = [doc EXCEPT ![q.doc].current = q.number,
                          ![q.doc].state = IF q.op = "upload" THEN "live" ELSE @]

\* No unique constraint on (document_id, version_number).
NeverTaken(q) == FALSE

\* The unique constraint decides between two uploads with the same number.
Taken(q) == Exists(q.doc, q.number)

Commit(r) ==
    /\ req[r].pc = "commit" /\ ~Taken(req[r])
    /\ Insert(req[r])
    /\ IF req[r].op = "upload" THEN Return(r) ELSE Goto(r, "refresh")
    /\ UNCHANGED <<object, endangered, forsaken>>

\* The constraint refuses the insert, or the database fails before the commit.
CommitFails(r) ==
    /\ req[r].pc = "commit"
    /\ Taken(req[r]) \/ "database" \in Faults
    /\ Goto(r, "discard")
    /\ UNCHANGED <<doc, ver, object, endangered, forsaken>>

\* The commit is durable and the answer to it is lost.
CommitUnanswered(r) ==
    /\ req[r].pc = "commit" /\ ~Taken(req[r]) /\ "database" \in Faults
    /\ Insert(req[r])
    /\ endangered' = endangered \cup {KeyOf(req[r])}
    /\ Goto(r, "discard")
    /\ UNCHANGED <<object, forsaken>>

\* The SELECT after the commit, inside the same try.
Refresh(r) ==
    /\ req[r].pc = "refresh"
    /\ Return(r)
    /\ UNCHANGED <<doc, ver, object, endangered, forsaken>>

RefreshFails(r) ==
    /\ req[r].pc = "refresh" /\ "database" \in Faults
    /\ endangered' = endangered \cup {KeyOf(req[r])}
    /\ Goto(r, "discard")
    /\ UNCHANGED <<doc, ver, object, forsaken>>

\* The failure path without its cleanup.
DiscardNothing(r) ==
    /\ req[r].pc = "discard"
    /\ Return(r)
    /\ UNCHANGED <<doc, ver, object, endangered, forsaken>>

Discard(r) ==
    /\ req[r].pc = "discard"
    /\ object' = [object EXCEPT ![KeyOf(req[r])] = None]
    /\ Return(r)
    /\ UNCHANGED <<doc, ver, endangered, forsaken>>

\* A failure to delete is logged and swallowed.
DiscardFails(r) ==
    /\ req[r].pc = "discard" /\ "storage" \in Faults
    /\ Forsake(r)
    /\ Return(r)
    /\ UNCHANGED <<doc, ver, object, endangered>>

\* The server dies: nothing runs, not even the cleanup.
Crash(r) ==
    /\ AtWork(r) /\ "crash" \in Faults
    /\ IF HasStored(r) THEN Forsake(r) ELSE UNCHANGED forsaken
    /\ Return(r)
    /\ UNCHANGED <<doc, ver, object, endangered>>

\* Soft: the rows and the objects stay.
Delete(d) ==
    /\ doc[d].state = "live"
    /\ doc' = [doc EXCEPT ![d].state = "deleted"]
    /\ UNCHANGED <<ver, object, req, endangered, forsaken>>

Next ==
    \/ \E r \in Requests :
         \/ \E d \in Docs, c \in Contents, x \in Exts :
              BeginUpload(r, d, c, x) \/ BeginAddVersion(r, d, c, x)
         \/ NextNumber(r) \/ Store(r) \/ StoreUnanswered(r) \/ StoreFails(r)
         \/ ReadFails(r) \/ Compare(r)
         \/ Commit(r) \/ CommitFails(r) \/ CommitUnanswered(r)
         \/ Refresh(r) \/ RefreshFails(r)
         \/ Discard(r) \/ DiscardFails(r) \/ Crash(r)
    \/ \E d \in Docs : Delete(d)

Spec == Init /\ [][Next]_vars

-----------------------------------------------------------------------------
\* All but the history of garbage.
StateOK ==
    /\ doc \in [Docs -> Document]
    /\ ver \in [Docs \X Numbers -> Version]
    /\ object \in [Keys -> Contents \cup {None}]
    /\ req \in [Requests -> Upload \cup {Idle}]
    /\ \A r \in Requests :
         AtWork(r) /\ req[r].pc # "number" => req[r].number \in Numbers
    /\ endangered \in SUBSET Keys

TypeOK == StateOK /\ forsaken \in SUBSET Keys

\* Whatever uploads race, the versions of a document are numbered without a
\* gap and current_version names the last (next_version_number is
\* read-then-write; the unique constraint decides).
CurrentIsLatest ==
    \A d \in Docs :
      /\ \A n \in Numbers : Exists(d, n) <=> n <= doc[d].current
      /\ doc[d].state = "none" <=> doc[d].current = 0

\* A row has its object, with the bytes it recorded the hash of, unless two
\* requests used the key or a request failed after its commit: those are all
\* the ways to lose one.
RowsKeepObjects ==
    \A k \in Keys :
      Owned(k) /\ k \notin endangered => object[k] = ver[<<k[1], k[2]>>].content

\* "What must never be left behind is a database row without its object"
\* (document_service.py:420).
EveryRowHasItsObject == \A k \in Keys : Owned(k) => object[k] # None

\* Each upload ends with its row or without its object: an object without a row
\* belongs to a request that will see to it, or a fault took its cleanup away
\* (a failed delete, a query outside the try block, a lost answer, a crash).
\* Those are all the ways to garbage.
NoOrphans ==
    \A k \in Keys :
      object[k] # None /\ k \notin forsaken =>
        Owned(k) \/ \E r \in Requests : HasStored(r) /\ KeyOf(req[r]) = k

\* A version, once recorded, is never rewritten (citations point at it).
VersionsAreImmutable ==
    [][\A v \in Docs \X Numbers : ver[v] # NoVersion => ver'[v] = ver[v]]_vars

\* "Re-uploading the current version's exact bytes is a no-op": no version
\* repeats its predecessor (document_service.py:257).
NoVersionRepeats ==
    \A d \in Docs, n \in Numbers :
      n > 1 /\ Exists(d, n) => ver[<<d, n>>].content # ver[<<d, n - 1>>].content

\* "A file whose bytes are already in this organization returns the existing
\* document" (routes/v1/documents.py:125): no document is created with bytes
\* a live document has.
DuplicatesAreFound ==
    [][\A d \in Docs :
         doc[d].state = "none" /\ doc'[d].state = "live" =>
           ~LiveDuplicate(ver'[<<d, 1>>].content)]_vars

\* The rows, read as sequences, grow as DocumentHistory says.
Promise == INSTANCE DocumentHistory
             WITH revisions <- [d \in Docs |->
                                  [n \in 1..doc[d].current |-> ver[<<d, n>>].content]],
                  live <- {d \in Docs : doc[d].state = "live"}

ImplementsHistory == Promise!Spec
=============================================================================
