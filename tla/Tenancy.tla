------------------------------- MODULE Tenancy -------------------------------
(***************************************************************************)
(* The rows of several organizations behind the organization-scoped        *)
(* repositories: every operation of DocumentService with its queries as    *)
(* separate steps, and the audited read of a platform operator.            *)
(*                                                                         *)
(* A request carries the organization its path names and stands for a      *)
(* member with any of the roles that get past the guards.  A document row  *)
(* is found by a query and kept by the session: a later step works with    *)
(* what was loaded, not with what the row has become.  Nothing of a        *)
(* request depends on these rows before its first query, so it begins with *)
(* that.  Object storage and its failures are Documents'; here an upload   *)
(* has its bytes stored.                                                   *)
(***************************************************************************)
EXTENDS Rbac, Naturals, FiniteSets, FiniteSetsExt

CONSTANTS
    Orgs,        \* organizations
    Docs,        \* ids of documents; uuid4 never gives one twice
    Titles,      \* titles a request can ask for
    Hashes,      \* hashes of contents
    MaxVersion,  \* bound: no document gets more versions
    MaxAudit,    \* bound: operators are recorded no more often
    Requests,    \* requests in flight at the same time
    None         \* no organization, no title, no hash

ASSUME TenancyAssumption ==
    /\ IsFiniteSet(Docs)
    /\ MaxVersion \in Nat \ {0} /\ MaxAudit \in Nat
    /\ None \notin Orgs \cup Docs \cup Titles \cup Hashes

VARIABLES
    doc,    \* the rows of documents
    ver,    \* the rows of document_versions
    audit,  \* the rows of audit_log about reads across organizations
    req     \* per request: where it is and what it has loaded

vars == <<doc, ver, audit, req>>

Numbers == 1..MaxVersion
States == {"none", "live", "deleted"}

Document == [org : Orgs \cup {None}, state : States,
             title : Titles \cup {None}, current : 0..MaxVersion]
NoDocument == [org |-> None, state |-> "none", title |-> None, current |-> 0]

DocumentVersion == [org : Orgs, doc : Docs, number : Numbers, hash : Hashes]

AuditLog == [org : Orgs \cup {None}, doc : Docs \cup {None}]

\* row is the document as it was loaded, had the documents whose rows the
\* request was given in the context of its organization.
Request ==
    [pc : {"live", "number", "compare", "select", "count", "write", "held"},
     op : Endpoints \cup {"operator"}, org : Orgs, doc : Docs \cup {None},
     hash : Hashes \cup {None}, number : 0..MaxVersion, row : Document,
     had : SUBSET Docs]

Idle == [pc |-> "idle"]
AtWork(r) == req[r].pc # "idle"

-----------------------------------------------------------------------------
\* The queries, over the rows D and V, in the context of organization o.

\* The inherited get: by primary key, out of the whole table.
GetAnywhere(D, o, d) ==
    IF d \in DOMAIN D /\ D[d].state = "live" THEN {D[d]} ELSE {}

\* DocumentRepository.get_live: at most one row.
GetLive(D, o, d) ==
    IF d \in DOMAIN D /\ D[d].org = o /\ D[d].state = "live" THEN {D[d]} ELSE {}

ListLive(D, o) == {d \in DOMAIN D : D[d].org = o /\ D[d].state = "live"}

\* Documents of one title counted once.
CountTitles(D, o) == Cardinality({D[d].title : d \in ListLive(D, o)})

CountLive(D, o) == Cardinality(ListLive(D, o))

GetByNumber(V, o, d, n) == {v \in V : v.org = o /\ v.doc = d /\ v.number = n}

\* The bytes of that row.
HashOf(V, o, d, n) == (CHOOSE v \in GetByNumber(V, o, d, n) : TRUE).hash

ListForDocument(V, o, d) == {v \in V : v.org = o /\ v.doc = d}

\* A lookup of the hash in the whole table.
FindByHashAnywhere(V, o, h) == {v \in V : v.hash = h}

\* find_by_hash takes the oldest of these.
FindByHash(V, o, h) == {v \in V : v.org = o /\ v.hash = h}

NextVersionNumber(V, o, d) ==
    Max({v.number : v \in {w \in V : w.org = o /\ w.doc = d}} \cup {0}) + 1

\* No second look at where the row came from.
OwnedAlways(q, row) == TRUE

\* OrgScopedRepository._assert_owned.
Owned(q, row) == row.org = q.org

-----------------------------------------------------------------------------
Init ==
    /\ doc = [d \in Docs |-> NoDocument]
    /\ ver = {}
    /\ audit = {}
    /\ req = [r \in Requests |-> Idle]

\* A request that got past the guards and its first query.  What it asks for is
\* chosen where it is first looked at.
Began(op, pc, o, d, h, row, had) ==
    [pc |-> pc, op |-> op, org |-> o, doc |-> d, hash |-> h, number |-> 0,
     row |-> row, had |-> had]

Begin(r, op) ==
    /\ ~AtWork(r)
    /\ op \in Endpoints => Roles(op) # {}
    /\ UNCHANGED <<doc, ver, audit>>

\* The operations that begin with get_document, and where they go on.  A read of
\* one document ends there.
After == [add_version |-> "number", rename |-> "write", delete |-> "write",
          versions |-> "select", download |-> "select", download_version |-> "select"]

\* get_document: a row the context may see, or else a 404 and nothing done.
Find(r, o) ==
    \E op \in DOMAIN After, d \in Docs, h \in Hashes \cup {None} :
      /\ Begin(r, op)
      /\ (h # None) = (op = "add_version")
      /\ \E row \in GetLive(doc, o, d) :
           req' = [req EXCEPT ![r] = Began(op, After[op], o, d, h, row, {d})]

\* The rows of a page, some of the organization's; the total is asked for by a
\* query of its own.
List(r, o) ==
    /\ Begin(r, "list")
    /\ \E rows \in SUBSET ListLive(doc, o) :
         req' = [req EXCEPT ![r] = Began("list", "count", o, None, None, NoDocument, rows)]

\* An id nobody has been given.
Fresh(d) == doc[d] = NoDocument /\ \A r \in Requests : AtWork(r) => req[r].doc # d

\* _existing_duplicate, first query: a version with these bytes.
Upload(r, o) ==
    /\ Begin(r, "upload")
    /\ \E d \in Docs, h \in Hashes :
         LET found == FindByHash(ver, o, h)
         IN  /\ Fresh(d)
             /\ \/ found = {} /\ req' = [req EXCEPT ![r] =
                     Began("upload", "write", o, d, h, NoDocument, {})]
                \/ \E v \in found : req' = [req EXCEPT ![r] =
                     Began("upload", "live", o, d, h, NoDocument, {v.doc})]

Return(r) == req' = [req EXCEPT ![r] = Idle]
Goto(r, pc) == req' = [req EXCEPT ![r].pc = pc]

\* The last query of a listing and of a download: the answer is sent.
Answer(r) ==
    /\ req[r].pc \in {"count", "select"}
    /\ Return(r)
    /\ UNCHANGED <<doc, ver, audit>>

\* Second query: the document it is a version of, if that is live.
MatchLive(r) ==
    /\ req[r].pc = "live"
    /\ IF \E d \in req[r].had : GetLive(doc, req[r].org, d) # {}
       THEN Return(r)
       ELSE Goto(r, "write")
    /\ UNCHANGED <<doc, ver, audit>>

Number(r) ==
    /\ req[r].pc = "number"
    /\ LET n == NextVersionNumber(ver, req[r].org, req[r].doc)
       IN  n <= MaxVersion /\ req' = [req EXCEPT ![r].pc = "compare", ![r].number = n]
    /\ UNCHANGED <<doc, ver, audit>>

\* The bytes of the version that was current when the document was loaded.
Compare(r) ==
    /\ req[r].pc = "compare"
    /\ LET q == req[r]
           current == GetByNumber(ver, q.org, q.doc, q.row.current)
       IN  IF \E v \in current : v.hash = q.hash THEN Return(r) ELSE Goto(r, "write")
    /\ UNCHANGED <<doc, ver, audit>>

-----------------------------------------------------------------------------
\* One transaction each; organization_id is stamped from the context.

\* A row that nobody stamped with an organization.
NewVersionUnstamped(q, n) == [org |-> None, doc |-> q.doc, number |-> n, hash |-> q.hash]

NewVersion(q, n) == [org |-> q.org, doc |-> q.doc, number |-> n, hash |-> q.hash]

\* The unique constraint on (document_id, version_number).
Taken(q) == \E v \in ver : v.doc = q.doc /\ v.number = q.number

WriteUpload(r) ==
    LET q == req[r]
    IN  /\ q.pc = "write" /\ q.op = "upload"
        /\ \E t \in Titles :
             doc' = [doc EXCEPT ![q.doc] = [org |-> q.org, state |-> "live",
                                            title |-> t, current |-> 1]]
        /\ ver' = ver \cup {NewVersion(q, 1)}
        /\ Return(r)
        /\ UNCHANGED audit

\* The row as the request loaded it, written back whole.
WholeRow(q, t, row) ==
    [q.row EXCEPT !.title = IF q.op = "rename" THEN t ELSE @,
                  !.current = IF q.op = "add_version" THEN q.number ELSE @,
                  !.state = IF q.op = "delete" THEN "deleted" ELSE @]

\* The version row without the update of the document.
UpdatedWithoutCurrent(q, t, row) ==
    [row EXCEPT !.title = IF q.op = "rename" /\ t # q.row.title THEN t ELSE @,
                !.state = IF q.op = "delete" THEN "deleted" ELSE @]

\* The columns the request assigned another value than the one it loaded: the
\* UPDATE names those and no other.
Updated(q, t, row) ==
    [row EXCEPT !.title = IF q.op = "rename" /\ t # q.row.title THEN t ELSE @,
                !.current = IF q.op = "add_version" THEN q.number ELSE @,
                !.state = IF q.op = "delete" THEN "deleted" ELSE @]

\* update: the row that was loaded must be the context's own.  A version that
\* was added before that is refused goes with the transaction.
WriteUpdate(r) ==
    LET q == req[r]
    IN  /\ q.pc = "write" /\ q.op \in {"add_version", "rename", "delete"}
        /\ IF Owned(q, q.row) /\ ~(q.op = "add_version" /\ Taken(q))
           THEN /\ \E t \in Titles : doc' = [doc EXCEPT ![q.doc] = Updated(q, t, @)]
                /\ ver' = IF q.op = "add_version"
                          THEN ver \cup {NewVersion(q, q.number)} ELSE ver
           ELSE UNCHANGED <<doc, ver>>
        /\ Return(r)
        /\ UNCHANGED audit

-----------------------------------------------------------------------------
\* A platform operator reads across organizations and holds what was read; the
\* row of audit_log waits in the same transaction.  Nothing in src calls this
\* yet; org is the organization of the context the repository was given, and
\* the role in it is not consulted.

\* get_across_tenants.  row.org is what the audit row will name.
ReadAcross(r, o, d) ==
    /\ Begin(r, "operator")
    /\ req' = [req EXCEPT ![r] =
                 Began("operator", "held", o, d, None, doc[d], {})]

\* list_across_tenants, narrowed to one organization or not at all.
ListAcross(r, o, narrow) ==
    /\ Begin(r, "operator")
    /\ req' = [req EXCEPT ![r] =
                 Began("operator", "held", o, None, None,
                       [NoDocument EXCEPT !.org = narrow], {})]

\* The audit row that names the operator's own organization.
RecordOwn(q) == [org |-> q.org, doc |-> q.doc]

\* _record_bypass: the organization the row was found in.
Record(q) == [org |-> q.row.org, doc |-> q.doc]

CommitHeld(r) ==
    /\ req[r].pc = "held"
    /\ Cardinality(audit \cup {Record(req[r])}) <= MaxAudit
    /\ audit' = audit \cup {Record(req[r])}
    /\ Return(r)
    /\ UNCHANGED <<doc, ver>>

\* The session ends without a commit.
CloseHeld(r) ==
    /\ req[r].pc = "held"
    /\ Return(r)
    /\ UNCHANGED <<doc, ver, audit>>

\* What was read is handed to the scoped update of the caller's organization.
UpdateHeld(r) ==
    LET q == req[r]
    IN  /\ q.pc = "held" /\ q.doc # None /\ q.row # NoDocument
        /\ \/ /\ Owned(q, q.row)
              /\ Cardinality(audit \cup {Record(q)}) <= MaxAudit
              /\ \E t \in Titles : doc' = [doc EXCEPT ![q.doc].title = t]
              /\ audit' = audit \cup {Record(q)}
           \/ /\ ~Owned(q, q.row)
              /\ UNCHANGED <<doc, audit>>
        /\ Return(r)
        /\ UNCHANGED ver

Next ==
    \E r \in Requests :
      \/ \E o \in Orgs :
           \/ Upload(r, o) \/ Find(r, o) \/ List(r, o)
           \/ \E d \in Docs : ReadAcross(r, o, d)
           \/ \E narrow \in Orgs \cup {None} : ListAcross(r, o, narrow)
      \/ Answer(r) \/ MatchLive(r) \/ Number(r) \/ Compare(r)
      \/ WriteUpload(r) \/ WriteUpdate(r)
      \/ CommitHeld(r) \/ CloseHeld(r) \/ UpdateHeld(r)

Spec == Init /\ [][Next]_vars

-----------------------------------------------------------------------------
TypeOK ==
    /\ doc \in [Docs -> Document]
    /\ ver \subseteq DocumentVersion
    /\ audit \subseteq AuditLog /\ Cardinality(audit) <= MaxAudit
    /\ req \in [Requests -> Request \cup {Idle}]

\* The table of documents, and of versions, as if no other organization had
\* any rows.
OnlyOf(D, o) == [d \in {x \in DOMAIN D : D[x].org = o} |-> D[d]]
OnlyVersionsOf(V, o) == {v \in V : v.org = o}

\* Across all its queries, a request of an organization's route is given rows
\* of that organization only; and the row it goes on to write is one of them.
RequestsKnowTheirOwn ==
    \A r \in Requests :
      AtWork(r) =>
        /\ \A d \in req[r].had : doc[d].org = req[r].org
        /\ req[r].pc = "write" /\ req[r].op # "upload" => req[r].row.org = req[r].org

\* Whatever an organization is answered, it would be answered if it were alone
\* in the database: another one's document is no different from one that does
\* not exist, its bytes are no duplicate and its numbers do not count
\* (org_scoped.py, repositories/documents.py).  And what its requests have
\* been given by then is its own.
AnswersStayInside ==
    /\ RequestsKnowTheirOwn
    /\ \A o \in Orgs :
         LET D == OnlyOf(doc, o)
             V == OnlyVersionsOf(ver, o)
         IN  /\ ListLive(doc, o) = ListLive(D, o)
             /\ CountLive(doc, o) = CountLive(D, o)
             /\ \A d \in Docs :
                  /\ GetLive(doc, o, d) = GetLive(D, o, d)
                  /\ ListForDocument(ver, o, d) = ListForDocument(V, o, d)
                  /\ NextVersionNumber(ver, o, d) = NextVersionNumber(V, o, d)
                  /\ \A n \in Numbers :
                       GetByNumber(ver, o, d, n) = GetByNumber(V, o, d, n)
             /\ \A h \in Hashes : FindByHash(ver, o, h) = FindByHash(V, o, h)

\* The organization is copied to every row, without a constraint: a document's
\* versions are in its organization, numbered once each up to the current one,
\* so that the current version can always be downloaded; and an audit row names
\* the organization of what was read, unless there was none to name then.
RowsBelongTogether ==
    /\ \A d \in Docs :
         LET of == {v \in ver : v.doc = d}
         IN  /\ \A v \in of : v.org = doc[d].org /\ v.number <= doc[d].current
             /\ \A n \in 1..doc[d].current : Cardinality({v \in of : v.number = n}) = 1
    /\ \A a \in audit : a.doc # None => a.org \in {None, doc[a.doc].org}

\* list_documents counts by a second query, without a snapshot of the first: the
\* total it would answer now is less than its page by no more than what others
\* have deleted of the page since.
TotalMissesOnlyDeleted ==
    \A r \in Requests : req[r].pc = "count" =>
      LET gone == {d \in req[r].had : doc[d].state = "deleted"}
      IN  Cardinality(req[r].had) <= CountLive(doc, req[r].org) + Cardinality(gone)

\* A step changes documents of one organization only, in which a request was
\* at work on that very document; no document changes organization, and a title
\* changes by renaming only: a request that loaded the row before a rename does
\* not write the former title back.
WritesStayInside ==
    [][\A d \in Docs :
         doc'[d] # doc[d] =>
           /\ doc[d].org \in {None, doc'[d].org}
           /\ \E r \in Requests :
                /\ AtWork(r) /\ req[r].doc = d /\ req[r].org = doc'[d].org
                /\ doc'[d].title # doc[d].title =>
                     doc[d] = NoDocument \/ req[r].op \in {"rename", "operator"}]_vars

\* What an organization downloads of its documents, oldest version first.
Downloads(o, d) ==
    [n \in 1..(IF doc[d].org = o THEN doc[d].current ELSE 0) |-> HashOf(ver, o, d, n)]

\* The promise of DocumentHistory, made to one organization.
PromiseTo(o) == INSTANCE DocumentHistory
                  WITH Contents <- Hashes,
                       revisions <- [d \in Docs |-> Downloads(o, d)],
                       live <- ListLive(doc, o)

\* Every organization has a history of its own, that only its own uploads and
\* deletions carry on: what one request committed, another one that loaded the
\* row before does not undo, and what the others do is no step at all.
EachHasItsHistory ==
    /\ \A o \in Orgs : PromiseTo(o)!Init
    /\ [][<<doc, ver>>' # <<doc, ver>> =>
            \A o \in Orgs : [PromiseTo(o)!Next]_(PromiseTo(o)!vars)]_vars

\* "Rename a document" (routes/v1/documents.py:204): a document can be given
\* either of two titles when its rename ends, whatever it is called by then.
RenameTakesEffect ==
    \A r \in Requests, t \in Titles :
      AtWork(r) /\ req[r].op = "rename" /\ req[r].pc = "write" =>
        Updated(req[r], t, doc[req[r].doc]).title = t

\* The total of a listing is "the count for the whole organization, not for the
\* page" (schemas/documents.py): it is never less than the page.
TotalCoversPage ==
    [][\A r \in Requests :
         req[r].pc = "count" /\ ~AtWork(r)' =>
           CountLive(doc, req[r].org) >= Cardinality(req[r].had)]_vars

\* "What is never recorded is also never read" (org_scoped.py:213).
ReadMeansRecorded ==
    [][\A r \in Requests :
         req[r].pc = "held" /\ ~AtWork(r)' => Record(req[r]) \in audit']_vars
=============================================================================
