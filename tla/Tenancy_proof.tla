---------------------------- MODULE Tenancy_proof ----------------------------
(***************************************************************************)
(* For every set of organizations, documents and requests: rows stay in    *)
(* their organization, requests see, hold and write their own, and every   *)
(* organization has the history of versions that DocumentHistory promises. *)
(***************************************************************************)
EXTENDS Tenancy, FiniteSetTheorems, SequenceTheorems, TLAPS

\* Versions are in the organization of their document, numbered once each up
\* to the current one.
RowsHold ==
    /\ \A d \in Docs : doc[d].org = None <=> doc[d] = NoDocument
    /\ \A d \in Docs : doc[d].org # None => doc[d].state # "none"
    /\ \A v \in ver : v.org = doc[v.doc].org /\ v.number <= doc[v.doc].current
    /\ \A d \in Docs : \A n \in 1..doc[d].current :
         \E v \in ver : v.doc = d /\ v.number = n
    /\ \A v, w \in ver : v.doc = w.doc /\ v.number = w.number => v = w

AuditHolds == \A a \in audit : a.doc # None => a.org \in {None, doc[a.doc].org}

\* The state q of a request fits the rows of documents.
Fits(q) ==
    /\ \A d \in q.had : doc[d].org = q.org
    /\ q.pc = "live" => q.op = "upload"
    /\ q.pc \in {"number", "compare"} => q.op = "add_version"
    /\ q.pc = "held" => q.op = "operator"
    /\ q.pc = "write" => q.op = "upload" \/ q.op \in DOMAIN After
    /\ q.op = "upload" => /\ q.doc \in Docs /\ q.hash \in Hashes
                          /\ doc[q.doc] = NoDocument
    /\ q.op \in DOMAIN After => /\ q.doc \in Docs
                                /\ doc[q.doc].org = q.org /\ q.row.org = q.org
    /\ q.op = "add_version" => q.hash \in Hashes
    /\ q.op = "add_version" /\ q.pc \in {"compare", "write"} =>
         q.number \in 1..doc[q.doc].current + 1
    /\ q.op = "operator" /\ q.doc # None => q.row.org \in {None, doc[q.doc].org}

\* No two uploads were given the same id.
UploadsApart ==
    \A r, s \in Requests :
      r # s /\ AtWork(r) /\ AtWork(s) /\ req[r].op = "upload" /\ req[s].op = "upload" =>
        req[r].doc # req[s].doc

Inv ==
    /\ TypeOK /\ RowsHold /\ AuditHolds /\ UploadsApart
    /\ \A r \in Requests : AtWork(r) => Fits(req[r])

-----------------------------------------------------------------------------
LEMMA RequestType ==
    ASSUME TypeOK, NEW r \in Requests, AtWork(r)
    PROVE  req[r] \in Request
BY DEF TypeOK, AtWork, Idle

LEMMA IdleType == Idle.pc = "idle" /\ Idle \notin Request
BY DEF Idle, Request

LEMMA AfterType ==
    ASSUME NEW op \in DOMAIN After
    PROVE  /\ op \in Endpoints /\ op # "operator" /\ op # "upload"
           /\ After[op] \in {"number", "write", "select"}
           /\ After[op] = "number" => op = "add_version"
           /\ op = "add_version" => After[op] = "number"
BY DEF After, Endpoints, Declares

LEMMA OperatorIsNone ==
    /\ "operator" \notin Endpoints /\ "operator" \notin DOMAIN After
    /\ {"upload", "list", "add_version", "rename", "delete"} \subseteq Endpoints
    /\ "upload" \notin DOMAIN After /\ "list" \notin DOMAIN After
    /\ {"add_version", "rename", "delete"} \subseteq DOMAIN After
BY DEF After, Endpoints, Declares

LEMMA NoDocumentType == NoDocument \in Document /\ NoDocument.org = None /\ NoDocument.current = 0
BY TenancyAssumption DEF NoDocument, Document, States

LEMMA BeganType ==
    ASSUME NEW op \in Endpoints \cup {"operator"},
           NEW pc \in {"live", "number", "compare", "select", "count", "write", "held"},
           NEW o \in Orgs, NEW d \in Docs \cup {None}, NEW h \in Hashes \cup {None},
           NEW row \in Document, NEW had \in SUBSET Docs
    PROVE  LET q == Began(op, pc, o, d, h, row, had)
           IN  /\ q \in Request /\ q.pc = pc /\ q.op = op /\ q.org = o /\ q.doc = d
               /\ q.hash = h /\ q.row = row /\ q.had = had
<1>1. 0 \in 0..MaxVersion
  BY TenancyAssumption
<1> QED BY <1>1 DEF Began, Request

LEMMA GotoType ==
    ASSUME NEW q \in Request, NEW pc \in {"compare", "write"}, NEW n \in 0..MaxVersion
    PROVE  /\ [q EXCEPT !.pc = pc] \in Request
           /\ [q EXCEPT !.pc = pc].pc = pc
           /\ [q EXCEPT !.pc = pc, !.number = n] \in Request
BY DEF Request

\* The next number is one past the current one.
LEMMA NextIsCurrent ==
    ASSUME TypeOK, RowsHold, NEW d \in Docs
    PROVE  NextVersionNumber(ver, doc[d].org, d) = doc[d].current + 1
<1> DEFINE S == {v.number : v \in {w \in ver : w.org = doc[d].org /\ w.doc = d}} \cup {0}
           c == doc[d].current
<1>1. c \in Nat
  BY TenancyAssumption DEF TypeOK, Document
<1>2. S \subseteq Nat /\ \A n \in S : n <= c
  BY <1>1 DEF TypeOK, RowsHold, DocumentVersion, Numbers
<1>3. c \in S
  BY <1>1 DEF RowsHold
<1>4. Max(S) = CHOOSE x \in S : \A y \in S : x >= y
  BY DEF Max
<1> HIDE DEF S, c
<1>5. \A x \in S : (\A y \in S : x >= y) => x = c
  BY <1>1, <1>2, <1>3
<1>6. c \in S /\ \A y \in S : c >= y
  BY <1>1, <1>2, <1>3
<1>7. Max(S) = c
  BY <1>4, <1>5, <1>6
<1> QED BY <1>7 DEF NextVersionNumber, S, c

-----------------------------------------------------------------------------
LEMMA InvInit == Init => Inv
<1> SUFFICES ASSUME Init PROVE Inv
  OBVIOUS
<1>1. TypeOK
  <2>1. Cardinality({}) = 0
    BY FS_EmptySet
  <2> QED BY <2>1, TenancyAssumption, NoDocumentType DEF Init, TypeOK
<1>2. \A r \in Requests : ~AtWork(r)
  BY IdleType DEF Init, AtWork
<1>3. RowsHold
  BY NoDocumentType DEF Init, RowsHold
<1> QED BY <1>1, <1>2, <1>3 DEF Inv, AuditHolds, UploadsApart, Init

\* A request goes on to e; the rows stay.
LEMMA GoesOnKeeps ==
    ASSUME Inv, NEW r \in Requests, NEW e \in Request,
           req' = [req EXCEPT ![r] = e], UNCHANGED <<doc, ver, audit>>, Fits(e),
           e.op = "upload" => \A s \in Requests \ {r} :
             AtWork(s) /\ req[s].op = "upload" => req[s].doc # e.doc
    PROVE  Inv'
<1>1. req \in [Requests -> Request \cup {Idle}]
  BY DEF Inv, TypeOK
<1>2. /\ req' \in [Requests -> Request \cup {Idle}] /\ req'[r] = e
      /\ \A s \in Requests \ {r} : req'[s] = req[s]
  BY <1>1
<1>3. TypeOK' /\ RowsHold' /\ AuditHolds'
  BY <1>2 DEF Inv, TypeOK, RowsHold, AuditHolds
<1>4. \A s \in Requests \ {r} : AtWork(s)' <=> AtWork(s)
  BY <1>2 DEF AtWork
<1>5. UploadsApart'
  BY <1>2, <1>4 DEF Inv, UploadsApart
<1>6. ASSUME NEW s \in Requests, AtWork(s)' PROVE Fits(req[s])'
  <2>1. Fits(req'[s])
    BY <1>2, <1>4, <1>6 DEF Inv
  <2> QED BY <2>1 DEF Fits
<1> QED BY <1>3, <1>5, <1>6 DEF Inv

LEMMA ReturnKeeps ==
    ASSUME Inv, NEW r \in Requests, Return(r), UNCHANGED <<doc, ver, audit>>
    PROVE  Inv'
<1>1. req \in [Requests -> Request \cup {Idle}]
  BY DEF Inv, TypeOK
<1>2. /\ req' \in [Requests -> Request \cup {Idle}] /\ req'[r] = Idle
      /\ \A s \in Requests \ {r} : req'[s] = req[s]
  BY <1>1 DEF Return
<1>3. TypeOK' /\ RowsHold' /\ AuditHolds'
  BY <1>2 DEF Inv, TypeOK, RowsHold, AuditHolds
<1>4. ~AtWork(r)' /\ \A s \in Requests \ {r} : AtWork(s)' <=> AtWork(s)
  BY <1>2, IdleType DEF AtWork
<1>5. UploadsApart'
  BY <1>2, <1>4 DEF Inv, UploadsApart
<1>6. ASSUME NEW s \in Requests, AtWork(s)' PROVE Fits(req[s])'
  <2>1. Fits(req'[s])
    BY <1>2, <1>4, <1>6 DEF Inv
  <2> QED BY <2>1 DEF Fits
<1> QED BY <1>3, <1>5, <1>6 DEF Inv

-----------------------------------------------------------------------------
\* What a request has at its first query fits.
LEMMA FindInv == ASSUME Inv, NEW r \in Requests, NEW o \in Orgs, Find(r, o) PROVE Inv'
<1>1. PICK op \in DOMAIN After, d \in Docs, h \in Hashes \cup {None} :
        /\ Begin(r, op)
        /\ (h # None) = (op = "add_version")
        /\ \E row \in GetLive(doc, o, d) :
             req' = [req EXCEPT ![r] = Began(op, After[op], o, d, h, row, {d})]
  BY DEF Find
<1>2. /\ doc[d].org = o /\ doc[d] \in Document
      /\ req' = [req EXCEPT ![r] = Began(op, After[op], o, d, h, doc[d], {d})]
  BY <1>1 DEF GetLive, Inv, TypeOK
<1>3. op = "add_version" => h \in Hashes
  BY <1>1
<1>4. /\ op \in Endpoints /\ op # "operator" /\ op # "upload"
      /\ After[op] \in {"number", "write", "select"}
      /\ After[op] = "number" <=> op = "add_version"
  BY AfterType
<1> DEFINE e == Began(op, After[op], o, d, h, doc[d], {d})
<1>5. {d} \in SUBSET Docs
  OBVIOUS
<1>6. /\ e \in Request /\ e.pc = After[op] /\ e.op = op /\ e.org = o /\ e.doc = d
      /\ e.hash = h /\ e.row = doc[d] /\ e.had = {d}
  BY <1>2, <1>4, <1>5, BeganType
<1>7. UNCHANGED <<doc, ver, audit>>
  BY <1>1 DEF Begin
<1>8. req' = [req EXCEPT ![r] = e]
  BY <1>2
<1> HIDE DEF e
<1>9. Fits(e)
  BY <1>2, <1>3, <1>4, <1>6, <1>7 DEF Fits
<1> QED BY <1>4, <1>6, <1>7, <1>8, <1>9, GoesOnKeeps

LEMMA ListInv == ASSUME Inv, NEW r \in Requests, NEW o \in Orgs, List(r, o) PROVE Inv'
<1>1. PICK had \in SUBSET ListLive(doc, o) :
        req' = [req EXCEPT ![r] = Began("list", "count", o, None, None, NoDocument, had)]
  BY DEF List
<1> DEFINE e == Began("list", "count", o, None, None, NoDocument, had)
<1>2. had \in SUBSET Docs /\ \A x \in had : doc[x].org = o
  BY DEF ListLive, Inv, TypeOK
<1>3. "list" \in Endpoints /\ "list" \notin DOMAIN After
  BY OperatorIsNone
<1>4. e \in Request /\ e.pc = "count" /\ e.op = "list" /\ e.org = o /\ e.had = had
  BY <1>2, <1>3, BeganType, NoDocumentType
<1>5. UNCHANGED <<doc, ver, audit>>
  BY DEF List, Begin
<1>6. req' = [req EXCEPT ![r] = e]
  BY <1>1
<1> HIDE DEF e
<1>7. Fits(e)
  BY <1>2, <1>3, <1>4 DEF Fits
<1> QED BY <1>4, <1>5, <1>6, <1>7, GoesOnKeeps

LEMMA UploadInv == ASSUME Inv, NEW r \in Requests, NEW o \in Orgs, Upload(r, o) PROVE Inv'
<1>1. PICK d \in Docs, h \in Hashes :
        /\ Fresh(d)
        /\ \/ req' = [req EXCEPT ![r] =
                   Began("upload", "write", o, d, h, NoDocument, {})]
           \/ \E v \in FindByHash(ver, o, h) : req' = [req EXCEPT ![r] =
                   Began("upload", "live", o, d, h, NoDocument, {v.doc})]
  BY DEF Upload
<1>2. \A v \in FindByHash(ver, o, h) : v.doc \in Docs /\ doc[v.doc].org = o
  BY DEF FindByHash, Inv, TypeOK, RowsHold, DocumentVersion
<1>3. PICK pc \in {"write", "live"}, had \in SUBSET Docs :
        /\ \A x \in had : doc[x].org = o
        /\ req' = [req EXCEPT ![r] = Began("upload", pc, o, d, h, NoDocument, had)]
  BY <1>1, <1>2
<1> DEFINE e == Began("upload", pc, o, d, h, NoDocument, had)
<1>4. "upload" \in Endpoints /\ "upload" \notin DOMAIN After
  BY OperatorIsNone
<1>5. /\ e \in Request /\ e.pc = pc /\ e.op = "upload" /\ e.org = o /\ e.doc = d
      /\ e.hash = h /\ e.had = had
  BY <1>4, BeganType, NoDocumentType
<1>6. UNCHANGED <<doc, ver, audit>>
  BY DEF Upload, Begin
<1>7. req' = [req EXCEPT ![r] = e]
  BY <1>3
<1> HIDE DEF e
<1>8. Fits(e)
  BY <1>1, <1>3, <1>4, <1>5, <1>6 DEF Fits, Fresh
<1>9. \A s \in Requests \ {r} : AtWork(s) => req[s].doc # e.doc
  BY <1>1, <1>5 DEF Fresh
<1> QED BY <1>5, <1>6, <1>7, <1>8, <1>9, GoesOnKeeps

\* An operator's request.
LEMMA OperatorInv ==
    ASSUME Inv, NEW r \in Requests, NEW o \in Orgs, NEW d \in Docs \cup {None},
           NEW row \in Document, Begin(r, "operator"),
           d # None => row.org \in {None, doc[d].org},
           req' = [req EXCEPT ![r] = Began("operator", "held", o, d, None, row, {})]
    PROVE  Inv'
<1> DEFINE e == Began("operator", "held", o, d, None, row, {})
<1>1. "operator" \notin DOMAIN After
  BY OperatorIsNone
<1>2. {} \in SUBSET Docs
  OBVIOUS
<1>3. /\ e \in Request /\ e.pc = "held" /\ e.op = "operator" /\ e.org = o /\ e.doc = d
      /\ e.had = {} /\ e.row = row
  BY <1>2, BeganType
<1>4. UNCHANGED <<doc, ver, audit>>
  BY DEF Begin
<1>5. req' = [req EXCEPT ![r] = e]
  OBVIOUS
<1> HIDE DEF e
<1>6. Fits(e)
  BY <1>1, <1>3 DEF Fits
<1> QED BY <1>3, <1>4, <1>5, <1>6, GoesOnKeeps

LEMMA AcrossInv ==
    ASSUME Inv, NEW r \in Requests, NEW o \in Orgs,
           \/ \E d \in Docs : ReadAcross(r, o, d)
           \/ \E narrow \in Orgs \cup {None} : ListAcross(r, o, narrow)
    PROVE  Inv'
<1>1. ASSUME NEW d \in Docs, ReadAcross(r, o, d) PROVE Inv'
  <2>1. doc[d] \in Document
    BY DEF Inv, TypeOK
  <2>2. Begin(r, "operator") /\ req' = [req EXCEPT ![r] =
          Began("operator", "held", o, d, None, doc[d], {})]
    BY <1>1 DEF ReadAcross
  <2> QED BY <2>1, <2>2, OperatorInv
<1>2. ASSUME NEW narrow \in Orgs \cup {None}, ListAcross(r, o, narrow) PROVE Inv'
  <2> DEFINE row == [NoDocument EXCEPT !.org = narrow]
  <2>1. row \in Document
    BY NoDocumentType DEF Document
  <2>2. Begin(r, "operator") /\ req' = [req EXCEPT ![r] =
          Began("operator", "held", o, None, None, row, {})]
    BY <1>2 DEF ListAcross
  <2> HIDE DEF row
  <2> QED BY <2>1, <2>2, OperatorInv
<1> QED BY <1>1, <1>2

LEMMA AnswerInv == ASSUME Inv, NEW r \in Requests, Answer(r) PROVE Inv'
BY ReturnKeeps DEF Answer

\* A request that goes on with what it has.
LEMMA GotoKeeps ==
    ASSUME Inv, NEW r \in Requests, req[r].pc \in {"live", "compare"},
           Goto(r, "write"), UNCHANGED <<doc, ver, audit>>
    PROVE  Inv'
<1> DEFINE q == req[r]
           e == [q EXCEPT !.pc = "write"]
<1>1. AtWork(r) /\ q \in Request /\ Fits(q)
  BY RequestType DEF AtWork, Inv
<1>2. /\ e \in Request /\ e.pc = "write" /\ e.op = q.op /\ e.org = q.org /\ e.doc = q.doc
      /\ e.hash = q.hash /\ e.row = q.row /\ e.had = q.had
      /\ e.number = q.number
  BY <1>1 DEF Request
<1>3. q.op = "add_version" => q.pc = "compare"
  BY <1>1 DEF Fits
<1>4. req' = [req EXCEPT ![r] = e]
  BY DEF Goto, Inv, TypeOK
<1>5. q.op # "operator"
  BY <1>1 DEF Fits
<1> HIDE DEF e
<1>6. Fits(e)
  BY <1>1, <1>2, <1>3, <1>5, OperatorIsNone DEF Fits
<1>7. e.op = "upload" => \A s \in Requests \ {r} :
        AtWork(s) /\ req[s].op = "upload" => req[s].doc # e.doc
  BY <1>1, <1>2 DEF Inv, UploadsApart
<1> QED BY <1>2, <1>4, <1>6, <1>7, GoesOnKeeps

LEMMA MatchLiveInv == ASSUME Inv, NEW r \in Requests, MatchLive(r) PROVE Inv'
BY ReturnKeeps, GotoKeeps DEF MatchLive

LEMMA CompareInv == ASSUME Inv, NEW r \in Requests, Compare(r) PROVE Inv'
BY ReturnKeeps, GotoKeeps DEF Compare

LEMMA NumberInv == ASSUME Inv, NEW r \in Requests, Number(r) PROVE Inv'
<1> DEFINE q == req[r]
           n == NextVersionNumber(ver, q.org, q.doc)
           e == [q EXCEPT !.pc = "compare", !.number = n]
<1>1. AtWork(r) /\ q \in Request /\ Fits(q) /\ q.op = "add_version"
  BY RequestType DEF AtWork, Inv, Number, Fits
<1>2. q.doc \in Docs /\ doc[q.doc].org = q.org /\ q.row.org = q.org
  BY <1>1, OperatorIsNone DEF Fits
<1>3. n = doc[q.doc].current + 1
  BY <1>2, NextIsCurrent DEF Inv
<1>4. doc[q.doc].current \in Nat
  BY <1>2 DEF Inv, TypeOK, Document
<1>5. n <= MaxVersion /\ req' = [req EXCEPT ![r] = [@ EXCEPT !.pc = "compare", !.number = n]]
      /\ UNCHANGED <<doc, ver, audit>>
  BY DEF Number, Inv, TypeOK
<1>6. n \in 0..MaxVersion /\ n \in 1..doc[q.doc].current + 1
  BY <1>3, <1>4, <1>5, TenancyAssumption
<1> HIDE DEF n
<1>7. /\ e \in Request /\ e.pc = "compare" /\ e.op = q.op /\ e.org = q.org /\ e.doc = q.doc
      /\ e.hash = q.hash /\ e.row = q.row /\ e.had = q.had
      /\ e.number = n
  BY <1>1, <1>6 DEF Request
<1>8. req' = [req EXCEPT ![r] = e]
  BY <1>5 DEF Inv, TypeOK
<1> HIDE DEF e
<1>9. Fits(e)
  BY <1>1, <1>6, <1>7 DEF Fits
<1> QED BY <1>1, <1>5, <1>7, <1>8, <1>9, GoesOnKeeps

-----------------------------------------------------------------------------
\* The steps that write.

\* A request ends; rows stay in their organization and versions only go up.
LEMMA OthersFit ==
    ASSUME Inv, NEW r \in Requests, Return(r),
           \A x \in Docs : /\ doc[x].org # None => doc'[x].org = doc[x].org
                           /\ doc[x].current <= doc'[x].current,
           \A x \in Docs : doc[x].current \in Nat /\ doc'[x].current \in Nat,
           \A s \in Requests \ {r} :
             AtWork(s) /\ req[s].op = "upload" => doc'[req[s].doc] = doc[req[s].doc]
    PROVE  /\ req' \in [Requests -> Request \cup {Idle}] /\ UploadsApart'
           /\ \A s \in Requests : AtWork(s)' => Fits(req[s])'
<1>1. req \in [Requests -> Request \cup {Idle}]
  BY DEF Inv, TypeOK
<1>2. /\ req' \in [Requests -> Request \cup {Idle}] /\ req'[r] = Idle
      /\ \A s \in Requests \ {r} : req'[s] = req[s]
  BY <1>1 DEF Return
<1>3. ~AtWork(r)' /\ \A s \in Requests \ {r} : AtWork(s)' <=> AtWork(s)
  BY <1>2, IdleType DEF AtWork
<1>4. UploadsApart'
  BY <1>2, <1>3 DEF Inv, UploadsApart
<1>5. ASSUME NEW s \in Requests, AtWork(s)' PROVE Fits(req[s])'
  <2> DEFINE q == req[s]
  <2>1. s # r /\ AtWork(s) /\ req'[s] = q
    BY <1>2, <1>3, <1>5
  <2>2. q \in Request /\ Fits(q)
    BY <2>1, RequestType DEF Inv
  <2>3. q.org \in Orgs /\ q.org # None /\ q.had \subseteq Docs /\ q.doc \in Docs \cup {None}
    BY <2>2, TenancyAssumption DEF Request
  <2>4. q.op = "upload" => doc'[q.doc] = doc[q.doc]
    BY <2>1
  <2>5. \A n \in Nat, x \in Docs : n \in 1..doc[x].current + 1 => n \in 1..doc'[x].current + 1
    OBVIOUS
  <2>6. q.number \in Nat
    BY <2>2, TenancyAssumption DEF Request
  <2>7. "add_version" \in DOMAIN After
    BY OperatorIsNone
  <2> HIDE DEF q
  <2>8. q.op = "add_version" /\ q.pc \in {"compare", "write"} =>
          q.number \in 1..doc'[q.doc].current + 1
    BY <2>2, <2>5, <2>6, <2>7 DEF Fits
  <2>9. \A x \in q.had : doc'[x].org = q.org
    BY <2>2, <2>3 DEF Fits
  <2>10. q.op \in DOMAIN After => doc'[q.doc].org = q.org
    BY <2>2, <2>3 DEF Fits
  <2>11. q.op = "operator" /\ q.doc # None => q.row.org \in {None, doc'[q.doc].org}
    BY <2>2, <2>3 DEF Fits
  <2>12. Fits(q)'
    BY <2>1, <2>2, <2>4, <2>8, <2>9, <2>10, <2>11 DEF Fits, q
  <2> QED BY <2>12 DEF q
<1> QED BY <1>2, <1>4, <1>5

\* Audit rows name the organization they did, if documents stay in theirs.
LEMMA AuditStays ==
    ASSUME Inv, NEW a \in audit, a.doc # None,
           \A x \in Docs : doc[x].org # None => doc'[x].org = doc[x].org
    PROVE  a.org \in {None, doc'[a.doc].org}
<1>1. a.doc \in Docs
  BY DEF Inv, TypeOK, AuditLog
<1> QED BY <1>1 DEF Inv, AuditHolds

LEMMA WriteUploadInv == ASSUME Inv, NEW r \in Requests, WriteUpload(r) PROVE Inv'
<1> DEFINE q == req[r]
           d == q.doc
           v1 == NewVersion(q, 1)
<1>1. AtWork(r) /\ q \in Request /\ Fits(q) /\ q.op = "upload" /\ q.org \in Orgs
  BY RequestType DEF AtWork, Inv, WriteUpload, Request
<1>2. d \in Docs /\ q.hash \in Hashes /\ doc[d] = NoDocument
  BY <1>1 DEF Fits
<1>3. PICK t \in Titles : doc' = [doc EXCEPT ![d] = [org |-> q.org, state |-> "live",
                                                     title |-> t, current |-> 1]]
  BY DEF WriteUpload
<1>4. ver' = ver \cup {v1} /\ Return(r) /\ audit' = audit
  BY DEF WriteUpload
<1>5. doc \in [Docs -> Document] /\ 1 \in 0..MaxVersion /\ 1 \in Numbers
  BY TenancyAssumption DEF Inv, TypeOK, Numbers
<1>6. /\ doc'[d] \in Document /\ doc'[d].org = q.org /\ doc'[d].current = 1
      /\ doc'[d].state = "live"
      /\ \A x \in Docs \ {d} : doc'[x] = doc[x]
  BY <1>1, <1>2, <1>3, <1>5 DEF Document, States
<1>7. doc' \in [Docs -> Document]
  BY <1>2, <1>3, <1>5, <1>6
<1>8. v1 \in DocumentVersion /\ v1.org = q.org /\ v1.doc = d /\ v1.number = 1
  BY <1>1, <1>2, <1>5 DEF NewVersion, DocumentVersion
<1> HIDE DEF v1
<1>9. \A x \in Docs : /\ doc[x].org # None => doc'[x].org = doc[x].org
                      /\ doc[x].current \in Nat /\ doc'[x].current \in Nat
                      /\ doc[x].current <= doc'[x].current
  <2>1. \A x \in Docs : doc[x].current \in Nat /\ doc'[x].current \in Nat
    BY <1>5, <1>7, TenancyAssumption DEF Document
  <2> QED BY <2>1, <1>2, <1>6, NoDocumentType
<1>10. \A s \in Requests \ {r} :
         AtWork(s) /\ req[s].op = "upload" => doc'[req[s].doc] = doc[req[s].doc]
  <2> SUFFICES ASSUME NEW s \in Requests \ {r}, AtWork(s), req[s].op = "upload"
               PROVE  doc'[req[s].doc] = doc[req[s].doc]
    OBVIOUS
  <2>1. Fits(req[s]) /\ req[s].doc # d
    BY <1>1 DEF Inv, UploadsApart
  <2>2. req[s].doc \in Docs
    BY <2>1 DEF Fits
  <2> QED BY <2>1, <2>2, <1>6
<1>11. \A v \in ver : v.doc \in Docs /\ v.doc # d
  <2>1. \A v \in ver : v.org # None /\ v.doc \in Docs
    BY TenancyAssumption DEF Inv, TypeOK, DocumentVersion
  <2> QED BY <2>1, <1>2, NoDocumentType DEF Inv, RowsHold
<1>12. RowsHold'
  <2>1. \A x \in Docs : doc'[x].org = None <=> doc'[x] = NoDocument
    BY <1>1, <1>6, TenancyAssumption, NoDocumentType DEF Inv, RowsHold
  <2>2. \A v \in ver' : v.org = doc'[v.doc].org /\ v.number <= doc'[v.doc].current
    BY <1>4, <1>6, <1>8, <1>11 DEF Inv, RowsHold
  <2>3. ASSUME NEW x \in Docs, NEW n \in 1..doc'[x].current
        PROVE  \E v \in ver' : v.doc = x /\ v.number = n
    <3>1. CASE x = d
      BY <1>4, <1>6, <1>8, <2>3, <3>1
    <3>2. CASE x # d
      BY <1>4, <1>6, <2>3, <3>2 DEF Inv, RowsHold
    <3> QED BY <3>1, <3>2
  <2>4. \A v, w \in ver' : v.doc = w.doc /\ v.number = w.number => v = w
    BY <1>4, <1>8, <1>11 DEF Inv, RowsHold
  <2>5. \A x \in Docs : doc'[x].org # None => doc'[x].state # "none"
    BY <1>6 DEF Inv, RowsHold
  <2> QED BY <2>1, <2>2, <2>3, <2>4, <2>5 DEF RowsHold
<1>13. AuditHolds'
  BY <1>4, <1>9, AuditStays DEF AuditHolds
<1>14. /\ req' \in [Requests -> Request \cup {Idle}] /\ UploadsApart'
       /\ \A s \in Requests : AtWork(s)' => Fits(req[s])'
  BY <1>4, <1>9, <1>10, OthersFit
<1>15. TypeOK'
  BY <1>4, <1>7, <1>8, <1>14 DEF Inv, TypeOK
<1> QED BY <1>12, <1>13, <1>14, <1>15 DEF Inv

\* The columns of a document of the organization are assigned.
LEMMA UpdateKeeps ==
    ASSUME Inv, NEW r \in Requests, NEW d \in Docs, doc[d].org # None,
           NEW row \in Document, row.org = doc[d].org,
           doc[d].current <= row.current, row.state # "none",
           doc' = [doc EXCEPT ![d] = row], Return(r)
    PROVE  /\ doc' \in [Docs -> Document]
           /\ doc'[d] = row /\ \A x \in Docs \ {d} : doc'[x] = doc[x]
           /\ \A x \in Docs : doc[x].org # None => doc'[x].org = doc[x].org
           /\ \A x \in Docs : doc'[x].org = None <=> doc'[x] = NoDocument
           /\ \A x \in Docs : doc'[x].org # None => doc'[x].state # "none"
           /\ \A x \in Docs : doc[x].current \in Nat /\ doc'[x].current \in Nat
           /\ \A x \in Docs : doc[x].current <= doc'[x].current
           /\ \A a \in audit : a.doc # None => a.org \in {None, doc'[a.doc].org}
           /\ req' \in [Requests -> Request \cup {Idle}] /\ UploadsApart'
           /\ \A s \in Requests : AtWork(s)' => Fits(req[s])'
<1>1. doc \in [Docs -> Document]
  BY DEF Inv, TypeOK
<1>2. /\ doc' \in [Docs -> Document]
      /\ doc'[d] = row /\ \A x \in Docs \ {d} : doc'[x] = doc[x]
  BY <1>1
<1>3. \A x \in Docs : doc[x].org # None => doc'[x].org = doc[x].org
  BY <1>2
<1>4. \A x \in Docs : doc'[x].org = None <=> doc'[x] = NoDocument
  BY <1>2, NoDocumentType DEF Inv, RowsHold
<1>5. \A x \in Docs : doc[x].current \in Nat /\ doc'[x].current \in Nat
  BY <1>1, <1>2, TenancyAssumption DEF Document
<1>6. \A x \in Docs : doc[x].current <= doc'[x].current
  BY <1>2, <1>5
<1>7. \A a \in audit : a.doc # None => a.org \in {None, doc'[a.doc].org}
  BY <1>3, AuditStays
<1>8. \A s \in Requests \ {r} :
        AtWork(s) /\ req[s].op = "upload" => doc'[req[s].doc] = doc[req[s].doc]
  <2> SUFFICES ASSUME NEW s \in Requests \ {r}, AtWork(s), req[s].op = "upload"
               PROVE  doc'[req[s].doc] = doc[req[s].doc]
    OBVIOUS
  <2>1. req[s].doc \in Docs /\ doc[req[s].doc] = NoDocument
    BY DEF Inv, Fits
  <2> QED BY <2>1, <1>2, NoDocumentType
<1>9. /\ req' \in [Requests -> Request \cup {Idle}] /\ UploadsApart'
      /\ \A s \in Requests : AtWork(s)' => Fits(req[s])'
  BY <1>3, <1>5, <1>6, <1>8, OthersFit
<1>10. \A x \in Docs : doc'[x].org # None => doc'[x].state # "none"
  BY <1>2 DEF Inv, RowsHold
<1> QED BY <1>2, <1>3, <1>4, <1>5, <1>6, <1>7, <1>9, <1>10

\* The versions after a write that adds none, or the next one of d.
LEMMA WriteUpdateInv == ASSUME Inv, NEW r \in Requests, WriteUpdate(r) PROVE Inv'
<1> DEFINE q == req[r]
           d == q.doc
           v1 == NewVersion(q, q.number)
<1>1. /\ AtWork(r) /\ q \in Request /\ Fits(q) /\ q.pc = "write"
      /\ q.op \in {"add_version", "rename", "delete"} /\ q.org \in Orgs
      /\ Return(r) /\ audit' = audit
  BY RequestType DEF AtWork, Inv, WriteUpdate, Request
<1>2. d \in Docs /\ doc[d].org = q.org /\ q.org # None
  BY <1>1, OperatorIsNone, TenancyAssumption DEF Fits
<1>3. CASE UNCHANGED <<doc, ver>>
  BY <1>1, <1>3, ReturnKeeps
<1>4. ASSUME ~(q.op = "add_version" /\ Taken(q)),
             NEW t \in Titles, doc' = [doc EXCEPT ![d] = Updated(q, t, @)],
             ver' = IF q.op = "add_version" THEN ver \cup {v1} ELSE ver
      PROVE  Inv'
  <2> DEFINE row == Updated(q, t, doc[d])
  <2>1. doc[d] \in Document /\ doc[d].current \in Nat /\ q.number \in Nat
    BY <1>1, <1>2, TenancyAssumption DEF Inv, TypeOK, Document, Request
  <2>2. q.number \in 0..MaxVersion
    BY <1>1 DEF Request
  <2>3. row \in Document /\ row.org = doc[d].org
        /\ row.current = IF q.op = "add_version" THEN q.number ELSE doc[d].current
    BY <2>1, <2>2 DEF Updated, Document, States
  <2>4. q.op = "add_version" => q.number = doc[d].current + 1 /\ q.hash \in Hashes
    <3>1. SUFFICES ASSUME q.op = "add_version"
                   PROVE  q.number = doc[d].current + 1 /\ q.hash \in Hashes
      OBVIOUS
    <3>2. q.number \in 1..doc[d].current + 1 /\ q.hash \in Hashes
      BY <1>1, <3>1 DEF Fits
    <3>3. q.number \notin 1..doc[d].current
      BY <1>2, <1>4, <3>1 DEF Taken, Inv, RowsHold
    <3> QED BY <2>1, <3>2, <3>3
  <2>4a. row.state # "none"
    BY <1>2, <2>1 DEF Updated, Document, Inv, RowsHold
  <2>5. doc[d].current <= row.current
    BY <2>1, <2>3, <2>4
  <2>6. doc' = [doc EXCEPT ![d] = row]
    BY <1>2, <1>4 DEF Inv, TypeOK
  <2> HIDE DEF row
  <2>7. /\ doc' \in [Docs -> Document]
        /\ doc'[d] = row /\ \A x \in Docs \ {d} : doc'[x] = doc[x]
        /\ \A x \in Docs : doc'[x].org = None <=> doc'[x] = NoDocument
        /\ \A x \in Docs : doc'[x].org # None => doc'[x].state # "none"
        /\ \A x \in Docs : doc[x].org # None => doc'[x].org = doc[x].org
        /\ \A x \in Docs : doc[x].current \in Nat /\ doc'[x].current \in Nat
        /\ \A x \in Docs : doc[x].current <= doc'[x].current
        /\ \A a \in audit : a.doc # None => a.org \in {None, doc'[a.doc].org}
        /\ req' \in [Requests -> Request \cup {Idle}] /\ UploadsApart'
        /\ \A s \in Requests : AtWork(s)' => Fits(req[s])'
    BY <1>1, <1>2, <2>3, <2>5, <2>6, <2>4a, UpdateKeeps
  <2>8. q.op = "add_version" =>
          v1 \in DocumentVersion /\ v1.org = q.org /\ v1.doc = d /\ v1.number = q.number
    BY <1>1, <1>2, <2>1, <2>2, <2>4 DEF NewVersion, DocumentVersion, Numbers
  <2> HIDE DEF v1
  <2>9. \A v \in ver : /\ v.doc \in Docs /\ v.number \in Nat
                       /\ v.org # None /\ v.org = doc[v.doc].org
                       /\ v.number <= doc[v.doc].current
    BY TenancyAssumption DEF Inv, TypeOK, RowsHold, DocumentVersion, Numbers
  <2>10. \A v \in ver' : v.org = doc'[v.doc].org /\ v.number <= doc'[v.doc].current
    <3>1. \A v \in ver : v.org = doc'[v.doc].org /\ v.number <= doc'[v.doc].current
      BY <2>7, <2>9
    <3>2. q.op = "add_version" => v1.org = doc'[v1.doc].org /\ v1.number <= doc'[v1.doc].current
      BY <1>2, <2>1, <2>3, <2>7, <2>8
    <3> QED BY <1>4, <3>1, <3>2
  <2>11. ASSUME NEW x \in Docs, NEW n \in 1..doc'[x].current
         PROVE  \E v \in ver' : v.doc = x /\ v.number = n
    <3>1. ver \subseteq ver' /\ (q.op = "add_version" => v1 \in ver')
      BY <1>4
    <3>2. CASE n \in 1..doc[x].current
      BY <3>1, <3>2 DEF Inv, RowsHold
    <3>3. CASE n \notin 1..doc[x].current
      <4>1. x = d /\ q.op = "add_version" /\ n = q.number
        BY <2>1, <2>3, <2>4, <2>7, <2>11, <3>3
      <4> QED BY <2>8, <3>1, <4>1
    <3> QED BY <3>2, <3>3
  <2>12. \A v, w \in ver' : v.doc = w.doc /\ v.number = w.number => v = w
    <3>1. q.op = "add_version" => \A v \in ver : ~(v.doc = d /\ v.number = q.number)
      BY <1>4 DEF Taken
    <3> QED BY <1>4, <2>8, <3>1 DEF Inv, RowsHold
  <2>13. TypeOK'
    BY <1>1, <1>4, <2>7, <2>8 DEF Inv, TypeOK
  <2> QED BY <1>1, <2>7, <2>10, <2>11, <2>12, <2>13 DEF Inv, RowsHold, AuditHolds
<1> QED BY <1>3, <1>4 DEF WriteUpdate

\* The operator's rows of the audit log.
LEMMA RecordType ==
    ASSUME Inv, NEW r \in Requests, req[r].pc = "held"
    PROVE  /\ Record(req[r]) \in AuditLog /\ AtWork(r)
           /\ req[r].op = "operator" /\ req[r] \in Request
           /\ Record(req[r]).doc = req[r].doc /\ Record(req[r]).org = req[r].row.org
           /\ req[r].doc # None => req[r].row.org \in {None, doc[req[r].doc].org}
<1>1. AtWork(r) /\ req[r] \in Request /\ Fits(req[r])
  BY RequestType DEF AtWork, Inv
<1>2. req[r].row.org \in Orgs \cup {None} /\ req[r].doc \in Docs \cup {None}
  BY <1>1 DEF Request, Document
<1>3. Record(req[r]) \in AuditLog
  BY <1>2 DEF Record, AuditLog
<1> QED BY <1>1, <1>3 DEF Fits, Record

LEMMA CommitHeldInv == ASSUME Inv, NEW r \in Requests, CommitHeld(r) PROVE Inv'
<1>1. /\ req[r].pc = "held" /\ Cardinality(audit \cup {Record(req[r])}) <= MaxAudit
      /\ audit' = audit \cup {Record(req[r])} /\ Return(r) /\ UNCHANGED <<doc, ver>>
  BY DEF CommitHeld
<1>2. \A x \in Docs : doc[x].current \in Nat
  BY TenancyAssumption DEF Inv, TypeOK, Document
<1>3. /\ req' \in [Requests -> Request \cup {Idle}] /\ UploadsApart'
      /\ \A s \in Requests : AtWork(s)' => Fits(req[s])'
  BY <1>1, <1>2, OthersFit
<1>4. TypeOK' /\ RowsHold'
  BY <1>1, <1>3, RecordType DEF Inv, TypeOK, RowsHold
<1>5. AuditHolds'
  BY <1>1, RecordType DEF Inv, AuditHolds
<1> QED BY <1>3, <1>4, <1>5 DEF Inv

LEMMA CloseHeldInv == ASSUME Inv, NEW r \in Requests, CloseHeld(r) PROVE Inv'
BY ReturnKeeps DEF CloseHeld

LEMMA UpdateHeldInv == ASSUME Inv, NEW r \in Requests, UpdateHeld(r) PROVE Inv'
<1> DEFINE q == req[r]
           d == q.doc
<1>1. q.pc = "held" /\ d # None /\ Return(r) /\ ver' = ver
  BY DEF UpdateHeld
<1>2. CASE UNCHANGED <<doc, audit>>
  BY <1>1, <1>2, ReturnKeeps
<1>3. ASSUME Owned(q, q.row), Cardinality(audit \cup {Record(q)}) <= MaxAudit,
             NEW t \in Titles, doc' = [doc EXCEPT ![d].title = t],
             audit' = audit \cup {Record(q)}
      PROVE  Inv'
  <2> DEFINE row == [doc[d] EXCEPT !.title = t]
  <2>1. /\ q \in Request /\ q.op = "operator" /\ Record(q) \in AuditLog
        /\ Record(q).doc = d /\ Record(q).org = q.row.org
        /\ q.row.org \in {None, doc[d].org} /\ d \in Docs /\ q.org \in Orgs
    BY <1>1, RecordType DEF Request
  <2>2. doc[d].org = q.org /\ doc[d].org # None
    BY <1>3, <2>1, TenancyAssumption DEF Owned
  <2>3. doc[d] \in Document /\ doc[d].current \in Nat
    BY <2>1, TenancyAssumption DEF Inv, TypeOK, Document
  <2>4. row \in Document /\ row.org = doc[d].org /\ row.current = doc[d].current
        /\ row.state # "none"
    BY <2>2, <2>1, <2>3 DEF Document, Inv, RowsHold
  <2>5. doc' = [doc EXCEPT ![d] = row]
    BY <1>3, <2>1 DEF Inv, TypeOK
  <2> HIDE DEF row
  <2>6. doc[d].current <= row.current
    BY <2>3, <2>4
  <2>7. /\ doc' \in [Docs -> Document]
        /\ doc'[d] = row /\ \A x \in Docs \ {d} : doc'[x] = doc[x]
        /\ \A x \in Docs : doc'[x].org = None <=> doc'[x] = NoDocument
        /\ \A x \in Docs : doc'[x].org # None => doc'[x].state # "none"
        /\ \A a \in audit : a.doc # None => a.org \in {None, doc'[a.doc].org}
        /\ req' \in [Requests -> Request \cup {Idle}] /\ UploadsApart'
        /\ \A s \in Requests : AtWork(s)' => Fits(req[s])'
    BY <1>1, <2>1, <2>2, <2>4, <2>5, <2>6, UpdateKeeps
  <2>8. \A x \in Docs : doc'[x].org = doc[x].org /\ doc'[x].current = doc[x].current
    BY <2>4, <2>7
  <2>9. \A v \in ver : v.doc \in Docs
    BY DEF Inv, TypeOK, DocumentVersion
  <2>10. RowsHold'
    BY <1>1, <2>7, <2>8, <2>9 DEF Inv, RowsHold
  <2>11. AuditHolds'
    BY <1>3, <2>1, <2>7, <2>8 DEF AuditHolds
  <2>12. TypeOK'
    BY <1>1, <1>3, <2>1, <2>7 DEF Inv, TypeOK
  <2> QED BY <2>7, <2>10, <2>11, <2>12 DEF Inv
<1> QED BY <1>2, <1>3 DEF UpdateHeld

LEMMA InvNext == Inv /\ [Next]_vars => Inv'
<1> SUFFICES ASSUME Inv, [Next]_vars PROVE Inv'
  OBVIOUS
<1>1. ASSUME NEW r \in Requests, NEW o \in Orgs,
             \/ Upload(r, o) \/ Find(r, o) \/ List(r, o)
             \/ \E d \in Docs : ReadAcross(r, o, d)
             \/ \E narrow \in Orgs \cup {None} : ListAcross(r, o, narrow)
      PROVE  Inv'
  BY <1>1, UploadInv, FindInv, ListInv, AcrossInv
<1>2. ASSUME NEW r \in Requests,
             \/ Answer(r) \/ MatchLive(r) \/ Number(r) \/ Compare(r)
             \/ WriteUpload(r) \/ WriteUpdate(r)
             \/ CommitHeld(r) \/ CloseHeld(r) \/ UpdateHeld(r)
      PROVE  Inv'
  BY <1>2, AnswerInv, MatchLiveInv, NumberInv, CompareInv, WriteUploadInv, WriteUpdateInv,
     CommitHeldInv, CloseHeldInv, UpdateHeldInv
<1>3. CASE UNCHANGED vars
  BY <1>3 DEF vars, Inv, TypeOK, RowsHold, AuditHolds, UploadsApart, Fits, AtWork
<1> QED BY <1>1, <1>2, <1>3 DEF Next

LEMMA InvAlways == Spec => []Inv
<1> QED BY InvInit, InvNext, PTL DEF Spec

-----------------------------------------------------------------------------
\* Rows, requests and the audit log keep their shapes.
THEOREM TenancyTypeCorrect == Spec => []TypeOK
<1>1. Inv => TypeOK
  BY DEF Inv
<1> QED BY <1>1, InvAlways, PTL

\* The rows of a document are in one organization and its versions are numbered
\* once each up to the current one; audit rows name the organization of what
\* was read.
THEOREM RowsStayTogether == Spec => []RowsBelongTogether
<1>1. ASSUME Inv PROVE RowsBelongTogether
  <2>1. ASSUME NEW d \in Docs, NEW v \in {w \in ver : w.doc = d}
        PROVE  v.org = doc[d].org /\ v.number <= doc[d].current
    BY <1>1, <2>1 DEF Inv, RowsHold
  <2>2. ASSUME NEW d \in Docs, NEW n \in 1..doc[d].current
        PROVE  Cardinality({v \in {w \in ver : w.doc = d} : v.number = n}) = 1
    <3> DEFINE S == {v \in {w \in ver : w.doc = d} : v.number = n}
    <3>1. PICK v \in ver : v.doc = d /\ v.number = n
      BY <1>1, <2>2 DEF Inv, RowsHold
    <3>2. S = {v}
      BY <1>1, <3>1 DEF Inv, RowsHold
    <3>3. Cardinality({v}) = 1
      BY FS_Singleton
    <3> QED BY <3>2, <3>3
  <2>3. \A a \in audit : a.doc # None => a.org \in {None, doc[a.doc].org}
    BY <1>1 DEF Inv, AuditHolds
  <2> QED BY <2>1, <2>2, <2>3 DEF RowsBelongTogether
<1> QED BY <1>1, InvAlways, PTL

\* An organization is answered as if it were alone in the database.
THEOREM AnswersHold == Spec => []AnswersStayInside
<1>1. ASSUME Inv PROVE AnswersStayInside
  <2>1. RequestsKnowTheirOwn
    <3> SUFFICES ASSUME NEW r \in Requests, AtWork(r)
                 PROVE  /\ \A d \in req[r].had : doc[d].org = req[r].org
                        /\ req[r].pc = "write" /\ req[r].op # "upload" =>
                             req[r].row.org = req[r].org
      BY DEF RequestsKnowTheirOwn
    <3> QED BY <1>1 DEF Inv, Fits
  <2>2. ASSUME NEW o \in Orgs
        PROVE  LET D == OnlyOf(doc, o)
                   V == OnlyVersionsOf(ver, o)
               IN  /\ ListLive(doc, o) = ListLive(D, o)
                   /\ CountLive(doc, o) = CountLive(D, o)
                   /\ \A d \in Docs :
                        /\ GetLive(doc, o, d) = GetLive(D, o, d)
                        /\ ListForDocument(ver, o, d) = ListForDocument(V, o, d)
                        /\ NextVersionNumber(ver, o, d) = NextVersionNumber(V, o, d)
                        /\ \A n \in Numbers :
                             GetByNumber(ver, o, d, n) = GetByNumber(V, o, d, n)
                   /\ \A h \in Hashes : FindByHash(ver, o, h) = FindByHash(V, o, h)
    <3> DEFINE D == OnlyOf(doc, o)
               V == OnlyVersionsOf(ver, o)
    <3>1. DOMAIN D = {x \in DOMAIN doc : doc[x].org = o} /\ \A x \in DOMAIN D : D[x] = doc[x]
      BY DEF OnlyOf
    <3>2. V = {v \in ver : v.org = o}
      BY DEF OnlyVersionsOf
    <3> HIDE DEF D, V
    <3>3. ListLive(doc, o) = ListLive(D, o)
      BY <3>1 DEF ListLive
    <3>4. CountLive(doc, o) = CountLive(D, o)
      BY <3>3 DEF CountLive
    <3>5. ASSUME NEW d \in Docs
          PROVE  /\ GetLive(doc, o, d) = GetLive(D, o, d)
                 /\ ListForDocument(ver, o, d) = ListForDocument(V, o, d)
                 /\ NextVersionNumber(ver, o, d) = NextVersionNumber(V, o, d)
                 /\ \A n \in Numbers : GetByNumber(ver, o, d, n) = GetByNumber(V, o, d, n)
      <4>1. GetLive(doc, o, d) = GetLive(D, o, d)
        BY <3>1 DEF GetLive
      <4>2. ListForDocument(ver, o, d) = ListForDocument(V, o, d)
        BY <3>2 DEF ListForDocument
      <4>3. {w \in ver : w.org = o /\ w.doc = d} = {w \in V : w.org = o /\ w.doc = d}
        BY <3>2
      <4>4. NextVersionNumber(ver, o, d) = NextVersionNumber(V, o, d)
        BY <4>3 DEF NextVersionNumber
      <4>5. \A n \in Numbers : GetByNumber(ver, o, d, n) = GetByNumber(V, o, d, n)
        BY <3>2 DEF GetByNumber
      <4> QED BY <4>1, <4>2, <4>4, <4>5
    <3>6. \A h \in Hashes : FindByHash(ver, o, h) = FindByHash(V, o, h)
      BY <3>2 DEF FindByHash
    <3> QED BY <3>3, <3>4, <3>5, <3>6 DEF D, V
  <2> QED BY <2>1, <2>2 DEF AnswersStayInside
<1> QED BY <1>1, InvAlways, PTL

\* The number of rows of a page, of the documents a count finds and of those
\* deleted in between.
LEMMA PageCount ==
    ASSUME TypeOK, NEW o \in Orgs, NEW page \in SUBSET Docs,
           \A d \in page : doc[d].org = o /\ doc[d].state # "none"
    PROVE  Cardinality(page) <=
             CountLive(doc, o) + Cardinality({d \in page : doc[d].state = "deleted"})
<1> DEFINE L == ListLive(doc, o)
           G == {d \in page : doc[d].state = "deleted"}
<1>1. IsFiniteSet(Docs) /\ L \subseteq Docs /\ G \subseteq Docs /\ page \subseteq L \cup G
  BY TenancyAssumption DEF TypeOK, ListLive, Document, States
<1> HIDE DEF L, G
<1>2. IsFiniteSet(L) /\ IsFiniteSet(G) /\ IsFiniteSet(L \cup G) /\ IsFiniteSet(L \cap G)
  BY <1>1, FS_Subset, FS_Union, FS_Intersection
<1>3. Cardinality(L \cup G) = Cardinality(L) + Cardinality(G) - Cardinality(L \cap G)
  BY <1>2, FS_Union
<1>4. /\ Cardinality(L) \in Nat /\ Cardinality(G) \in Nat
      /\ Cardinality(L \cap G) \in Nat /\ Cardinality(page) \in Nat
  BY <1>1, <1>2, FS_CardinalityType, FS_Subset
<1>5. Cardinality(page) <= Cardinality(L \cup G)
  BY <1>1, <1>2, FS_Subset
<1>6. Cardinality(page) <= Cardinality(L) + Cardinality(G)
  BY <1>3, <1>4, <1>5
<1> QED BY <1>6 DEF CountLive, L, G

\* A total leaves out nothing of the page it comes with but what was deleted
\* between the two queries: no other step takes a document from the listing.
THEOREM TotalsHold == Spec => []TotalMissesOnlyDeleted
<1>1. ASSUME Inv, NEW r \in Requests, req[r].pc = "count"
      PROVE  Cardinality(req[r].had) <=
               CountLive(doc, req[r].org)
                 + Cardinality({d \in req[r].had : doc[d].state = "deleted"})
  <2>1. AtWork(r) /\ Fits(req[r]) /\ req[r] \in Request
    BY <1>1, RequestType DEF AtWork, Inv
  <2>2. req[r].org \in Orgs /\ req[r].org # None /\ req[r].had \in SUBSET Docs
    BY <2>1, TenancyAssumption DEF Request
  <2>3. \A d \in req[r].had : doc[d].org = req[r].org /\ doc[d].state # "none"
    BY <1>1, <2>1, <2>2 DEF Fits, Inv, RowsHold
  <2> QED BY <1>1, <2>2, <2>3, PageCount DEF Inv
<1>2. Inv => TotalMissesOnlyDeleted
  BY <1>1 DEF TotalMissesOnlyDeleted
<1> QED BY <1>2, InvAlways, PTL

-----------------------------------------------------------------------------
\* What a step does to the row of one document.
LEMMA OneRow ==
    ASSUME Inv, [Next]_vars, NEW d \in Docs, doc'[d] # doc[d]
    PROVE  \E r \in Requests :
             /\ AtWork(r) /\ req[r].doc = d
             /\ \/ doc[d] = NoDocument /\ doc'[d].org = req[r].org
                \/ /\ req[r].op \in {"add_version", "rename", "delete", "operator"}
                   /\ doc[d].org = req[r].org /\ doc'[d].org = doc[d].org
                   /\ req[r].op \notin {"rename", "operator"} =>
                        doc'[d].title = doc[d].title
<1>1. PICK r \in Requests : WriteUpload(r) \/ WriteUpdate(r) \/ UpdateHeld(r)
  <2>1. Next
    BY DEF vars
  <2>2. ASSUME NEW r \in Requests, NEW o \in Orgs,
               \/ Upload(r, o) \/ Find(r, o) \/ List(r, o)
               \/ \E x \in Docs : ReadAcross(r, o, x)
               \/ \E narrow \in Orgs \cup {None} : ListAcross(r, o, narrow)
        PROVE  FALSE
    <3>1. \A op : Begin(r, op) => doc' = doc
      BY DEF Begin
    <3> QED BY <2>2, <3>1 DEF Upload, Find, List, ReadAcross, ListAcross
  <2>3. ASSUME NEW r \in Requests,
               \/ Answer(r) \/ MatchLive(r) \/ Number(r) \/ Compare(r)
               \/ CommitHeld(r) \/ CloseHeld(r)
        PROVE  FALSE
    BY <2>3 DEF Answer, MatchLive, Number, Compare, CommitHeld, CloseHeld
  <2> QED BY <2>1, <2>2, <2>3 DEF Next
<1> DEFINE q == req[r]
<1>2. AtWork(r) /\ q \in Request /\ Fits(q) /\ q.org \in Orgs
  BY <1>1, RequestType DEF AtWork, Inv, WriteUpload, WriteUpdate, UpdateHeld, Request
<1>3. doc \in [Docs -> Document]
  BY DEF Inv, TypeOK
<1>4. CASE WriteUpload(r)
  <2>1. q.doc \in Docs /\ doc[q.doc] = NoDocument
    BY <1>2, <1>4 DEF WriteUpload, Fits
  <2>2. PICK t \in Titles : doc' = [doc EXCEPT ![q.doc] =
          [org |-> q.org, state |-> "live", title |-> t, current |-> 1]]
    BY <1>4 DEF WriteUpload
  <2>3. d = q.doc /\ doc'[d].org = q.org
    BY <1>3, <2>1, <2>2
  <2> QED BY <1>2, <2>1, <2>3
<1>5. CASE WriteUpdate(r)
  <2>1. q.op \in {"add_version", "rename", "delete"} /\ q.pc = "write"
    BY <1>5 DEF WriteUpdate
  <2>2. q.doc \in Docs /\ doc[q.doc].org = q.org /\ q.number \in Nat
    BY <1>2, <2>1, OperatorIsNone, TenancyAssumption DEF Fits, Request
  <2>3. PICK t \in Titles : /\ doc' = [doc EXCEPT ![q.doc] = Updated(q, t, @)]
                            /\ ~(q.op = "add_version" /\ Taken(q))
    BY <1>5 DEF WriteUpdate
  <2>4. d = q.doc /\ doc'[d] = Updated(q, t, doc[d])
    BY <1>3, <2>2, <2>3
  <2>5. doc[d] \in Document
    BY <1>3
  <2>6. /\ doc'[d].org = doc[d].org
        /\ q.op # "rename" => doc'[d].title = doc[d].title
    BY <2>4, <2>5 DEF Updated, Document
  <2> QED BY <1>2, <2>1, <2>2, <2>4, <2>6
<1>6. CASE UpdateHeld(r)
  <2>1. /\ q.pc = "held" /\ q.op = "operator" /\ q.doc \in Docs
        /\ q.row.org \in {None, doc[q.doc].org}
    BY <1>2, <1>6 DEF UpdateHeld, Fits, Request
  <2>2. PICK t \in Titles : doc' = [doc EXCEPT ![q.doc].title = t] /\ q.row.org = q.org
    BY <1>6 DEF UpdateHeld, Owned
  <2>3. d = q.doc /\ doc'[d] = [doc[d] EXCEPT !.title = t]
    BY <1>3, <2>1, <2>2
  <2>4. doc'[d].org = doc[d].org
    BY <1>3, <2>3 DEF Document
  <2>5. doc[d].org = q.org
    BY <1>2, <2>1, <2>2, <2>3, TenancyAssumption
  <2> QED BY <1>2, <1>3, <2>1, <2>3, <2>4, <2>5
<1> QED BY <1>1, <1>4, <1>5, <1>6

\* A document changes by a request of its own organization only, stays in it, and
\* has its title changed by a rename.
THEOREM WritesHold == Spec => WritesStayInside
<1>1. ASSUME Inv, [Next]_vars, NEW d \in Docs, doc'[d] # doc[d]
      PROVE  /\ doc[d].org \in {None, doc'[d].org}
             /\ \E r \in Requests :
                  /\ AtWork(r) /\ req[r].doc = d /\ req[r].org = doc'[d].org
                  /\ doc'[d].title # doc[d].title =>
                       doc[d] = NoDocument \/ req[r].op \in {"rename", "operator"}
  BY <1>1, OneRow, NoDocumentType
<1>2. Inv /\ [Next]_vars =>
        [\A d \in Docs :
           doc'[d] # doc[d] =>
             /\ doc[d].org \in {None, doc'[d].org}
             /\ \E r \in Requests :
                  /\ AtWork(r) /\ req[r].doc = d /\ req[r].org = doc'[d].org
                  /\ doc'[d].title # doc[d].title =>
                       doc[d] = NoDocument \/ req[r].op \in {"rename", "operator"}]_vars
  BY <1>1
<1> QED BY <1>2, InvAlways, PTL DEF Spec, WritesStayInside

-----------------------------------------------------------------------------
\* A row that is the only one of its number has its hash downloaded.
LEMMA HashOfRow ==
    ASSUME NEW V, NEW v \in V,
           \A w \in V : w.doc = v.doc /\ w.number = v.number => w = v
    PROVE  HashOf(V, v.org, v.doc, v.number) = v.hash
<1>1. GetByNumber(V, v.org, v.doc, v.number) = {v}
  BY DEF GetByNumber
<1> QED BY <1>1 DEF HashOf

\* The row that is downloaded is there, and stays so among more rows.
LEMMA HashStays ==
    ASSUME Inv, NEW d \in Docs, NEW n \in 1..doc[d].current, NEW V, ver \subseteq V,
           \A v, w \in V : v.doc = w.doc /\ v.number = w.number => v = w
    PROVE  /\ HashOf(ver, doc[d].org, d, n) \in Hashes
           /\ HashOf(V, doc[d].org, d, n) = HashOf(ver, doc[d].org, d, n)
<1>1. PICK v \in ver : v.doc = d /\ v.number = n
  BY DEF Inv, RowsHold
<1>2. v.org = doc[d].org /\ v.hash \in Hashes
  BY <1>1 DEF Inv, RowsHold, TypeOK, DocumentVersion
<1>3. HashOf(ver, v.org, v.doc, v.number) = v.hash
  BY HashOfRow DEF Inv, RowsHold
<1>4. HashOf(V, v.org, v.doc, v.number) = v.hash
  BY HashOfRow
<1> QED BY <1>1, <1>2, <1>3, <1>4

\* The downloads of an organization are a sequence as long as the current
\* version says, and empty for a document of another one.
LEMMA DownloadsType ==
    ASSUME Inv, NEW o \in Orgs, NEW d \in Docs
    PROVE  /\ Downloads(o, d) \in Seq(Hashes)
           /\ doc[d].current \in Nat
           /\ doc[d].org # o => Downloads(o, d) = <<>>
           /\ doc[d].org = o =>
                /\ Len(Downloads(o, d)) = doc[d].current
                /\ \A n \in 1..doc[d].current : Downloads(o, d)[n] = HashOf(ver, o, d, n)
<1>1. doc[d].current \in Nat
  BY TenancyAssumption DEF Inv, TypeOK, Document
<1>2. CASE doc[d].org # o
  BY <1>1, <1>2 DEF Downloads
<1>3. CASE doc[d].org = o
  <2>1. ver \subseteq ver
    OBVIOUS
  <2>2. \A n \in 1..doc[d].current : HashOf(ver, o, d, n) \in Hashes
    BY <1>3, <2>1, HashStays DEF Inv, RowsHold
  <2>3. Downloads(o, d) \in [1..doc[d].current -> Hashes]
    BY <1>3, <2>2 DEF Downloads
  <2> QED BY <1>1, <1>3, <2>3 DEF Downloads
<1> QED BY <1>2, <1>3

\* A document that keeps its organization and its current version keeps its
\* downloads, whatever rows of others are added.
LEMMA DownloadsStay ==
    ASSUME Inv, Inv', ver \subseteq ver', NEW o \in Orgs, NEW d \in Docs,
           doc'[d].org = doc[d].org, doc'[d].current = doc[d].current
    PROVE  Downloads(o, d)' = Downloads(o, d)
<1>1. \A v, w \in ver' : v.doc = w.doc /\ v.number = w.number => v = w
  BY DEF Inv, RowsHold
<1>2. CASE doc[d].org = o
  <2>1. \A n \in 1..doc[d].current : HashOf(ver', o, d, n) = HashOf(ver, o, d, n)
    BY <1>1, <1>2, HashStays
  <2> QED BY <1>2, <2>1 DEF Downloads
<1>3. CASE doc[d].org # o
  <2>1. doc[d].current \in Nat
    BY DownloadsType
  <2> QED BY <1>3 DEF Downloads
<1> QED BY <1>2, <1>3

-----------------------------------------------------------------------------
\* What a step does to the rows.
Renames(d) ==
    /\ ver' = ver
    /\ doc'[d].org = doc[d].org /\ doc'[d].current = doc[d].current
    /\ doc'[d].state = doc[d].state

Deletes(d) ==
    /\ ver' = ver
    /\ doc'[d].org = doc[d].org /\ doc'[d].current = doc[d].current
    /\ doc'[d].state = "deleted"

Adds(d, h) ==
    /\ ver' = ver \cup {[org |-> doc'[d].org, doc |-> d,
                         number |-> doc[d].current + 1, hash |-> h]}
    /\ doc'[d].org \in Orgs /\ doc'[d].current = doc[d].current + 1
    /\ \/ doc[d] = NoDocument /\ doc'[d].state = "live"
       \/ doc[d].org = doc'[d].org /\ doc'[d].state = doc[d].state

Changes(d) ==
    /\ \A e \in Docs \ {d} : doc'[e] = doc[e]
    /\ Renames(d) \/ Deletes(d) \/ \E h \in Hashes : Adds(d, h)

LEMMA UploadChanges ==
    ASSUME Inv, NEW r \in Requests, WriteUpload(r)
    PROVE  \E d \in Docs : Changes(d)
<1> DEFINE q == req[r]
           d == q.doc
<1>1. Fits(q) /\ q.op = "upload" /\ q \in Request
  BY RequestType DEF Inv, AtWork, WriteUpload
<1>2. d \in Docs /\ doc[d] = NoDocument /\ q.hash \in Hashes /\ q.org \in Orgs
  BY <1>1 DEF Fits, Request
<1>3. PICK t \in Titles : doc' = [doc EXCEPT ![d] = [org |-> q.org, state |-> "live",
                                                     title |-> t, current |-> 1]]
  BY DEF WriteUpload
<1>4. doc \in [Docs -> Document]
  BY DEF Inv, TypeOK
<1>5. /\ doc'[d].org = q.org /\ doc'[d].state = "live" /\ doc'[d].current = 1
      /\ \A e \in Docs \ {d} : doc'[e] = doc[e]
  BY <1>2, <1>3, <1>4
<1>6. doc[d].current + 1 = 1
  BY <1>2, NoDocumentType
<1>7. ver' = ver \cup {[org |-> q.org, doc |-> d, number |-> 1, hash |-> q.hash]}
  BY DEF WriteUpload, NewVersion
<1>8. Adds(d, q.hash)
  BY <1>2, <1>5, <1>6, <1>7 DEF Adds
<1> QED BY <1>2, <1>5, <1>8 DEF Changes

LEMMA UpdateChanges ==
    ASSUME Inv, NEW r \in Requests, WriteUpdate(r)
    PROVE  UNCHANGED <<doc, ver>> \/ \E d \in Docs : Changes(d)
<1> DEFINE q == req[r]
           d == q.doc
<1>1. /\ Fits(q) /\ q \in Request /\ q.pc = "write"
      /\ q.op \in {"add_version", "rename", "delete"}
  BY RequestType DEF Inv, AtWork, WriteUpdate
<1>2. d \in Docs /\ doc[d].org = q.org /\ q.org \in Orgs /\ q.number \in Nat
  BY <1>1, OperatorIsNone, TenancyAssumption DEF Fits, Request
<1>3. SUFFICES ASSUME ~UNCHANGED <<doc, ver>> PROVE Changes(d)
  BY <1>2
<1>4. PICK t \in Titles : /\ doc' = [doc EXCEPT ![d] = Updated(q, t, @)]
                          /\ ~(q.op = "add_version" /\ Taken(q))
                          /\ ver' = IF q.op = "add_version"
                                    THEN ver \cup {NewVersion(q, q.number)} ELSE ver
  BY <1>3 DEF WriteUpdate
<1>5. doc \in [Docs -> Document] /\ doc[d] \in Document /\ doc[d].current \in Nat
  BY <1>2, TenancyAssumption DEF Inv, TypeOK, Document
<1>6. doc'[d] = Updated(q, t, doc[d]) /\ \A e \in Docs \ {d} : doc'[e] = doc[e]
  BY <1>2, <1>4, <1>5
<1>7. /\ doc'[d].org = doc[d].org
      /\ doc'[d].state = IF q.op = "delete" THEN "deleted" ELSE doc[d].state
      /\ doc'[d].current = IF q.op = "add_version" THEN q.number ELSE doc[d].current
  BY <1>5, <1>6 DEF Updated, Document
<1>8. CASE q.op = "add_version"
  <2>1. q.number \in 1..doc[d].current + 1 /\ q.hash \in Hashes
    BY <1>1, <1>8 DEF Fits
  <2>2. q.number \notin 1..doc[d].current
    BY <1>2, <1>4, <1>8 DEF Taken, Inv, RowsHold
  <2>3. q.number = doc[d].current + 1
    BY <1>2, <1>5, <2>1, <2>2
  <2>4. Adds(d, q.hash)
    BY <1>2, <1>4, <1>7, <1>8, <2>1, <2>3 DEF Adds, NewVersion
  <2> QED BY <1>6, <2>1, <2>4 DEF Changes
<1>9. CASE q.op = "delete"
  BY <1>4, <1>6, <1>7, <1>9 DEF Changes, Deletes
<1>10. CASE q.op = "rename"
  BY <1>4, <1>6, <1>7, <1>10 DEF Changes, Renames
<1> QED BY <1>1, <1>8, <1>9, <1>10

LEMMA HeldChanges ==
    ASSUME Inv, NEW r \in Requests, UpdateHeld(r)
    PROVE  UNCHANGED <<doc, ver>> \/ \E d \in Docs : Changes(d)
<1> DEFINE d == req[r].doc
<1>1. d \in Docs /\ ver' = ver
  BY RequestType DEF Inv, AtWork, UpdateHeld, Request
<1>2. CASE UNCHANGED doc
  BY <1>1, <1>2
<1>3. CASE \E t \in Titles : doc' = [doc EXCEPT ![d].title = t]
  <2>1. doc \in [Docs -> Document] /\ doc[d] \in Document
    BY <1>1 DEF Inv, TypeOK
  <2>2. PICK t \in Titles : doc' = [doc EXCEPT ![d].title = t]
    BY <1>3
  <2>3. doc'[d] = [doc[d] EXCEPT !.title = t] /\ \A e \in Docs \ {d} : doc'[e] = doc[e]
    BY <1>1, <2>1, <2>2
  <2>4. Renames(d)
    BY <1>1, <2>1, <2>3 DEF Renames, Document
  <2> QED BY <1>1, <2>3, <2>4 DEF Changes
<1> QED BY <1>2, <1>3 DEF UpdateHeld

LEMMA RowSteps ==
    ASSUME Inv, [Next]_vars
    PROVE  UNCHANGED <<doc, ver>> \/ \E d \in Docs : Changes(d)
<1>1. ASSUME NEW r \in Requests, NEW o \in Orgs,
             \/ Upload(r, o) \/ Find(r, o) \/ List(r, o)
             \/ \E x \in Docs : ReadAcross(r, o, x)
             \/ \E narrow \in Orgs \cup {None} : ListAcross(r, o, narrow)
      PROVE  UNCHANGED <<doc, ver>>
  <2>1. \A op : Begin(r, op) => UNCHANGED <<doc, ver>>
    BY DEF Begin
  <2> QED BY <1>1, <2>1 DEF Upload, Find, List, ReadAcross, ListAcross
<1>2. ASSUME NEW r \in Requests,
             \/ Answer(r) \/ MatchLive(r) \/ Number(r) \/ Compare(r)
             \/ CommitHeld(r) \/ CloseHeld(r)
      PROVE  UNCHANGED <<doc, ver>>
  BY <1>2 DEF Answer, MatchLive, Number, Compare, CommitHeld, CloseHeld
<1>3. UNCHANGED vars => UNCHANGED <<doc, ver>>
  BY DEF vars
<1> QED BY <1>1, <1>2, <1>3, UploadChanges, UpdateChanges, HeldChanges DEF Next

\* A document of an organization has a version.
Started == \A d \in Docs : doc[d].org # None => doc[d].current # 0

LEMMA StartedAlways == Spec => []Started
<1>1. Init => Started
  BY NoDocumentType DEF Init, Started
<1>2. Inv /\ Started /\ [Next]_vars => Started'
  <2> SUFFICES ASSUME Inv, Started, [Next]_vars, NEW e \in Docs, doc'[e].org # None
               PROVE  doc'[e].current # 0
    BY DEF Started
  <2>1. doc[e].current \in Nat
    BY DownloadsType, TenancyAssumption DEF Inv, TypeOK, Document
  <2>2. CASE UNCHANGED <<doc, ver>>
    BY <2>2 DEF Started
  <2>3. ASSUME NEW d \in Docs, Changes(d), e = d PROVE doc'[e].current # 0
    BY <2>1, <2>3 DEF Changes, Renames, Deletes, Adds, Started
  <2>4. ASSUME NEW d \in Docs, Changes(d), e # d PROVE doc'[e].current # 0
    BY <2>4 DEF Changes, Started
  <2> QED BY <2>2, <2>3, <2>4, RowSteps
<1> QED BY <1>1, <1>2, InvAlways, PTL DEF Spec

\* The versions of the document that did not change, or only by its title and
\* state, are downloaded as before.
LEMMA OthersStay ==
    ASSUME Inv, Inv', NEW d \in Docs, Changes(d), NEW o \in Orgs
    PROVE  /\ ver \subseteq ver'
           /\ \A e \in Docs \ {d} : Downloads(o, e)' = Downloads(o, e)
           /\ \A e \in Docs \ {d} : e \in ListLive(doc, o)' <=> e \in ListLive(doc, o)
<1>1. ver \subseteq ver' /\ \A e \in Docs \ {d} : doc'[e] = doc[e]
  BY DEF Changes, Renames, Deletes, Adds
<1>2. \A e \in Docs \ {d} : Downloads(o, e)' = Downloads(o, e)
  BY <1>1, DownloadsStay
<1>3. DOMAIN doc = Docs /\ DOMAIN doc' = Docs
  BY DEF Inv, TypeOK
<1> QED BY <1>1, <1>2, <1>3 DEF ListLive

\* To another organization an added version is nothing; to its own it is one
\* more at the end.
LEMMA AddAppends ==
    ASSUME Inv, Inv', Started, NEW d \in Docs, NEW h \in Hashes, Adds(d, h), Changes(d),
           NEW o \in Orgs
    PROVE  IF doc'[d].org = o
           THEN /\ Downloads(o, d)' = Append(Downloads(o, d), h)
                /\ d \in ListLive(doc, o)' <=>
                     d \in ListLive(doc, o) \/ doc[d] = NoDocument
                /\ Downloads(o, d) = <<>> <=> doc[d] = NoDocument
           ELSE /\ Downloads(o, d)' = Downloads(o, d)
                /\ d \in ListLive(doc, o)' <=> d \in ListLive(doc, o)
<1> DEFINE c == doc[d].current
           s == Downloads(o, d)
           a == Append(s, h)
           v == [org |-> doc'[d].org, doc |-> d, number |-> c + 1, hash |-> h]
<1>1. /\ ver \subseteq ver' /\ v \in ver' /\ c \in Nat
      /\ doc'[d].org \in Orgs /\ doc'[d].current = c + 1
      /\ DOMAIN doc = Docs /\ DOMAIN doc' = Docs
  BY DownloadsType DEF Adds, Inv, TypeOK
<1>2. doc[d].org = doc'[d].org \/ doc[d] = NoDocument
  BY DEF Adds
<1>3. o # None /\ NoDocument.org = None /\ NoDocument.current = 0
      /\ NoDocument.state = "none"
  BY TenancyAssumption, NoDocumentType DEF NoDocument
<1>4. ASSUME doc'[d].org # o
      PROVE  /\ Downloads(o, d)' = Downloads(o, d)
             /\ d \in ListLive(doc, o)' <=> d \in ListLive(doc, o)
  <2>1. doc[d].org # o
    BY <1>2, <1>3, <1>4
  <2> QED BY <1>1, <1>4, <2>1 DEF Downloads, ListLive
<1>5. ASSUME doc'[d].org = o
      PROVE  /\ Downloads(o, d)' = Append(Downloads(o, d), h)
             /\ d \in ListLive(doc, o)' <=>
                  d \in ListLive(doc, o) \/ doc[d] = NoDocument
             /\ Downloads(o, d) = <<>> <=> doc[d] = NoDocument
  <2>1. /\ s \in Seq(Hashes)
        /\ Len(s) = c
        /\ \A n \in 1..c : s[n] = HashOf(ver, o, d, n)
    <3>1. CASE doc[d].org = o
      BY <3>1, DownloadsType
    <3>2. CASE doc[d] = NoDocument
      BY <1>3, <3>2, DownloadsType, EmptySeq
    <3> QED BY <1>2, <1>5, <3>1, <3>2
  <2>2. /\ a \in Seq(Hashes) /\ Len(a) = c + 1
        /\ \A n \in 1..c : a[n] = s[n]
        /\ a[c + 1] = h
    BY <1>1, <2>1, AppendProperties
  <2>3. \A x, y \in ver' : x.doc = y.doc /\ x.number = y.number => x = y
    BY DEF Inv, RowsHold
  <2>4. HashOf(ver', o, d, c + 1) = h
    BY <1>1, <1>5, <2>3, HashOfRow
  <2>5. \A n \in 1..c : HashOf(ver', o, d, n) = HashOf(ver, o, d, n)
    <3>1. CASE doc[d].org = o
      BY <1>1, <2>3, <3>1, HashStays
    <3>2. CASE doc[d] = NoDocument
      BY <1>3, <3>2
    <3> QED BY <1>2, <1>5, <3>1, <3>2
  <2>6. Downloads(o, d)' = [n \in 1..(c + 1) |-> HashOf(ver', o, d, n)]
    BY <1>1, <1>5 DEF Downloads
  <2>7. \A n \in 1..(c + 1) : HashOf(ver', o, d, n) = a[n]
    <3> SUFFICES ASSUME NEW n \in 1..(c + 1) PROVE HashOf(ver', o, d, n) = a[n]
      OBVIOUS
    <3> n \in 1..c \/ n = c + 1
      BY <1>1
    <3> QED BY <2>1, <2>2, <2>4, <2>5
  <2>8. Downloads(o, d)' = a
    <3> HIDE DEF a, s, c
    <3>1. a = [n \in 1..(c + 1) |-> a[n]]
      BY <2>2, LenProperties
    <3> QED BY <2>6, <2>7, <3>1
  <2>9. d \in ListLive(doc, o)' <=> d \in ListLive(doc, o) \/ doc[d] = NoDocument
    BY <1>1, <1>2, <1>3, <1>5 DEF ListLive, Adds
  <2>10. s = <<>> <=> doc[d] = NoDocument
    <3>1. s = <<>> <=> c = 0
      BY <2>1, EmptySeq
    <3>2. c = 0 <=> doc[d] = NoDocument
      BY <1>2, <1>3, <1>5 DEF Started
    <3> QED BY <3>1, <3>2
  <2> QED BY <2>8, <2>9, <2>10
<1> QED BY <1>4, <1>5

\* Every step is a step of an organization's history or leaves it as it is.
LEMMA HistoryStep ==
    ASSUME Inv, Inv', Started, [Next]_vars, NEW o \in Orgs
    PROVE  [PromiseTo(o)!Next]_(PromiseTo(o)!vars)
<1> DEFINE R == [e \in Docs |-> Downloads(o, e)]
           L == ListLive(doc, o)
<1>1. ASSUME UNCHANGED <<doc, ver>>
      PROVE  UNCHANGED PromiseTo(o)!vars
  BY <1>1 DEF PromiseTo!vars, Downloads, ListLive
<1>2. L \subseteq Docs /\ L' \subseteq Docs
  BY DEF ListLive, Inv, TypeOK
<1>3. ASSUME NEW d \in Docs, Changes(d),
             Downloads(o, d)' = Downloads(o, d), d \in L' <=> d \in L
      PROVE  UNCHANGED PromiseTo(o)!vars
  <2>1. \A e \in Docs : Downloads(o, e)' = Downloads(o, e)
    BY <1>3, OthersStay
  <2>2. \A e \in Docs : e \in L' <=> e \in L
    BY <1>3, OthersStay
  <2>3. L' = L
    BY <1>2, <2>2
  <2> QED BY <2>1, <2>3 DEF PromiseTo!vars
<1>4. ASSUME NEW d \in Docs, Changes(d), Renames(d)
      PROVE  UNCHANGED PromiseTo(o)!vars
  <2>1. Downloads(o, d)' = Downloads(o, d)
    BY <1>4, DownloadsStay DEF Renames
  <2>2. d \in L' <=> d \in L
    BY <1>4 DEF ListLive, Renames, Inv, TypeOK
  <2> QED BY <1>3, <1>4, <2>1, <2>2
<1>5. ASSUME NEW d \in Docs, Changes(d), Deletes(d)
      PROVE  [PromiseTo(o)!Next]_(PromiseTo(o)!vars)
  <2>1. \A e \in Docs : Downloads(o, e)' = Downloads(o, e)
    <3>1. Downloads(o, d)' = Downloads(o, d)
      BY <1>5, DownloadsStay DEF Deletes
    <3> QED BY <1>5, <3>1, OthersStay
  <2>2. d \notin L'
    BY <1>5 DEF ListLive, Deletes
  <2>3. CASE d \in L
    <3>1. \A e \in Docs \ {d} : e \in L' <=> e \in L
      BY <1>5, OthersStay
    <3>2. L' = L \ {d}
      BY <1>2, <2>2, <3>1
    <3>3. PromiseTo(o)!Delete(d)
      BY <2>1, <2>3, <3>2 DEF PromiseTo!Delete
    <3> QED BY <3>3 DEF PromiseTo!Next
  <2>4. CASE d \notin L
    BY <1>3, <1>5, <2>1, <2>2, <2>4
  <2> QED BY <2>3, <2>4
<1>6. ASSUME NEW d \in Docs, Changes(d), NEW h \in Hashes, Adds(d, h)
      PROVE  [PromiseTo(o)!Next]_(PromiseTo(o)!vars)
  <2>1. CASE doc'[d].org # o
    BY <1>3, <1>6, <2>1, AddAppends
  <2>2. CASE doc'[d].org = o
    <3>1. /\ Downloads(o, d)' = Append(Downloads(o, d), h)
          /\ d \in L' <=> d \in L \/ doc[d] = NoDocument
          /\ Downloads(o, d) = <<>> <=> doc[d] = NoDocument
      BY <1>6, <2>2, AddAppends
    <3>2. /\ \A e \in Docs \ {d} : Downloads(o, e)' = Downloads(o, e)
          /\ \A e \in Docs \ {d} : e \in L' <=> e \in L
      BY <1>6, OthersStay
    <3>3. [e \in Docs |-> Downloads(o, e)'] = [R EXCEPT ![d] = Append(R[d], h)]
      BY <3>1, <3>2
    <3>4. CASE doc[d] = NoDocument
      <4>1. L' = L \cup {d}
        BY <1>2, <3>1, <3>2, <3>4
      <4>2. R[d] = <<>> /\ Append(R[d], h) = <<h>>
        BY <3>1, <3>4
      <4>3. PromiseTo(o)!Create(d, h)
        BY <3>3, <4>1, <4>2 DEF PromiseTo!Create
      <4> QED BY <4>3, Zenon DEF PromiseTo!Next
    <3>5. CASE doc[d] # NoDocument
      <4>1. L' = L
        <5>1. d \in L' <=> d \in L
          BY <3>1, <3>5
        <5>2. \A e \in Docs : e \in L' <=> e \in L
          BY <3>2, <5>1
        <5> QED BY <1>2, <5>2
      <4>2. R[d] # <<>>
        BY <3>1, <3>5
      <4>3. PromiseTo(o)!Revise(d, h)
        BY <3>3, <4>1, <4>2 DEF PromiseTo!Revise
      <4> QED BY <4>3, Zenon DEF PromiseTo!Next
    <3> QED BY <3>4, <3>5
  <2> QED BY <2>1, <2>2
<1> QED BY <1>1, <1>4, <1>5, <1>6, RowSteps DEF Changes

\* Whatever the other organizations and the requests in flight do, the versions
\* an organization downloads of its documents only grow, one at a time and at
\* the end, and a deleted document is not found again.
THEOREM HistoriesAreKept == Spec => EachHasItsHistory
<1>1. Init => \A o \in Orgs : PromiseTo(o)!Init
  <2> SUFFICES ASSUME Init, NEW o \in Orgs PROVE PromiseTo(o)!Init
    OBVIOUS
  <2>1. \A d \in Docs : doc[d].org # o /\ doc[d].state = "none"
    BY TenancyAssumption, NoDocumentType DEF Init, NoDocument
  <2>2. \A d \in Docs : Downloads(o, d) = <<>>
    BY <2>1 DEF Downloads
  <2>3. ListLive(doc, o) = {}
    BY <2>1 DEF ListLive, Init
  <2> QED BY <2>2, <2>3 DEF PromiseTo!Init
<1>2. Inv /\ Inv' /\ Started /\ [Next]_vars =>
        [<<doc, ver>>' # <<doc, ver>> =>
           \A o \in Orgs : [PromiseTo(o)!Next]_(PromiseTo(o)!vars)]_vars
  BY HistoryStep
<1> QED BY <1>1, <1>2, InvAlways, StartedAlways, PTL DEF Spec, EachHasItsHistory
=============================================================================
