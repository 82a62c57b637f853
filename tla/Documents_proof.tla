--------------------------- MODULE Documents_proof ---------------------------
(***************************************************************************)
(* For every set of documents, contents and requests, and whatever fails:  *)
(* versions are numbered without a gap and never rewritten, and a row has  *)
(* its object unless its key is one of the endangered ones.  The rows are  *)
(* the histories DocumentHistory promises.                                 *)
(***************************************************************************)
EXTENDS Documents, SequenceTheorems, TLAPS

\* Where an upload may still write its rows, and where it has stored bytes.
Early == {"store", "compare", "commit"}
Stored == {"compare", "commit", "refresh", "discard"}

\* The state e of request r fits the rows, the objects and the other requests.
FitsRows(r, e) ==
    /\ e.op = "upload" /\ e.pc \in Early =>
         /\ e.number = 1 /\ doc[e.doc].state = "none"
         /\ \A s \in Requests \ {r} : AtWork(s) => req[s].doc # e.doc
    /\ e.pc = "number" => e.op = "add_version"
    /\ e.op = "add_version" =>
         /\ doc[e.doc].state # "none"
         /\ e.pc \in Early => e.number <= doc[e.doc].current + 1

FitsObjects(r, e) ==
    e.pc \in Stored /\ KeyOf(e) \notin endangered =>
      /\ e.pc # "refresh" => ~Owned(KeyOf(e))
      /\ e.pc \in {"compare", "commit"} => object[KeyOf(e)] = e.content
      /\ \A s \in Requests \ {r} : req[s].pc \in Stored => KeyOf(req[s]) # KeyOf(e)

Fits == \A r \in Requests : AtWork(r) => FitsRows(r, req[r]) /\ FitsObjects(r, req[r])

Inv == StateOK /\ CurrentIsLatest /\ RowsKeepObjects /\ Fits

-----------------------------------------------------------------------------
\* A request at work is an upload, with a number once it has one.
LEMMA RequestType ==
    ASSUME StateOK, NEW r \in Requests, AtWork(r)
    PROVE  /\ req[r] \in Upload
           /\ req[r].doc \in Docs /\ req[r].ext \in Exts /\ req[r].content \in Contents
           /\ req[r].number \in 0..MaxVersion
           /\ req[r].pc # "number" => req[r].number \in Numbers /\ KeyOf(req[r]) \in Keys
BY DEF StateOK, AtWork, Upload, Idle, KeyOf, Keys

LEMMA IdleType == Idle \in Upload \cup {Idle} /\ Idle.pc = "idle"
BY DEF Idle

\* Moving on changes pc and nothing else.
LEMMA GotoType ==
    ASSUME NEW q \in Upload,
           NEW pc \in {"number", "store", "compare", "commit", "refresh", "discard"}
    PROVE  LET e == [q EXCEPT !.pc = pc]
           IN  /\ e \in Upload /\ e.pc = pc /\ e.op = q.op /\ e.doc = q.doc
               /\ e.number = q.number /\ e.ext = q.ext /\ e.content = q.content
               /\ KeyOf(e) = KeyOf(q)
BY DEF Upload, KeyOf

LEMMA NumberType ==
    ASSUME NEW q \in Upload, NEW n \in 0..MaxVersion
    PROVE  LET e == [q EXCEPT !.pc = "store", !.number = n]
           IN  /\ e \in Upload /\ e.pc = "store" /\ e.number = n
               /\ e.op = q.op /\ e.doc = q.doc
BY DEF Upload

\* next_version_number finds the current version: there are no gaps.
LEMMA HighestIsCurrent ==
    ASSUME StateOK, CurrentIsLatest, NEW q, q.doc \in Docs
    PROVE  Highest(q) = doc[q.doc].current
<1> DEFINE S == {n \in Numbers : Exists(q.doc, n)} \cup {0}
           c == doc[q.doc].current
<1>1. c \in 0..MaxVersion /\ MaxVersion \in Nat
  BY DocumentsAssumption DEF StateOK, Document
<1>2. \A n \in Numbers : Exists(q.doc, n) <=> n <= c
  BY DEF CurrentIsLatest
<1>3. c \in S /\ S \subseteq Nat /\ \A n \in S : n <= c
  BY <1>1, <1>2 DEF Numbers
<1>4. Max(S) = CHOOSE x \in S : \A y \in S : x >= y
  BY DEF Max
<1> HIDE DEF S, c
<1>5. c \in S /\ \A y \in S : c >= y
  BY <1>3
<1>6. \A x \in S : (\A y \in S : x >= y) => x = c
  BY <1>3
<1>7. Max(S) = c
  BY <1>4, <1>5, <1>6
<1> QED BY <1>7 DEF Highest, S, c

-----------------------------------------------------------------------------
LEMMA InvInit == Init => Inv
<1> SUFFICES ASSUME Init PROVE Inv
  OBVIOUS
<1>1. StateOK
  BY DocumentsAssumption
     DEF Init, StateOK, Document, Version, NoVersion, Keys, Numbers, AtWork, Idle
<1>2. \A d \in Docs, n \in Numbers : ~Exists(d, n)
  BY DEF Init, Exists
<1>3. CurrentIsLatest
  BY <1>2, DocumentsAssumption DEF Init, CurrentIsLatest, Numbers
<1>4. RowsKeepObjects
  BY <1>2 DEF RowsKeepObjects, Owned, Keys
<1> QED BY <1>1, <1>3, <1>4 DEF Inv, Fits, Init, AtWork, Idle

\* A request goes on to e; rows, objects and history stay.
LEMMA GoesOnKeeps ==
    ASSUME Inv, NEW r \in Requests, NEW e \in Upload \cup {Idle},
           req' = [req EXCEPT ![r] = e], UNCHANGED <<doc, ver, object, endangered>>,
           e.pc # "idle" => /\ e.pc # "number" => e.number \in Numbers
                            /\ FitsRows(r, e) /\ FitsObjects(r, e)
                            /\ \A s \in Requests \ {r} :
                                 AtWork(s) /\ req[s].op = "upload" /\ req[s].pc \in Early
                                   => req[s].doc # e.doc
    PROVE  Inv'
<1>1. /\ req'[r] = e
      /\ \A s \in Requests : s # r => req'[s] = req[s]
  BY DEF Inv, StateOK
<1>2. StateOK'
  BY <1>1 DEF Inv, StateOK, AtWork
<1>3. CurrentIsLatest' /\ RowsKeepObjects'
  BY DEF Inv, CurrentIsLatest, RowsKeepObjects, Exists, Owned
<1>4. ASSUME NEW s \in Requests, AtWork(s)' PROVE FitsRows(s, req[s])'
  <2>1. CASE s = r
    BY <1>1, <1>4, <2>1 DEF FitsRows, AtWork
  <2>2. CASE s # r
    BY <1>1, <1>4, <2>2 DEF Inv, Fits, FitsRows, AtWork
  <2> QED BY <2>1, <2>2
<1>5. ASSUME NEW s \in Requests, AtWork(s)' PROVE FitsObjects(s, req[s])'
  <2>1. CASE s = r
    <3>1. FitsObjects(r, e) /\ req'[s] = e
      BY <1>1, <1>5, <2>1 DEF AtWork
    <3>2. \A t \in Requests \ {s} : req'[t] = req[t]
      BY <1>1, <2>1
    <3> QED BY <2>1, <3>1, <3>2 DEF FitsObjects, Owned, Exists, KeyOf
  <2>2. CASE s # r
    <3>1. FitsObjects(s, req[s]) /\ req'[s] = req[s]
      BY <1>1, <1>5, <2>2 DEF Inv, Fits, AtWork
    <3>2. ASSUME e.pc \in Stored, req[s].pc \in Stored, KeyOf(req[s]) \notin endangered
          PROVE  KeyOf(e) # KeyOf(req[s])
      BY <2>2, <3>2 DEF FitsObjects, Stored
    <3>3. \A t \in Requests \ {s} : req'[t] = req[t] \/ (t = r /\ req'[t] = e)
      BY <1>1
    <3>4. ASSUME req[s].pc \in Stored, KeyOf(req[s]) \notin endangered,
                 NEW t \in Requests \ {s}, req'[t].pc \in Stored
          PROVE  KeyOf(req'[t]) # KeyOf(req[s])
      BY <3>1, <3>2, <3>3, <3>4 DEF FitsObjects
    <3>5. KeyOf(req[s])' = KeyOf(req[s]) /\ \A t \in Requests : KeyOf(req[t])' = KeyOf(req'[t])
      BY <3>1 DEF KeyOf
    <3> QED BY <3>1, <3>4, <3>5 DEF FitsObjects, Owned, Exists
  <2> QED BY <2>1, <2>2
<1> QED BY <1>2, <1>3, <1>4, <1>5 DEF Inv, Fits

\* A request ends.
LEMMA ReturnKeeps ==
    ASSUME Inv, NEW r \in Requests, Return(r), UNCHANGED <<doc, ver, object, endangered>>
    PROVE  Inv'
BY GoesOnKeeps, IdleType DEF Return

-----------------------------------------------------------------------------
LEMMA BeginUploadKeeps ==
    ASSUME Inv, NEW r \in Requests, NEW d \in Docs, NEW c \in Contents, NEW x \in Exts,
           BeginUpload(r, d, c, x)
    PROVE  Inv'
<1> DEFINE e == [pc |-> "store", op |-> "upload", doc |-> d, number |-> 1, ext |-> x,
                 content |-> c, seen |-> 0]
<1>1. d \in Docs /\ doc[d].state = "none" /\ \A s \in Requests : AtWork(s) => req[s].doc # d
  BY DEF BeginUpload, Fresh
<1>2. e \in Upload /\ e.number \in Numbers
  BY DocumentsAssumption DEF Upload, Numbers
<1>3. FitsRows(r, e) /\ FitsObjects(r, e)
  BY <1>1 DEF FitsRows, FitsObjects, Stored
<1>4. e.pc = "store" /\ e.doc = d
  OBVIOUS
<1>5. req' = [req EXCEPT ![r] = e] /\ UNCHANGED <<doc, ver, object, endangered>>
  BY DEF BeginUpload
<1> HIDE DEF e
<1> QED BY <1>1, <1>2, <1>3, <1>4, <1>5, GoesOnKeeps

LEMMA BeginAddVersionKeeps ==
    ASSUME Inv, NEW r \in Requests, NEW d \in Docs, NEW c \in Contents, NEW x \in Exts,
           BeginAddVersion(r, d, c, x)
    PROVE  Inv'
<1> DEFINE e == [pc |-> "number", op |-> "add_version", doc |-> d, number |-> 0, ext |-> x,
                 content |-> c, seen |-> doc[d].current]
<1>1. doc[d].state = "live" /\ doc[d].current \in 0..MaxVersion
  BY DEF BeginAddVersion, Inv, StateOK, Document
<1>2. e \in Upload /\ e.pc = "number" /\ e.doc = d
  BY <1>1, DocumentsAssumption DEF Upload
<1>3. FitsRows(r, e) /\ FitsObjects(r, e)
  BY <1>1 DEF FitsRows, FitsObjects, Stored, Early
<1>4. ASSUME NEW s \in Requests \ {r}, AtWork(s), req[s].op = "upload", req[s].pc \in Early
      PROVE  req[s].doc # d
  BY <1>1, <1>4 DEF Inv, Fits, FitsRows
<1>5. req' = [req EXCEPT ![r] = e] /\ UNCHANGED <<doc, ver, object, endangered>>
  BY DEF BeginAddVersion
<1> HIDE DEF e
<1> QED BY <1>2, <1>3, <1>4, <1>5, GoesOnKeeps

\* Nobody uploads a new document under an id another request works on.
LEMMA UploadsApart ==
    ASSUME Inv, NEW r \in Requests, AtWork(r), NEW s \in Requests \ {r}, AtWork(s),
           req[s].op = "upload", req[s].pc \in Early
    PROVE  req[s].doc # req[r].doc
BY DEF Inv, Fits, FitsRows

LEMMA NextNumberKeeps == ASSUME Inv, NEW r \in Requests, NextNumber(r) PROVE Inv'
<1> DEFINE q == req[r]
           n == Highest(q) + 1
           e == [q EXCEPT !.pc = "store", !.number = n]
<1>1. AtWork(r) /\ q \in Upload /\ q.doc \in Docs /\ q.pc = "number"
  BY RequestType DEF NextNumber, AtWork, Inv
<1>2. Highest(q) = doc[q.doc].current /\ doc[q.doc].current \in 0..MaxVersion
  BY <1>1, HighestIsCurrent DEF Inv, StateOK, Document
<1>3. n \in Numbers /\ n <= doc[q.doc].current + 1
  BY <1>2, DocumentsAssumption DEF NextNumber, Numbers
<1> HIDE DEF n
<1>4. /\ e \in Upload /\ e.pc = "store" /\ e.number = n
      /\ e.op = q.op /\ e.doc = q.doc
  <2>1. n \in 0..MaxVersion
    BY <1>3, DocumentsAssumption DEF Numbers
  <2> QED BY <1>1, <2>1, NumberType
<1>5. q.op = "add_version"
  BY <1>1 DEF Inv, Fits, FitsRows
<1>6. FitsRows(r, e) /\ FitsObjects(r, e)
  BY <1>1, <1>3, <1>4, <1>5 DEF Inv, Fits, FitsRows, FitsObjects, Stored
<1>7. req' = [req EXCEPT ![r] = e] /\ UNCHANGED <<doc, ver, object, endangered>>
  BY DEF NextNumber, n
<1> HIDE DEF e
<1> QED BY <1>1, <1>3, <1>4, <1>6, <1>7, UploadsApart, GoesOnKeeps

\* A request that only moves on, to compare its bytes or to clean up.
LEMMA MovesOnKeeps ==
    ASSUME Inv, NEW r \in Requests, NEW pc \in {"commit", "discard"},
           req[r].pc \in {"compare", "commit"}, Goto(r, pc),
           UNCHANGED <<doc, ver, object, endangered>>
    PROVE  Inv'
<1> DEFINE q == req[r]
           e == [q EXCEPT !.pc = pc]
<1>1. AtWork(r) /\ q \in Upload /\ q.number \in Numbers
  BY RequestType DEF AtWork, Inv
<1>2. /\ e \in Upload /\ e.pc = pc /\ e.op = q.op /\ e.doc = q.doc
      /\ e.number = q.number /\ e.content = q.content /\ KeyOf(e) = KeyOf(q)
  <2>1. pc \in {"number", "store", "compare", "commit", "refresh", "discard"}
    OBVIOUS
  <2> QED BY <1>1, <2>1, GotoType
<1>3. FitsRows(r, q) /\ FitsObjects(r, q)
  BY <1>1 DEF Inv, Fits
<1>4. req' = [req EXCEPT ![r] = e]
  BY DEF Goto
<1> HIDE DEF e
<1>5. FitsRows(r, e) /\ FitsObjects(r, e)
  BY <1>2, <1>3 DEF FitsRows, FitsObjects, Early, Stored
<1> QED BY <1>1, <1>2, <1>4, <1>5, UploadsApart, GoesOnKeeps

\* The bytes are stored, over whatever was there; the request goes on to e.
LEMMA PutKeeps ==
    ASSUME Inv, NEW r \in Requests, Put(r),
           NEW e \in Upload \cup {Idle}, req' = [req EXCEPT ![r] = e],
           e.pc \in {"idle", "compare"},
           e.pc # "idle" => /\ e.op = req[r].op /\ e.doc = req[r].doc
                            /\ e.number = req[r].number /\ e.content = req[r].content
                            /\ KeyOf(e) = KeyOf(req[r])
    PROVE  Inv'
<1> DEFINE q == req[r]
           k == KeyOf(q)
           shared == Owned(k) \/ \E s \in Requests \ {r} : AtWork(s) /\ KeyOf(req[s]) = k
<1>1. /\ AtWork(r) /\ q \in Upload /\ q.number \in Numbers /\ k \in Keys
      /\ q.content \in Contents /\ q.pc = "store"
  BY RequestType DEF Put, AtWork, Inv
<1>2. e.pc # "idle" => /\ e.pc = "compare" /\ e.op = q.op /\ e.doc = q.doc
                       /\ e.number = q.number /\ e.content = q.content /\ KeyOf(e) = k
  OBVIOUS
<1>3. /\ object' = [object EXCEPT ![k] = q.content]
      /\ endangered' = IF shared THEN endangered \cup {k} ELSE endangered
      /\ UNCHANGED <<doc, ver>>
  BY DEF Put
<1>4. /\ req'[r] = e /\ \A s \in Requests \ {r} : req'[s] = req[s]
      /\ object'[k] = q.content /\ \A l \in Keys : l # k => object'[l] = object[l]
      /\ endangered \subseteq endangered' /\ endangered' \subseteq endangered \cup {k}
  BY <1>1, <1>3 DEF Inv, StateOK
<1>5. StateOK'
  BY <1>1, <1>2, <1>3, <1>4 DEF Inv, StateOK, AtWork
<1>6. CurrentIsLatest'
  BY <1>3 DEF Inv, CurrentIsLatest, Exists
<1>7. \A l : Owned(l)' = Owned(l)
  BY <1>3 DEF Owned, Exists
<1>8. shared => k \in endangered'
  BY <1>3
<1>9. RowsKeepObjects'
  BY <1>3, <1>4, <1>7, <1>8 DEF Inv, RowsKeepObjects
<1>10. \A s \in Requests : AtWork(s)' => FitsRows(s, req[s])'
  <2> SUFFICES ASSUME NEW s \in Requests, AtWork(s)' PROVE FitsRows(s, req[s])'
    OBVIOUS
  <2>1. \A t \in Requests : AtWork(t)' => AtWork(t)
    BY <1>1, <1>2, <1>4 DEF AtWork
  <2>2. FitsRows(s, req[s])
    BY <2>1 DEF Inv, Fits
  <2>3. \A t \in Requests : AtWork(t)' => req'[t].doc = req[t].doc
    BY <1>2, <1>4 DEF AtWork
  <2>4. CASE s = r
    BY <1>1, <1>2, <1>3, <1>4, <2>1, <2>2, <2>3, <2>4 DEF FitsRows, Early, AtWork
  <2>5. CASE s # r
    BY <1>3, <1>4, <2>1, <2>2, <2>3, <2>5 DEF FitsRows
  <2> QED BY <2>4, <2>5
<1>11. \A s \in Requests : AtWork(s)' => FitsObjects(s, req[s])'
  <2> SUFFICES ASSUME NEW s \in Requests, AtWork(s)', req'[s].pc \in Stored,
                      KeyOf(req'[s]) \notin endangered'
               PROVE  /\ \A l : l = KeyOf(req'[s]) /\ req'[s].pc # "refresh" => ~Owned(l)
                      /\ req'[s].pc \in {"compare", "commit"} =>
                           object'[KeyOf(req'[s])] = req'[s].content
                      /\ \A t \in Requests \ {s} :
                           req'[t].pc \in Stored => KeyOf(req'[t]) # KeyOf(req'[s])
    BY <1>7 DEF FitsObjects, KeyOf, Owned, Exists
  <2>1. CASE s = r
    <3>1. ~shared /\ KeyOf(req'[s]) = k /\ req'[s] = e /\ e.pc # "idle"
      BY <1>2, <1>4, <1>8, <2>1 DEF AtWork
    <3>2. \A t \in Requests \ {s} : req'[t].pc \in Stored => AtWork(t) /\ req'[t] = req[t]
      BY <1>4, <2>1 DEF AtWork, Stored
    <3>3. ~Owned(k)' /\ object'[k] = e.content
      BY <1>1, <1>2, <1>4, <1>7, <3>1
    <3> QED BY <1>2, <1>4, <2>1, <3>1, <3>2, <3>3
  <2>2. CASE s # r
    <3>1. req'[s] = req[s] /\ AtWork(s) /\ KeyOf(req[s]) \notin endangered
      BY <1>4, <2>2 DEF Stored, AtWork
    <3>2. FitsObjects(s, req[s]) /\ KeyOf(req[s]) \in Keys
      BY <3>1, RequestType DEF Inv, Fits, Stored
    <3>3. KeyOf(req[s]) # k
      BY <1>8, <2>2, <3>1
    <3>4. \A t \in Requests \ {s} : t = r \/ req'[t] = req[t]
      BY <1>4
    <3>5. e.pc \in Stored => KeyOf(e) = k
      BY <1>2 DEF Stored
    <3> QED BY <1>4, <3>1, <3>2, <3>3, <3>4, <3>5 DEF FitsObjects
  <2> QED BY <2>1, <2>2
<1> QED BY <1>5, <1>6, <1>9, <1>10, <1>11 DEF Inv, Fits

LEMMA StoreKeeps ==
    ASSUME Inv, NEW r \in Requests, Store(r) \/ StoreUnanswered(r)
    PROVE  Inv'
<1> DEFINE q == req[r]
           e == [q EXCEPT !.pc = "compare"]
<1>1. Put(r) /\ q.pc = "store" /\ q \in Upload
  BY RequestType DEF Store, StoreUnanswered, Put, AtWork, Inv
<1>2. CASE Store(r)
  <2>1. /\ e \in Upload /\ e.pc = "compare" /\ e.op = q.op /\ e.doc = q.doc
        /\ e.number = q.number /\ e.content = q.content /\ KeyOf(e) = KeyOf(q)
    BY <1>1, GotoType
  <2>2. req' = [req EXCEPT ![r] = e]
    BY <1>2 DEF Store, Goto
  <2> HIDE DEF e
  <2> QED BY <1>1, <2>1, <2>2, PutKeeps
<1>3. CASE StoreUnanswered(r)
  BY <1>1, <1>3, IdleType, PutKeeps DEF StoreUnanswered, Return
<1> QED BY <1>2, <1>3

-----------------------------------------------------------------------------
\* A number that is not taken is the next one, whenever it was computed.
LEMMA NumberIsNext ==
    ASSUME Inv, NEW r \in Requests, req[r].pc = "commit", ~Taken(req[r])
    PROVE  LET q == req[r] IN
           /\ q.number = doc[q.doc].current + 1
           /\ q.op = "upload" => doc[q.doc].state = "none" /\ doc[q.doc].current = 0
           /\ q.op = "add_version" => doc[q.doc].state # "none"
<1> DEFINE q == req[r]
           cur == doc[q.doc].current
<1>1. /\ AtWork(r) /\ q.doc \in Docs /\ q.number \in Numbers
      /\ q.op \in {"upload", "add_version"}
  BY RequestType DEF AtWork, Inv, Upload
<1>2. cur \in 0..MaxVersion /\ q.number \in 0..MaxVersion
  BY <1>1, DocumentsAssumption DEF Inv, StateOK, Document, Numbers
<1>3. FitsRows(r, q)
  BY <1>1 DEF Inv, Fits
<1>4. ~(q.number <= cur)
  BY <1>1 DEF Inv, CurrentIsLatest, Taken
<1>5. CASE q.op = "upload"
  <2>1. cur = 0 /\ q.number = 1 /\ doc[q.doc].state = "none"
    BY <1>1, <1>3, <1>5 DEF FitsRows, Early, Inv, CurrentIsLatest
  <2> QED BY <1>5, <2>1
<1>6. CASE q.op = "add_version"
  <2>1. q.number <= cur + 1 /\ doc[q.doc].state # "none"
    BY <1>3, <1>6 DEF FitsRows, Early
  <2> QED BY <1>2, <1>4, <1>6, <2>1, DocumentsAssumption
<1> QED BY <1>1, <1>5, <1>6

\* What a commit that the unique constraint lets through does to the rows.
LEMMA InsertRows ==
    ASSUME Inv, NEW r \in Requests, req[r].pc = "commit", ~Taken(req[r]), Insert(req[r])
    PROVE  LET q == req[r] IN
           /\ doc' \in [Docs -> Document] /\ ver' \in [Docs \X Numbers -> Version]
           /\ CurrentIsLatest'
           /\ doc'[q.doc].state # "none" /\ doc[q.doc].current <= doc'[q.doc].current
           /\ \A d \in Docs \ {q.doc} : doc'[d] = doc[d]
           /\ \A v \in Docs \X Numbers : ver[v] # NoVersion => ver'[v] = ver[v]
           /\ ver'[<<q.doc, q.number>>].content = q.content
           /\ \A l \in Keys : Owned(l)' <=> Owned(l) \/ l = KeyOf(q)
<1> DEFINE q == req[r]
           v == <<q.doc, q.number>>
           new == [content |-> q.content, ext |-> q.ext]
           cur == doc[q.doc].current
<1>1. /\ AtWork(r) /\ q.doc \in Docs /\ q.number \in Numbers /\ q.ext \in Exts
      /\ q.content \in Contents /\ v \in Docs \X Numbers /\ q.op \in {"upload", "add_version"}
  BY RequestType DEF AtWork, Inv, Upload
<1>3. new \in Version /\ new # NoVersion
  <2>1. None \notin Contents
    BY DocumentsAssumption
  <2> QED BY <1>1, <2>1 DEF Version, NoVersion
<1>4. ver[v] = NoVersion
  BY DEF Taken, Exists
<1>5. /\ ver' = [ver EXCEPT ![v] = new]
      /\ doc' = [doc EXCEPT ![q.doc].current = q.number,
                            ![q.doc].state = IF q.op = "upload" THEN "live" ELSE @]
  BY DEF Insert
<1> HIDE DEF new
<1>6. /\ ver' \in [Docs \X Numbers -> Version] /\ ver'[v] = new
      /\ \A w \in Docs \X Numbers : w # v => ver'[w] = ver[w]
  BY <1>1, <1>3, <1>5 DEF Inv, StateOK
<1>7. doc[q.doc] \in Document /\ cur \in 0..MaxVersion /\ q.number \in 0..MaxVersion
  BY <1>1, DocumentsAssumption DEF Inv, StateOK, Document, Numbers
<1>8. q.number = cur + 1 /\ (q.op = "add_version" => doc[q.doc].state # "none")
  BY <1>1, NumberIsNext
<1>9. /\ doc'[q.doc] \in Document /\ doc'[q.doc].current = q.number
      /\ doc'[q.doc].state # "none"
  <2> DEFINE D == [state |-> IF q.op = "upload" THEN "live" ELSE doc[q.doc].state,
                   current |-> q.number]
  <2>1. doc'[q.doc] = D
    BY <1>1, <1>5, <1>7 DEF Inv, StateOK, Document
  <2>2. D \in Document
    BY <1>7 DEF Document
  <2> QED BY <1>1, <1>8, <2>1, <2>2
<1>10. \A d \in Docs \ {q.doc} : doc'[d] = doc[d]
  BY <1>1, <1>5 DEF Inv, StateOK
<1>11. doc' \in [Docs -> Document]
  <2>1. \A d \in Docs : doc'[d] \in Document
    BY <1>9, <1>10 DEF Inv, StateOK
  <2>2. doc' = [d \in Docs |-> doc'[d]]
    BY <1>5 DEF Inv, StateOK
  <2> QED BY <2>1, <2>2
<1>12. CurrentIsLatest'
  <2> SUFFICES ASSUME NEW d \in Docs
               PROVE  /\ \A n \in Numbers : ver'[<<d, n>>] # NoVersion <=> n <= doc'[d].current
                      /\ doc'[d].state = "none" <=> doc'[d].current = 0
    BY DEF CurrentIsLatest, Exists
  <2>1. /\ \A n \in Numbers : ver[<<d, n>>] # NoVersion <=> n <= doc[d].current
        /\ doc[d].state = "none" <=> doc[d].current = 0
    BY DEF Inv, CurrentIsLatest, Exists
  <2>2. CASE d # q.doc
    BY <1>6, <1>10, <2>1, <2>2
  <2>3. CASE d = q.doc
    <3>1. \A n \in Numbers : n # q.number => (ver'[<<d, n>>] # NoVersion <=> n <= cur)
      BY <1>6, <2>1, <2>3
    <3>2. \A n \in Numbers : n # cur + 1 => (n <= cur <=> n <= cur + 1)
      BY <1>7, DocumentsAssumption DEF Numbers
    <3>3. ver'[<<d, q.number>>] # NoVersion /\ q.number # 0
      BY <1>1, <1>3, <1>6, <2>3, DocumentsAssumption DEF Numbers
    <3>4. q.number <= q.number
      BY <1>7, DocumentsAssumption
    <3> QED BY <1>8, <1>9, <2>3, <3>1, <3>2, <3>3, <3>4
  <2> QED BY <2>2, <2>3
<1>13. \A l \in Keys : Owned(l)' <=> Owned(l) \/ l = KeyOf(q)
  <2> SUFFICES ASSUME NEW l \in Keys PROVE Owned(l)' <=> Owned(l) \/ l = KeyOf(q)
    OBVIOUS
  <2>1. l = <<l[1], l[2], l[3]>> /\ <<l[1], l[2]>> \in Docs \X Numbers
    BY DEF Keys
  <2>2. CASE <<l[1], l[2]>> = v
    BY <1>3, <1>4, <1>6, <2>1, <2>2 DEF Owned, Exists, KeyOf, new
  <2>3. CASE <<l[1], l[2]>> # v
    BY <1>6, <2>1, <2>3 DEF Owned, Exists, KeyOf
  <2> QED BY <2>2, <2>3
<1>14. cur <= doc'[q.doc].current
  BY <1>7, <1>8, <1>9, DocumentsAssumption
<1>15. \A w \in Docs \X Numbers : ver[w] # NoVersion => ver'[w] = ver[w]
  BY <1>4, <1>6
<1>16. ver'[v].content = q.content
  BY <1>6 DEF new
<1> QED BY <1>6, <1>9, <1>10, <1>11, <1>12, <1>13, <1>14, <1>15, <1>16

\* The rows are written, answered or not; the request goes on to e.
LEMMA CommitKeeps ==
    ASSUME Inv, NEW r \in Requests, req[r].pc = "commit", ~Taken(req[r]), Insert(req[r]),
           NEW e \in Upload \cup {Idle}, req' = [req EXCEPT ![r] = e], UNCHANGED object,
           endangered' = endangered \/ endangered' = endangered \cup {KeyOf(req[r])},
           e.pc \in {"idle", "refresh", "discard"},
           e.pc # "idle" => /\ e.op = req[r].op /\ e.doc = req[r].doc
                            /\ e.number = req[r].number /\ KeyOf(e) = KeyOf(req[r]),
           e.pc = "discard" => KeyOf(req[r]) \in endangered'
    PROVE  Inv'
<1> DEFINE q == req[r]
           k == KeyOf(q)
<1>1. /\ AtWork(r) /\ q \in Upload /\ q.number \in Numbers /\ q.doc \in Docs /\ k \in Keys
      /\ FitsRows(r, q) /\ FitsObjects(r, q)
  BY RequestType DEF AtWork, Inv, Fits
<1>2. /\ doc' \in [Docs -> Document] /\ ver' \in [Docs \X Numbers -> Version]
      /\ CurrentIsLatest'
      /\ doc'[q.doc].state # "none" /\ doc[q.doc].current <= doc'[q.doc].current
      /\ \A d \in Docs \ {q.doc} : doc'[d] = doc[d]
      /\ \A v \in Docs \X Numbers : ver[v] # NoVersion => ver'[v] = ver[v]
      /\ ver'[<<q.doc, q.number>>].content = q.content
      /\ \A l \in Keys : Owned(l)' <=> Owned(l) \/ l = k
  BY InsertRows
<1>3. /\ req'[r] = e /\ \A s \in Requests \ {r} : req'[s] = req[s]
      /\ endangered \subseteq endangered' /\ endangered' \in SUBSET Keys
  BY <1>1 DEF Inv, StateOK
<1>4. StateOK'
  BY <1>1, <1>2, <1>3 DEF Inv, StateOK, AtWork
<1>5. RowsKeepObjects'
  <2> SUFFICES ASSUME NEW l \in Keys, Owned(l)', l \notin endangered'
               PROVE  object[l] = ver'[<<l[1], l[2]>>].content
    BY DEF RowsKeepObjects
  <2>1. CASE Owned(l)
    <3>1. <<l[1], l[2]>> \in Docs \X Numbers /\ ver[<<l[1], l[2]>>] # NoVersion
      BY <2>1 DEF Keys, Owned, Exists
    <3> QED BY <1>2, <1>3, <2>1, <3>1 DEF Inv, RowsKeepObjects
  <2>2. CASE l = k
    <3>1. object[k] = q.content
      BY <1>1, <1>3, <2>2 DEF FitsObjects, Stored
    <3>2. l[1] = q.doc /\ l[2] = q.number
      BY <2>2 DEF KeyOf
    <3> QED BY <1>2, <2>2, <3>1, <3>2
  <2> QED BY <1>2, <2>1, <2>2
<1>6. \A s \in Requests : AtWork(s)' => FitsRows(s, req[s])'
  <2> SUFFICES ASSUME NEW s \in Requests, AtWork(s)' PROVE FitsRows(s, req[s])'
    OBVIOUS
  <2>1. CASE s = r
    BY <1>2, <1>3, <2>1 DEF FitsRows, Early, AtWork
  <2>2. CASE s # r
    <3>1. AtWork(s) /\ req'[s] = req[s] /\ FitsRows(s, req[s]) /\ req[s].doc \in Docs
          /\ req[s].number \in Int
      BY <1>3, <2>2, RequestType, DocumentsAssumption DEF AtWork, Inv, Fits
    <3>2. \A t \in Requests \ {s} : AtWork(t)' => AtWork(t) /\ req'[t].doc = req[t].doc
      BY <1>1, <1>3 DEF AtWork
    <3>3. CASE req[s].doc = q.doc
      <4>1. ~(req[s].op = "upload" /\ req[s].pc \in Early)
        BY <1>1, <2>2, <3>1, <3>3 DEF FitsRows
      <4>2. doc[q.doc].current \in Int /\ doc'[q.doc].current \in Int
        BY <1>1, <1>2 DEF Inv, StateOK, Document
      <4> QED BY <1>2, <3>1, <3>3, <4>1, <4>2 DEF FitsRows
    <3>4. CASE req[s].doc # q.doc
      <4>1. doc'[req[s].doc] = doc[req[s].doc]
        BY <1>2, <3>1, <3>4
      <4> QED BY <3>1, <3>2, <4>1 DEF FitsRows
    <3> QED BY <3>3, <3>4
  <2> QED BY <2>1, <2>2
<1>7. \A s \in Requests : AtWork(s)' => FitsObjects(s, req[s])'
  <2> SUFFICES ASSUME NEW s \in Requests, AtWork(s)', req'[s].pc \in Stored,
                      KeyOf(req'[s]) \notin endangered'
               PROVE  /\ \A l : l = KeyOf(req'[s]) /\ req'[s].pc # "refresh" => ~Owned(l)'
                      /\ req'[s].pc \in {"compare", "commit"} =>
                           object[KeyOf(req'[s])] = req'[s].content
                      /\ \A t \in Requests \ {s} :
                           req'[t].pc \in Stored => KeyOf(req'[t]) # KeyOf(req'[s])
    BY DEF FitsObjects, KeyOf, Owned, Exists
  <2>1. CASE s = r
    <3>1. req'[s] = e /\ e.pc = "refresh" /\ KeyOf(e) = k /\ k \notin endangered
      BY <1>3, <2>1 DEF AtWork
    <3>2. \A t \in Requests \ {r} : req[t].pc \in Stored => KeyOf(req[t]) # k
      BY <1>1, <3>1 DEF FitsObjects, Stored
    <3> QED BY <1>3, <2>1, <3>1, <3>2
  <2>2. CASE s # r
    <3>1. /\ req'[s] = req[s] /\ AtWork(s) /\ KeyOf(req[s]) \notin endangered
          /\ KeyOf(req[s]) \in Keys /\ FitsObjects(s, req[s])
      BY <1>3, <2>2, RequestType DEF Inv, Fits, Stored, AtWork
    <3>2. KeyOf(req[s]) # k
      BY <2>2, <3>1 DEF FitsObjects, Stored
    <3>3. \A t \in Requests \ {s} : req'[t] = req[t] \/ (t = r /\ req'[t] = e)
      BY <1>3
    <3>4. e.pc \in Stored => KeyOf(e) = k
      BY DEF Stored
    <3> QED BY <1>2, <2>2, <3>1, <3>2, <3>3, <3>4 DEF FitsObjects
  <2> QED BY <2>1, <2>2
<1> QED BY <1>2, <1>4, <1>5, <1>6, <1>7 DEF Inv, Fits

\* An object is deleted by the request that stored it, or failed to keep it.
LEMMA DiscardKeeps == ASSUME Inv, NEW r \in Requests, Discard(r) PROVE Inv'
<1> DEFINE k == KeyOf(req[r])
<1>1. AtWork(r) /\ k \in Keys /\ FitsObjects(r, req[r]) /\ req[r].pc = "discard"
  BY RequestType DEF Discard, AtWork, Inv, Fits
<1>2. /\ object' = [object EXCEPT ![k] = None] /\ req' = [req EXCEPT ![r] = Idle]
      /\ UNCHANGED <<doc, ver, endangered>>
  BY DEF Discard, Return
<1>3. /\ req'[r] = Idle /\ \A s \in Requests \ {r} : req'[s] = req[s]
      /\ \A l \in Keys : l # k => object'[l] = object[l]
  BY <1>2 DEF Inv, StateOK
<1>4. StateOK'
  BY <1>1, <1>2, <1>3, IdleType DEF Inv, StateOK, AtWork
<1>5. CurrentIsLatest'
  BY <1>2 DEF Inv, CurrentIsLatest, Exists
<1>6. RowsKeepObjects'
  <2> SUFFICES ASSUME NEW l \in Keys, Owned(l), l \notin endangered
               PROVE  object'[l] = ver[<<l[1], l[2]>>].content
    BY <1>2 DEF RowsKeepObjects, Owned, Exists
  <2>1. l # k
    BY <1>1 DEF FitsObjects, Stored
  <2> QED BY <1>3, <2>1 DEF Inv, RowsKeepObjects
<1>7. \A s \in Requests : AtWork(s)' => s # r /\ AtWork(s) /\ req'[s] = req[s]
  BY <1>3, IdleType DEF AtWork
<1>8. \A s \in Requests : AtWork(s)' => FitsRows(s, req[s])'
  <2> SUFFICES ASSUME NEW s \in Requests, AtWork(s)' PROVE FitsRows(s, req[s])'
    OBVIOUS
  <2>1. FitsRows(s, req[s]) /\ req'[s] = req[s]
    BY <1>7 DEF Inv, Fits
  <2>2. \A t \in Requests \ {s} : AtWork(t)' => AtWork(t) /\ req'[t] = req[t]
    BY <1>7
  <2> QED BY <1>2, <2>1, <2>2 DEF FitsRows
<1>9. \A s \in Requests : AtWork(s)' => FitsObjects(s, req[s])'
  <2> SUFFICES ASSUME NEW s \in Requests, AtWork(s)', req'[s].pc \in Stored,
                      KeyOf(req'[s]) \notin endangered
               PROVE  /\ \A l : l = KeyOf(req'[s]) /\ req'[s].pc # "refresh" => ~Owned(l)
                      /\ req'[s].pc \in {"compare", "commit"} =>
                           object'[KeyOf(req'[s])] = req'[s].content
                      /\ \A t \in Requests \ {s} :
                           req'[t].pc \in Stored => KeyOf(req'[t]) # KeyOf(req'[s])
    BY <1>2 DEF FitsObjects, KeyOf, Owned, Exists
  <2>1. /\ s # r /\ AtWork(s) /\ req'[s] = req[s] /\ KeyOf(req[s]) \in Keys
        /\ FitsObjects(s, req[s])
    BY <1>7, RequestType DEF Inv, Fits, Stored
  <2>2. KeyOf(req[s]) # k
    BY <1>1, <2>1 DEF FitsObjects, Stored
  <2>3. \A t \in Requests \ {s} : req'[t].pc \in Stored => req'[t] = req[t]
    BY <1>3, IdleType DEF Stored
  <2> QED BY <1>3, <2>1, <2>2, <2>3 DEF FitsObjects
<1> QED BY <1>4, <1>5, <1>6, <1>8, <1>9 DEF Inv, Fits

\* The read after the commit fails: the row stays and its key is endangered.
LEMMA RefreshFailsKeeps == ASSUME Inv, NEW r \in Requests, RefreshFails(r) PROVE Inv'
<1> DEFINE q == req[r]
           k == KeyOf(q)
           e == [q EXCEPT !.pc = "discard"]
<1>1. AtWork(r) /\ q \in Upload /\ q.number \in Numbers /\ k \in Keys /\ q.pc = "refresh"
  BY RequestType DEF RefreshFails, AtWork, Inv
<1>2. /\ e \in Upload /\ e.pc = "discard" /\ e.op = q.op /\ e.doc = q.doc
      /\ e.number = q.number /\ KeyOf(e) = k
  BY <1>1, GotoType
<1>3. /\ endangered' = endangered \cup {k} /\ req' = [req EXCEPT ![r] = e]
      /\ UNCHANGED <<doc, ver, object>>
  BY DEF RefreshFails, Goto
<1> HIDE DEF e
<1>4. req'[r] = e /\ \A s \in Requests \ {r} : req'[s] = req[s]
  BY <1>3 DEF Inv, StateOK
<1>5. StateOK'
  BY <1>1, <1>2, <1>3, <1>4 DEF Inv, StateOK, AtWork
<1>6. CurrentIsLatest' /\ RowsKeepObjects'
  BY <1>3 DEF Inv, CurrentIsLatest, RowsKeepObjects, Owned, Exists
<1>7. \A t \in Requests : (AtWork(t)' <=> AtWork(t)) /\ req'[t].doc = req[t].doc
                          /\ KeyOf(req'[t]) = KeyOf(req[t])
                          /\ (req'[t].pc \in Stored => req[t].pc \in Stored)
  BY <1>1, <1>2, <1>4 DEF AtWork, Stored
<1>8. \A s \in Requests : AtWork(s)' => FitsRows(s, req[s])'
  <2> SUFFICES ASSUME NEW s \in Requests, AtWork(s)' PROVE FitsRows(s, req[s])'
    OBVIOUS
  <2>1. FitsRows(s, req[s])
    BY <1>7 DEF Inv, Fits
  <2>2. CASE s = r
    BY <1>1, <1>2, <1>3, <1>4, <2>1, <2>2 DEF FitsRows, Early
  <2>3. CASE s # r
    BY <1>3, <1>4, <1>7, <2>1, <2>3 DEF FitsRows
  <2> QED BY <2>2, <2>3
<1>9. \A s \in Requests : AtWork(s)' => FitsObjects(s, req[s])'
  <2> SUFFICES ASSUME NEW s \in Requests, AtWork(s)', req'[s].pc \in Stored,
                      KeyOf(req'[s]) \notin endangered'
               PROVE  /\ \A l : l = KeyOf(req'[s]) /\ req'[s].pc # "refresh" => ~Owned(l)
                      /\ req'[s].pc \in {"compare", "commit"} =>
                           object[KeyOf(req'[s])] = req'[s].content
                      /\ \A t \in Requests \ {s} :
                           req'[t].pc \in Stored => KeyOf(req'[t]) # KeyOf(req'[s])
    BY <1>3 DEF FitsObjects, KeyOf, Owned, Exists
  <2>1. s # r /\ KeyOf(req[s]) \notin endangered
    BY <1>2, <1>3, <1>4
  <2>2. req'[s] = req[s] /\ FitsObjects(s, req[s])
    BY <1>4, <1>7, <2>1 DEF Inv, Fits
  <2> QED BY <1>7, <2>1, <2>2 DEF FitsObjects
<1> QED BY <1>5, <1>6, <1>8, <1>9 DEF Inv, Fits

LEMMA DeleteKeeps == ASSUME Inv, NEW d \in Docs, Delete(d) PROVE Inv'
<1>1. /\ doc[d] \in Document /\ doc[d].state = "live"
      /\ doc' = [doc EXCEPT ![d].state = "deleted"]
      /\ UNCHANGED <<ver, object, req, endangered>>
  BY DEF Delete, Inv, StateOK
<1>2. /\ doc' \in [Docs -> Document]
      /\ \A c \in Docs : /\ doc'[c].current = doc[c].current
                         /\ doc'[c].state = "none" <=> doc[c].state = "none"
  BY <1>1 DEF Inv, StateOK, Document
<1>3. StateOK' /\ CurrentIsLatest' /\ RowsKeepObjects'
  BY <1>1, <1>2 DEF Inv, StateOK, CurrentIsLatest, RowsKeepObjects, Owned, Exists, AtWork
<1>4. ASSUME NEW s \in Requests, AtWork(s)'
      PROVE  FitsRows(s, req[s])' /\ FitsObjects(s, req[s])'
  <2>1. AtWork(s) /\ FitsRows(s, req[s]) /\ FitsObjects(s, req[s]) /\ req[s].doc \in Docs
    BY <1>1, <1>4, RequestType DEF Inv, Fits, AtWork
  <2>2. FitsRows(s, req[s])'
    BY <1>1, <1>2, <2>1 DEF FitsRows, AtWork
  <2>3. FitsObjects(s, req[s])'
    BY <1>1, <2>1 DEF FitsObjects, Owned, Exists, KeyOf
  <2> QED BY <2>2, <2>3
<1> QED BY <1>3, <1>4 DEF Inv, Fits

-----------------------------------------------------------------------------
\* The commit of an upload ends it, that of a revision leads to the refresh.
LEMMA CommitStepsKeep ==
    ASSUME Inv, NEW r \in Requests, Commit(r) \/ CommitUnanswered(r)
    PROVE  Inv'
<1> DEFINE q == req[r]
           E(pc) == [q EXCEPT !.pc = pc]
<1>1. q.pc = "commit" /\ ~Taken(q) /\ Insert(q) /\ UNCHANGED object
  BY DEF Commit, CommitUnanswered
<1>2. q \in Upload
  BY <1>1, RequestType DEF AtWork, Inv
<1>3. \A pc \in {"refresh", "discard"} :
        /\ E(pc) \in Upload /\ E(pc).pc = pc /\ E(pc).op = q.op /\ E(pc).doc = q.doc
        /\ E(pc).number = q.number /\ KeyOf(E(pc)) = KeyOf(q)
  <2> SUFFICES ASSUME NEW pc \in {"refresh", "discard"}
               PROVE  /\ E(pc) \in Upload /\ E(pc).pc = pc /\ E(pc).op = q.op
                      /\ E(pc).doc = q.doc /\ E(pc).number = q.number
                      /\ KeyOf(E(pc)) = KeyOf(q)
    OBVIOUS
  <2>1. pc \in {"number", "store", "compare", "commit", "refresh", "discard"}
    OBVIOUS
  <2> QED BY <1>2, <2>1, GotoType
<1>4. CASE Commit(r) /\ q.op = "upload"
  <2>1. req' = [req EXCEPT ![r] = Idle] /\ endangered' = endangered
    BY <1>4 DEF Commit, Return
  <2> QED BY <1>1, <2>1, IdleType, CommitKeeps
<1>5. CASE Commit(r) /\ q.op # "upload"
  <2>1. req' = [req EXCEPT ![r] = E("refresh")] /\ endangered' = endangered
    BY <1>5 DEF Commit, Goto
  <2> HIDE DEF E
  <2> QED BY <1>1, <1>3, <2>1, CommitKeeps
<1>6. CASE CommitUnanswered(r)
  <2>1. req' = [req EXCEPT ![r] = E("discard")] /\ endangered' = endangered \cup {KeyOf(q)}
    BY <1>6 DEF CommitUnanswered, Goto
  <2> HIDE DEF E
  <2> QED BY <1>1, <1>3, <2>1, CommitKeeps
<1> QED BY <1>4, <1>5, <1>6

LEMMA InvNext == Inv /\ [Next]_vars => Inv'
<1> SUFFICES ASSUME Inv, [Next]_vars PROVE Inv'
  OBVIOUS
<1>1. CASE UNCHANGED vars
  BY <1>1 DEF vars, Inv, StateOK, CurrentIsLatest, RowsKeepObjects, Fits, FitsRows,
              FitsObjects, Owned, Exists, KeyOf, AtWork
<1>2. ASSUME NEW d \in Docs, Delete(d) PROVE Inv'
  BY <1>2, DeleteKeeps
<1>3. ASSUME NEW r \in Requests, NEW d \in Docs, NEW c \in Contents, NEW x \in Exts,
             BeginUpload(r, d, c, x) \/ BeginAddVersion(r, d, c, x)
      PROVE  Inv'
  BY <1>3, BeginUploadKeeps, BeginAddVersionKeeps
<1>4. ASSUME NEW r \in Requests,
             StoreFails(r) \/ ReadFails(r) \/ Refresh(r) \/ DiscardFails(r) \/ Crash(r)
      PROVE  Inv'
  BY <1>4, ReturnKeeps DEF StoreFails, ReadFails, Refresh, DiscardFails, Crash
<1>5. ASSUME NEW r \in Requests, Compare(r) PROVE Inv'
  <2>1. \E pc \in {"commit", "discard"} : Goto(r, pc)
    BY <1>5 DEF Compare
  <2>2. req[r].pc = "compare" /\ UNCHANGED <<doc, ver, object, endangered>>
    BY <1>5 DEF Compare
  <2> QED BY <2>1, <2>2, MovesOnKeeps
<1>6. ASSUME NEW r \in Requests, CommitFails(r) PROVE Inv'
  BY <1>6, MovesOnKeeps DEF CommitFails
<1>7. ASSUME NEW r \in Requests,
             NextNumber(r) \/ Store(r) \/ StoreUnanswered(r) \/ Commit(r)
             \/ CommitUnanswered(r) \/ RefreshFails(r) \/ Discard(r)
      PROVE  Inv'
  BY <1>7, NextNumberKeeps, StoreKeeps, CommitStepsKeep, RefreshFailsKeeps, DiscardKeeps
<1> QED BY <1>1, <1>2, <1>3, <1>4, <1>5, <1>6, <1>7 DEF Next

LEMMA Invariance == Spec => []Inv
<1> QED BY InvInit, InvNext, PTL DEF Spec

\* The only steps that write versions are the commits, and they keep the rest.
LEMMA VersionsStay ==
    Inv /\ [Next]_vars => [\A v \in Docs \X Numbers : ver[v] # NoVersion => ver'[v] = ver[v]]_vars
<1> SUFFICES ASSUME Inv, Next, NEW v \in Docs \X Numbers, ver[v] # NoVersion
             PROVE  ver'[v] = ver[v]
  OBVIOUS
<1>1. ASSUME NEW r \in Requests, Commit(r) \/ CommitUnanswered(r) PROVE ver'[v] = ver[v]
  <2>1. req[r].pc = "commit" /\ ~Taken(req[r]) /\ Insert(req[r])
    BY <1>1 DEF Commit, CommitUnanswered
  <2> QED BY <2>1, InsertRows
<1>2. ASSUME ver' = ver PROVE ver'[v] = ver[v]
  BY <1>2
<1> QED BY <1>1, <1>2
     DEF Next, BeginUpload, BeginAddVersion, NextNumber, Put, Store, StoreUnanswered,
         StoreFails, ReadFails,
         Compare, CommitFails, Refresh, RefreshFails, Discard, DiscardFails, Crash, Delete

-----------------------------------------------------------------------------
\* What is known of garbage: the keys given up are keys, and the others with an
\* object have somebody who will see to it.
Swept == forsaken \in SUBSET Keys /\ NoOrphans

\* A request that waits for the refresh has its row.
Refreshing ==
    \A r \in Requests : \A k \in Keys :
      req[r].pc = "refresh" /\ k = KeyOf(req[r]) => Owned(k)

LEMMA SweptInit == Init => Swept /\ Refreshing
BY DEF Init, Swept, NoOrphans, Refreshing, Idle

LEMMA OnlyCommitsRefresh ==
    ASSUME Inv, Next, NEW s \in Requests, req'[s].pc = "refresh"
    PROVE  req'[s] = req[s] \/ Commit(s)
<1>1. ASSUME NEW r \in Requests, NEW e, e.pc # "refresh", req' = [req EXCEPT ![r] = e]
      PROVE  req'[s] = req[s]
  BY <1>1 DEF Inv, StateOK
<1>2. ASSUME NEW r \in Requests, Return(r) PROVE req'[s] = req[s]
  BY <1>1, <1>2, IdleType DEF Return
<1>3. ASSUME NEW r \in Requests, AtWork(r), NEW pc \in {"compare", "commit", "discard"},
             Goto(r, pc)
      PROVE  req'[s] = req[s]
  BY <1>3, RequestType DEF Goto, Inv, StateOK, Upload
<1>4. ASSUME NEW r \in Requests, NEW d \in Docs, NEW c \in Contents, NEW x \in Exts,
             BeginUpload(r, d, c, x) \/ BeginAddVersion(r, d, c, x)
      PROVE  req'[s] = req[s]
  BY <1>4 DEF BeginUpload, BeginAddVersion, Inv, StateOK
<1>5. ASSUME NEW r \in Requests, NextNumber(r) PROVE req'[s] = req[s]
  BY <1>5, RequestType DEF NextNumber, AtWork, Inv, StateOK, Upload
<1>6. ASSUME NEW r \in Requests,
             StoreUnanswered(r) \/ StoreFails(r) \/ ReadFails(r) \/ Refresh(r)
             \/ Discard(r) \/ DiscardFails(r) \/ Crash(r)
      PROVE  req'[s] = req[s]
  BY <1>2, <1>6
     DEF StoreUnanswered, StoreFails, ReadFails, Refresh, Discard, DiscardFails, Crash
<1>7. ASSUME NEW r \in Requests,
             Store(r) \/ Compare(r) \/ CommitFails(r) \/ CommitUnanswered(r)
             \/ RefreshFails(r)
      PROVE  req'[s] = req[s]
  <2>1. AtWork(r) /\ \E pc \in {"compare", "commit", "discard"} : Goto(r, pc)
    BY <1>7 DEF Store, Put, Compare, CommitFails, CommitUnanswered, RefreshFails, AtWork
  <2> QED BY <1>3, <2>1
<1>8. ASSUME NEW r \in Requests, Commit(r) PROVE req'[s] = req[s] \/ Commit(s)
  <2>1. CASE s = r
    BY <1>8, <2>1
  <2>2. CASE s # r
    BY <1>8, <2>2 DEF Commit, Return, Goto, Inv, StateOK
  <2> QED BY <2>1, <2>2
<1>9. ASSUME NEW d \in Docs, Delete(d) PROVE req'[s] = req[s]
  BY <1>9 DEF Delete
<1> QED BY <1>4, <1>5, <1>6, <1>7, <1>8, <1>9 DEF Next

LEMMA RefreshingNext == Inv /\ Refreshing /\ [Next]_vars => Refreshing'
<1> SUFFICES ASSUME Inv, Refreshing, [Next]_vars, NEW s \in Requests, NEW k \in Keys,
                    req'[s].pc = "refresh", k = KeyOf(req'[s])
             PROVE  Owned(k)'
  BY DEF Refreshing, KeyOf
<1>1. CASE UNCHANGED vars
  BY <1>1 DEF vars, Refreshing, Owned, Exists
<1>2. CASE Next /\ req'[s] = req[s]
  <2>1. Owned(k)
    BY <1>2 DEF Refreshing
  <2>2. <<k[1], k[2]>> \in Docs \X Numbers
    BY DEF Keys
  <2>3. ver'[<<k[1], k[2]>>] = ver[<<k[1], k[2]>>]
    BY <1>2, <2>1, <2>2, VersionsStay DEF Owned, Exists, vars
  <2> QED BY <2>1, <2>3 DEF Owned, Exists
<1>3. CASE Commit(s)
  <2>1. req[s].pc = "commit" /\ ~Taken(req[s]) /\ Insert(req[s]) /\ req[s] \in Upload
    BY <1>3, RequestType DEF Commit, AtWork, Inv
  <2>2. Goto(s, "refresh") \/ Return(s)
    BY <1>3 DEF Commit
  <2>3. KeyOf(req'[s]) = KeyOf(req[s])
    BY <2>1, <2>2, IdleType DEF Goto, Return, KeyOf, Upload, Inv, StateOK
  <2> QED BY <2>1, <2>3, InsertRows
<1> QED BY <1>1, <1>2, <1>3, OnlyCommitsRefresh

\* A request goes on with what it stored, or stores nothing and ends; nobody is
\* forgotten while no object appears.
LEMMA StillSwept ==
    ASSUME Inv, Swept, NEW r \in Requests, NEW e, req' = [req EXCEPT ![r] = e],
           \A l \in Keys : Owned(l) => Owned(l)',
           \A l \in Keys : object'[l] # None =>
              \/ object[l] # None
              \/ HasStored(r)' /\ KeyOf(e) = l
              \/ l \in forsaken',
           \A l \in Keys : HasStored(r) /\ l = KeyOf(req[r]) =>
              \/ HasStored(r)' /\ KeyOf(e) = l
              \/ Owned(l)' \/ l \in forsaken' \/ object'[l] = None,
           forsaken \subseteq forsaken', forsaken' \in SUBSET Keys
    PROVE  Swept'
<1>1. req'[r] = e /\ \A s \in Requests \ {r} : req'[s] = req[s]
  BY DEF Inv, StateOK
<1>2. SUFFICES ASSUME NEW l \in Keys, object'[l] # None, l \notin forsaken', ~Owned(l)'
               PROVE  \E s \in Requests : HasStored(s)' /\ KeyOf(req'[s]) = l
  BY DEF Swept, NoOrphans, KeyOf, HasStored
<1>3. CASE HasStored(r)' /\ KeyOf(e) = l
  BY <1>1, <1>3
<1>4. CASE object[l] # None
  <2>1. l \notin forsaken /\ ~Owned(l)
    BY <1>2
  <2>2. PICK s \in Requests : HasStored(s) /\ KeyOf(req[s]) = l
    BY <1>4, <2>1 DEF Swept, NoOrphans
  <2>3. CASE s # r
    BY <1>1, <2>2, <2>3 DEF HasStored
  <2>4. CASE s = r
    BY <1>1, <1>2, <2>2, <2>4
  <2> QED BY <2>3, <2>4
<1> QED BY <1>2, <1>3, <1>4

\* A step of a request that has stored nothing, and stores nothing.
LEMMA NothingToSweep ==
    ASSUME Inv, Swept, NEW r \in Requests, ~HasStored(r), NEW e,
           req' = [req EXCEPT ![r] = e], UNCHANGED <<ver, object, forsaken>>
    PROVE  Swept'
<1>1. \A l \in Keys : Owned(l) => Owned(l)'
  BY DEF Owned, Exists
<1>2. forsaken' \in SUBSET Keys
  BY DEF Swept
<1> QED BY <1>1, <1>2, StillSwept

\* A step that goes on with what it stored.
LEMMA CarriesOn ==
    ASSUME Inv, Swept, NEW r \in Requests, HasStored(r), UNCHANGED <<object, forsaken>>,
           \A l \in Keys : Owned(l) => Owned(l)',
           NEW pc \in {"commit", "refresh", "discard"}, Goto(r, pc)
    PROVE  Swept'
<1> DEFINE e == [req[r] EXCEPT !.pc = pc]
<1>1. AtWork(r) /\ req[r] \in Upload
  BY RequestType DEF HasStored, AtWork, Inv
<1>2. e.pc = pc /\ KeyOf(e) = KeyOf(req[r])
  <2>1. pc \in {"number", "store", "compare", "commit", "refresh", "discard"}
    OBVIOUS
  <2> QED BY <1>1, <2>1, GotoType
<1>3. req' = [req EXCEPT ![r] = e]
  BY DEF Goto
<1> HIDE DEF e
<1>4. HasStored(r)'
  BY <1>2, <1>3 DEF HasStored, Inv, StateOK
<1>5. forsaken' \in SUBSET Keys
  BY DEF Swept
<1> QED BY <1>2, <1>3, <1>4, <1>5, StillSwept

\* A request ends; what it stored has a row, is gone or is given up.
LEMMA EndsSwept ==
    ASSUME Inv, Swept, NEW r \in Requests, HasStored(r), Return(r),
           \A l \in Keys : Owned(l) => Owned(l)',
           \A l \in Keys : object'[l] = object[l] \/ object'[l] = None,
           \/ Forsake(r)
           \/ /\ UNCHANGED forsaken
              /\ \A l \in Keys : l = KeyOf(req[r]) => Owned(l)' \/ object'[l] = None
    PROVE  Swept'
<1>1. KeyOf(req[r]) \in Keys
  BY RequestType DEF HasStored, AtWork, Inv
<1>2. forsaken \subseteq forsaken' /\ forsaken' \in SUBSET Keys
  BY <1>1 DEF Swept, Forsake
<1>3. \A l \in Keys : l = KeyOf(req[r]) =>
        Owned(l)' \/ l \in forsaken' \/ object'[l] = None
  BY DEF Forsake
<1>4. \A l \in Keys : object'[l] # None => object[l] # None
  OBVIOUS
<1>5. req' = [req EXCEPT ![r] = Idle]
  BY DEF Return
<1> QED BY <1>2, <1>3, <1>4, <1>5, StillSwept

\* The bytes are stored: the request has them, or gave them up with the answer.
LEMMA PutSwept ==
    ASSUME Inv, Swept, NEW r \in Requests, Put(r),
           \/ Goto(r, "compare") /\ UNCHANGED forsaken
           \/ Return(r) /\ Forsake(r)
    PROVE  Swept'
<1> DEFINE k == KeyOf(req[r])
           e == [req[r] EXCEPT !.pc = "compare"]
<1>1. AtWork(r) /\ req[r] \in Upload /\ k \in Keys /\ ~HasStored(r)
  BY RequestType DEF Put, HasStored, AtWork, Inv
<1>2. e.pc = "compare" /\ KeyOf(e) = k
  BY <1>1, GotoType
<1>3. UNCHANGED ver /\ \A l \in Keys : l # k => object'[l] = object[l]
  BY DEF Put, Inv, StateOK
<1>4. \A l \in Keys : Owned(l) => Owned(l)'
  BY <1>3 DEF Owned, Exists
<1>5. forsaken \subseteq forsaken' /\ forsaken' \in SUBSET Keys
  BY <1>1 DEF Swept, Forsake
<1>6. CASE Goto(r, "compare") /\ UNCHANGED forsaken
  <2>1. req' = [req EXCEPT ![r] = e]
    BY <1>6 DEF Goto
  <2> HIDE DEF e
  <2>2. HasStored(r)'
    BY <1>2, <2>1 DEF HasStored, Inv, StateOK
  <2> QED BY <1>1, <1>2, <1>3, <1>4, <1>5, <2>1, <2>2, StillSwept
<1>7. CASE Return(r) /\ Forsake(r)
  <2>1. req' = [req EXCEPT ![r] = Idle] /\ k \in forsaken'
    BY <1>7 DEF Return, Forsake
  <2> QED BY <1>1, <1>3, <1>4, <1>5, <2>1, StillSwept
<1> QED BY <1>6, <1>7

LEMMA SweptNext == Inv /\ Refreshing /\ Swept /\ [Next]_vars => Swept'
<1> SUFFICES ASSUME Inv, Refreshing, Swept, [Next]_vars PROVE Swept'
  OBVIOUS
<1>1. ASSUME UNCHANGED <<ver, object, req, forsaken>> PROVE Swept'
  BY <1>1 DEF Swept, NoOrphans, Owned, Exists, KeyOf, HasStored
<1>2. ASSUME UNCHANGED ver PROVE \A l \in Keys : Owned(l) => Owned(l)'
  BY <1>2 DEF Owned, Exists
<1>3. ASSUME NEW r \in Requests, NEW d \in Docs, NEW c \in Contents, NEW x \in Exts,
             BeginUpload(r, d, c, x) \/ BeginAddVersion(r, d, c, x)
      PROVE  Swept'
  BY <1>3, NothingToSweep DEF BeginUpload, BeginAddVersion, AtWork, HasStored
<1>4. ASSUME NEW r \in Requests, NextNumber(r) \/ StoreFails(r) PROVE Swept'
  <2>1. /\ ~HasStored(r) /\ UNCHANGED <<ver, object, forsaken>>
        /\ \E e : req' = [req EXCEPT ![r] = e]
    BY <1>4 DEF NextNumber, StoreFails, HasStored, Return
  <2> QED BY <2>1, NothingToSweep
<1>5. ASSUME NEW r \in Requests, Store(r) \/ StoreUnanswered(r) PROVE Swept'
  BY <1>5, PutSwept DEF Store, StoreUnanswered
<1>6. ASSUME NEW r \in Requests, ReadFails(r) \/ DiscardFails(r) \/ Crash(r) PROVE Swept'
  <2>1. UNCHANGED <<ver, object>> /\ Return(r)
    BY <1>6 DEF ReadFails, DiscardFails, Crash
  <2>2. CASE HasStored(r)
    <3>1. Forsake(r)
      BY <1>6, <2>2 DEF ReadFails, DiscardFails, Crash
    <3> QED BY <1>2, <2>1, <2>2, <3>1, EndsSwept
  <2>3. CASE ~HasStored(r)
    <3>1. UNCHANGED forsaken
      BY <1>6, <2>3 DEF ReadFails, DiscardFails, Crash, HasStored
    <3> QED BY <2>1, <2>3, <3>1, NothingToSweep DEF Return
  <2> QED BY <2>2, <2>3
<1>7. ASSUME NEW r \in Requests, Compare(r) \/ CommitFails(r) \/ RefreshFails(r)
      PROVE  Swept'
  <2>1. /\ HasStored(r) /\ UNCHANGED <<ver, object, forsaken>>
        /\ \E pc \in {"commit", "refresh", "discard"} : Goto(r, pc)
    BY <1>7 DEF Compare, CommitFails, RefreshFails, HasStored
  <2> QED BY <1>2, <2>1, CarriesOn
<1>8. ASSUME NEW r \in Requests, Commit(r) \/ CommitUnanswered(r) PROVE Swept'
  <2>1. /\ req[r].pc = "commit" /\ ~Taken(req[r]) /\ Insert(req[r])
        /\ UNCHANGED <<object, forsaken>> /\ HasStored(r)
    BY <1>8 DEF Commit, CommitUnanswered, HasStored
  <2>2. \A l \in Keys : Owned(l)' <=> Owned(l) \/ l = KeyOf(req[r])
    BY <2>1, InsertRows
  <2>3. Return(r) \/ \E pc \in {"commit", "refresh", "discard"} : Goto(r, pc)
    BY <1>8 DEF Commit, CommitUnanswered
  <2> QED BY <2>1, <2>2, <2>3, CarriesOn, EndsSwept
<1>9. ASSUME NEW r \in Requests, Refresh(r) PROVE Swept'
  <2>1. HasStored(r) /\ UNCHANGED <<ver, object, forsaken>> /\ Return(r)
    BY <1>9 DEF Refresh, HasStored
  <2>2. \A l \in Keys : l = KeyOf(req[r]) => Owned(l)
    BY <1>9 DEF Refreshing, Refresh
  <2> QED BY <1>2, <2>1, <2>2, EndsSwept
<1>10. ASSUME NEW r \in Requests, Discard(r) PROVE Swept'
  <2>1. /\ HasStored(r) /\ UNCHANGED <<ver, forsaken>> /\ Return(r)
        /\ object' = [object EXCEPT ![KeyOf(req[r])] = None]
    BY <1>10 DEF Discard, HasStored
  <2>2. \A l \in Keys : /\ object'[l] = object[l] \/ object'[l] = None
                       /\ l = KeyOf(req[r]) => object'[l] = None
    BY <2>1 DEF Inv, StateOK
  <2> QED BY <1>2, <2>1, <2>2, EndsSwept
<1>11. ASSUME NEW d \in Docs, Delete(d) PROVE Swept'
  BY <1>1, <1>11 DEF Delete
<1> QED BY <1>1, <1>3, <1>4, <1>5, <1>6, <1>7, <1>8, <1>9, <1>10, <1>11 DEF Next, vars

LEMMA SweptAlways == Spec => []Swept
<1> QED BY Invariance, SweptInit, RefreshingNext, SweptNext, PTL DEF Spec

\* Rows, objects and requests keep their types through every race and fault.
THEOREM DocumentsTypeCorrect == Spec => []TypeOK
<1>1. Inv /\ Swept => TypeOK
  BY DEF Inv, Swept, TypeOK
<1> QED BY Invariance, SweptAlways, <1>1, PTL

\* No race of uploads leaves a gap in the versions of a document, and
\* current_version always names the last one.
THEOREM CurrentCorrect == Spec => []CurrentIsLatest
<1>1. Inv => CurrentIsLatest
  BY DEF Inv
<1> QED BY Invariance, <1>1, PTL

\* A row loses its object only through a key two requests wrote, or through
\* the cleanup of a request that failed after its commit.
THEOREM ObjectsCorrect == Spec => []RowsKeepObjects
<1>1. Inv => RowsKeepObjects
  BY DEF Inv
<1> QED BY Invariance, <1>1, PTL

\* No path of an upload leaves an object behind that neither a row nor a request
\* has, but for the faults that take its cleanup away.
THEOREM GarbageIsNamed == Spec => []NoOrphans
<1>1. Swept => NoOrphans
  BY DEF Swept
<1> QED BY SweptAlways, <1>1, PTL

\* A recorded version is never rewritten, whichever requests race.
THEOREM VersionsImmutable == Spec => VersionsAreImmutable
<1> QED BY Invariance, VersionsStay, PTL DEF Spec, VersionsAreImmutable

-----------------------------------------------------------------------------
\* The revisions of a document, read off the rows.
History(d) == [n \in 1..doc[d].current |-> ver[<<d, n>>].content]

Live == {d \in Docs : doc[d].state = "live"}

LEMMA HistoryType ==
    ASSUME Inv, NEW d \in Docs
    PROVE  /\ History(d) \in Seq(Contents)
           /\ Len(History(d)) = doc[d].current
           /\ \A n \in 1..doc[d].current : History(d)[n] = ver[<<d, n>>].content
           /\ doc[d].current \in Nat
           /\ doc[d].current = 0 <=> doc[d].state = "none"
<1>1. doc[d].current \in Nat /\ doc[d].current <= MaxVersion /\ MaxVersion \in Nat
  BY DocumentsAssumption DEF Inv, StateOK, Document
<1>2. ASSUME NEW n \in 1..doc[d].current PROVE ver[<<d, n>>].content \in Contents
  <2>1. n \in Numbers /\ n <= doc[d].current
    BY <1>1 DEF Numbers
  <2>2. Exists(d, n) /\ ver[<<d, n>>] \in Version
    BY <2>1 DEF Inv, StateOK, CurrentIsLatest
  <2> QED BY <2>2 DEF Exists, Version
<1>3. History(d) \in [1..doc[d].current -> Contents]
  BY <1>2 DEF History
<1>4. History(d) \in Seq(Contents) /\ Len(History(d)) = doc[d].current
  BY <1>1, <1>3
<1>5. doc[d].current = 0 <=> doc[d].state = "none"
  BY DEF Inv, CurrentIsLatest
<1> QED BY <1>1, <1>4, <1>5 DEF History

\* A commit appends one revision to one history.
LEMMA CommitAppends ==
    ASSUME Inv, NEW r \in Requests, req[r].pc = "commit", ~Taken(req[r]), Insert(req[r]),
           NEW d, d = req[r].doc, NEW c, c = req[r].content
    PROVE  /\ d \in Docs /\ c \in Contents
           /\ History(d)' = Append(History(d), c)
           /\ \A e \in Docs \ {d} : History(e)' = History(e)
           /\ Live' = IF req[r].op = "upload" THEN Live \cup {d} ELSE Live
           /\ req[r].op = "upload" <=> History(d) = <<>>
<1> DEFINE q == req[r]
           cur == doc[d].current
           s == History(d)
           a == Append(s, c)
<1>1. /\ d \in Docs /\ c \in Contents /\ q.number \in Numbers
      /\ q.op \in {"upload", "add_version"} /\ AtWork(r)
  BY RequestType DEF AtWork, Inv, Upload
<1>2. /\ q.number = cur + 1
      /\ q.op = "upload" => doc[d].state = "none" /\ cur = 0
      /\ q.op = "add_version" => doc[d].state # "none"
  BY NumberIsNext
<1>3. /\ \A e \in Docs \ {d} : doc'[e] = doc[e]
      /\ \A v \in Docs \X Numbers : ver[v] # NoVersion => ver'[v] = ver[v]
      /\ ver'[<<d, q.number>>].content = c
  BY InsertRows
<1>4. /\ doc'[d].current = q.number
      /\ doc'[d].state = IF q.op = "upload" THEN "live" ELSE doc[d].state
  BY <1>1 DEF Insert, Inv, StateOK, Document
<1>5. ASSUME NEW e \in Docs, NEW n \in 1..doc[e].current
      PROVE  ver'[<<e, n>>] = ver[<<e, n>>]
  <2>1. doc[e].current \in 0..MaxVersion /\ MaxVersion \in Nat
    BY DocumentsAssumption DEF Inv, StateOK, Document
  <2>2. n \in Numbers /\ n <= doc[e].current
    BY <2>1 DEF Numbers
  <2>3. Exists(e, n)
    BY <2>2 DEF Inv, CurrentIsLatest
  <2> QED BY <1>3, <2>2, <2>3 DEF Exists
<1>6. \A e \in Docs \ {d} : History(e)' = History(e)
  BY <1>3, <1>5 DEF History
<1>7. /\ s \in Seq(Contents) /\ Len(s) = cur /\ cur \in Nat
      /\ \A n \in 1..cur : s[n] = ver[<<d, n>>].content
      /\ cur = 0 <=> doc[d].state = "none"
  BY <1>1, HistoryType
<1>8. History(d)' = [n \in 1..(cur + 1) |-> ver'[<<d, n>>].content]
  BY <1>2, <1>4 DEF History
<1>9. /\ a \in Seq(Contents) /\ Len(a) = cur + 1
      /\ \A n \in 1..cur : a[n] = s[n]
      /\ a[cur + 1] = c
  BY <1>1, <1>7, AppendProperties
<1>10. \A n \in 1..(cur + 1) : ver'[<<d, n>>].content = a[n]
  <2> SUFFICES ASSUME NEW n \in 1..(cur + 1) PROVE ver'[<<d, n>>].content = a[n]
    OBVIOUS
  <2>1. CASE n = cur + 1
    BY <1>2, <1>3, <1>9, <2>1
  <2>2. CASE n # cur + 1
    <3>1. n \in 1..cur
      BY <1>7, <2>2
    <3> QED BY <1>1, <1>5, <1>7, <1>9, <3>1
  <2> QED BY <2>1, <2>2
<1>11. History(d)' = a
  <2> HIDE DEF a, s, cur
  <2>1. a = [n \in 1..(cur + 1) |-> a[n]]
    BY <1>9, LenProperties
  <2> QED BY <1>8, <1>10, <2>1
<1>12. Live' = IF q.op = "upload" THEN Live \cup {d} ELSE Live
  BY <1>1, <1>3, <1>4 DEF Live
<1>13. q.op = "upload" <=> s = <<>>
  BY <1>1, <1>2, <1>7, EmptySeq
<1> QED BY <1>1, <1>6, <1>11, <1>12, <1>13

\* A step that inserts nothing leaves every history as it was.
LEMMA OnlyCommitsInsert ==
    ASSUME [Next]_vars
    PROVE  \/ UNCHANGED <<doc, ver>>
           \/ \E r \in Requests : req[r].pc = "commit" /\ ~Taken(req[r]) /\ Insert(req[r])
           \/ \E d \in Docs : Delete(d)
<1>1. ASSUME NEW r \in Requests, NEW d, NEW c, NEW x,
             BeginUpload(r, d, c, x) \/ BeginAddVersion(r, d, c, x)
      PROVE  UNCHANGED <<doc, ver>>
  BY <1>1 DEF BeginUpload, BeginAddVersion
<1>2. ASSUME NEW r \in Requests,
             \/ NextNumber(r) \/ Store(r) \/ StoreUnanswered(r) \/ StoreFails(r)
             \/ ReadFails(r) \/ Compare(r)
      PROVE  UNCHANGED <<doc, ver>>
  BY <1>2 DEF NextNumber, Store, StoreUnanswered, Put, StoreFails, ReadFails, Compare
<1>3. ASSUME NEW r \in Requests,
             \/ CommitFails(r) \/ Refresh(r) \/ RefreshFails(r) \/ Discard(r)
             \/ DiscardFails(r) \/ Crash(r)
      PROVE  UNCHANGED <<doc, ver>>
  BY <1>3 DEF CommitFails, Refresh, RefreshFails, Discard, DiscardFails, Crash
<1>4. ASSUME NEW r \in Requests, Commit(r) \/ CommitUnanswered(r)
      PROVE  req[r].pc = "commit" /\ ~Taken(req[r]) /\ Insert(req[r])
  BY <1>4 DEF Commit, CommitUnanswered
<1>5. UNCHANGED vars => UNCHANGED <<doc, ver>>
  BY DEF vars
<1> QED BY <1>1, <1>2, <1>3, <1>4, <1>5 DEF Next

LEMMA HistoryStep ==
    ASSUME Inv, [Next]_vars
    PROVE  [Promise!Next]_(Promise!vars)
<1> DEFINE R == [d \in Docs |-> History(d)]
<1>1. CASE UNCHANGED <<doc, ver>>
  BY <1>1 DEF Promise!vars
<1>2. ASSUME NEW d \in Docs, Delete(d) PROVE Promise!Next
  <2>1. /\ doc[d].state = "live" /\ doc'[d].current = doc[d].current
        /\ doc'[d].state = "deleted" /\ ver' = ver
        /\ \A e \in Docs \ {d} : doc'[e] = doc[e]
    BY <1>2 DEF Delete, Inv, StateOK, Document
  <2>2. Promise!Delete(d)
    BY <2>1 DEF Promise!Delete
  <2> QED BY <2>2 DEF Promise!Next
<1>3. ASSUME NEW r \in Requests, req[r].pc = "commit", ~Taken(req[r]), Insert(req[r])
      PROVE  Promise!Next
  <2>1. PICK d, c : d = req[r].doc /\ c = req[r].content
    OBVIOUS
  <2>2. /\ d \in Docs /\ c \in Contents
        /\ History(d)' = Append(History(d), c)
        /\ \A e \in Docs \ {d} : History(e)' = History(e)
        /\ Live' = IF req[r].op = "upload" THEN Live \cup {d} ELSE Live
        /\ req[r].op = "upload" <=> History(d) = <<>>
    BY <1>3, <2>1, CommitAppends
  <2>3. R[d] = History(d)
    BY <2>2
  <2>4. [e \in Docs |-> History(e)'] = [R EXCEPT ![d] = Append(History(d), c)]
    BY <2>2
  <2>5. CASE req[r].op = "upload"
    <3>1. Append(History(d), c) = <<c>>
      BY <2>2, <2>5
    <3>2. Promise!Create(d, c)
      BY <2>2, <2>3, <2>4, <2>5, <3>1 DEF Promise!Create, History, Live
    <3> QED BY <2>2, <3>2, Zenon DEF Promise!Next
  <2>6. CASE req[r].op # "upload"
    <3>1. Promise!Revise(d, c)
      BY <2>2, <2>3, <2>4, <2>6 DEF Promise!Revise, History, Live
    <3> QED BY <2>2, <3>1, Zenon DEF Promise!Next
  <2> QED BY <2>5, <2>6
<1> QED BY <1>1, <1>2, <1>3, OnlyCommitsInsert

\* Read as sequences, the rows of the documents grow by one revision at a time
\* and at their end, whichever uploads race and whatever fails.
THEOREM RefinesHistory == Spec => ImplementsHistory
<1>1. Init => Promise!Init
  <2> SUFFICES ASSUME Init PROVE Promise!Init
    OBVIOUS
  <2>1. \A d \in Docs : doc[d].current = 0 /\ doc[d].state = "none"
    BY DEF Init
  <2>2. \A d \in Docs : [n \in 1..doc[d].current |-> ver[<<d, n>>].content] = <<>>
    BY <2>1
  <2> QED BY <2>1, <2>2 DEF Promise!Init
<1>2. Inv /\ [Next]_vars => [Promise!Next]_(Promise!vars)
  BY HistoryStep
<1> QED BY <1>1, <1>2, Invariance, PTL DEF Spec, ImplementsHistory, Promise!Spec
=============================================================================
