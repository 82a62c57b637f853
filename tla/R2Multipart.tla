---------------------------- MODULE R2Multipart ----------------------------
(***************************************************************************)
(* R2Storage.put_stream: an upload of unknown length, over calls to the    *)
(* object store that may be lost, answered too late, repeated by botocore, *)
(* or cancelled half-way.                                                  *)
(*                                                                         *)
(* Chunks gather in a buffer.  As long as that is shorter than a part the  *)
(* object goes up in one put_object at the end; from then on full parts    *)
(* are uploaded as they form, the rest is the last part, and the upload is *)
(* completed, or aborted if anything raises.                               *)
(*                                                                         *)
(* A call is a message in net until the store carries it out, which may be *)
(* after the caller gave up.  The bytes of a stream are <<u, 1>>, <<u, 2>> *)
(* and so on, so that an object tells which bytes it is made of.           *)
(***************************************************************************)
EXTENDS Naturals, FiniteSets, SequencesExt

CONSTANTS
    Uploads,   \* calls of put_stream, each with a stream of its own
    Keys,      \* storage keys
    PartSize,  \* PART_SIZE
    MaxChunk,  \* what the caller yields at once, at most
    MaxBytes,  \* bound: no stream is longer
    Retries,   \* how often botocore repeats a call without an answer
    None       \* no object, no upload id

ASSUME R2MultipartAssumption ==
    /\ PartSize \in Nat \ {0}
    /\ MaxChunk \in Nat \ {0}
    /\ MaxBytes \in Nat
    /\ Retries \in Nat
    /\ None \notin Nat

VARIABLES
    up,      \* per put_stream: where it is and what it holds
    object,  \* what the store has, by key
    session, \* the multipart uploads ever created; the n-th has upload id n
    net      \* calls the store has not carried out yet

vars == <<up, object, session, net>>

Calls == {"create", "part", "put", "complete", "abort"}
Ends == {"returned", "raised", "crashed"}

Bytes(u, n) == [i \in 1..n |-> <<u, i>>]

\* parts counts the acknowledged ones; why is the exception on its way out;
\* stuck says that the abort was refused or never answered.
NewPut(k) ==
    [pc |-> "read", key |-> k, total |-> 0, buffer |-> <<>>, ended |-> FALSE,
     id |-> None, parts |-> 0, tries |-> 0, why |-> "none", stuck |-> FALSE]

NotBegun == [pc |-> "idle"]

Begun(u) == up[u].pc # "idle"
Calling(u) == up[u].pc \in Calls
Open(id) == id \in 1..Len(session) /\ session[id].open

-----------------------------------------------------------------------------
\* Everything there is, whatever its length.
WholeBuffer(q) == q.buffer

\* The next part: a full one, or the rest when the stream has ended.
NextPart(q) ==
    SubSeq(q.buffer, 1, IF Len(q.buffer) < PartSize THEN Len(q.buffer) ELSE PartSize)

\* The call put_stream is waiting for at this point.
Call(u, q) ==
    [from |-> u, op |-> q.pc, key |-> q.key, id |-> q.id, tries |-> q.tries,
     number |-> IF q.pc = "part" THEN q.parts + 1 ELSE q.parts,
     body |-> CASE q.pc = "part" -> NextPart(q)
                [] q.pc = "put" -> q.buffer
                [] OTHER -> <<>>]

\* Its locals go with the call of put_stream.
Left(q) ==
    IF q.pc \in Ends THEN [q EXCEPT !.buffer = <<>>, !.parts = 0, !.tries = 0] ELSE q

\* put_stream goes on as q, with the call that q makes, if any.
Proceed(u, q, others) ==
    /\ up' = [up EXCEPT ![u] = Left(q)]
    /\ net' = IF q.pc \in Calls THEN others \cup {Call(u, q)} ELSE others

\* Only what is an Exception cleans up.
AbortUnlessCancelled(q, why) ==
    IF q.pc = "abort" THEN [q EXCEPT !.pc = "raised", !.stuck = TRUE]
    ELSE [q EXCEPT !.why = why, !.tries = 0,
                   !.pc = IF q.id # None /\ why # "stream" THEN "abort" ELSE "raised"]

\* An exception leaves the try block: the upload is aborted if there is one.
\* One that leaves _abort takes the place of the first.
Raise(q, why) ==
    IF q.pc = "abort"
    THEN [q EXCEPT !.pc = "raised", !.stuck = TRUE,
                   !.why = IF why = "storage" THEN "abort" ELSE why]
    ELSE [q EXCEPT !.why = why, !.tries = 0,
                   !.pc = IF q.id # None THEN "abort" ELSE "raised"]

\* A completion that is turned down counts as done already.
RefusedAsDone(q) ==
    CASE q.pc = "complete" -> [q EXCEPT !.pc = "returned"]
      [] q.pc = "abort" -> [q EXCEPT !.pc = "raised", !.stuck = TRUE]
      [] OTHER -> Raise(q, "storage")

\* A ClientError does too, but not out of _abort.
Refused(q) ==
    IF q.pc = "abort" THEN [q EXCEPT !.pc = "raised", !.stuck = TRUE]
    ELSE Raise(q, "storage")

\* A single part for each chunk, whatever is left in the buffer.
OnePartPerChunk(q) == IF q.ended THEN "complete" ELSE "read"

\* Full parts are flushed before the next chunk is asked for.
AfterPart(q) ==
    CASE q.ended -> "complete"
      [] ~q.ended /\ Len(q.buffer) >= PartSize -> "part"
      [] OTHER -> "read"

\* The id of a new upload is not kept.
AnsweredForgetful(q) ==
    CASE q.pc = "create" -> [q EXCEPT !.pc = "part", !.tries = 0]
      [] q.pc = "abort" -> [q EXCEPT !.pc = "raised"]
      [] OTHER -> [q EXCEPT !.pc = "returned"]

\* What put_stream does with a good answer.
Answered(q) ==
    CASE q.pc = "create" -> [q EXCEPT !.pc = "part", !.id = Len(session) + 1, !.tries = 0]
      [] q.pc = "part" ->
           LET rest == [q EXCEPT !.buffer = SubSeq(@, Len(NextPart(q)) + 1, Len(@)),
                                 !.parts = @ + 1, !.tries = 0]
           IN  [rest EXCEPT !.pc = AfterPart(rest)]
      [] q.pc = "abort" -> [q EXCEPT !.pc = "raised"]
      [] OTHER -> [q EXCEPT !.pc = "returned"]

-----------------------------------------------------------------------------
Init ==
    /\ up = [u \in Uploads |-> NotBegun]
    /\ object = [k \in Keys |-> None]
    /\ session = <<>>
    /\ net = {}

Begin(u, k) ==
    /\ ~Begun(u)
    /\ Proceed(u, NewPut(k), net)
    /\ UNCHANGED <<object, session>>

\* A chunk of n bytes arrives.
Chunk(u, n) ==
    LET q == up[u]
        fed == q.total + n
        longer == [q EXCEPT !.total = fed,
                            !.buffer = @ \o SubSeq(Bytes(u, fed), q.total + 1, fed)]
    IN  /\ q.pc = "read" /\ fed <= MaxBytes
        /\ Proceed(u, [longer EXCEPT !.pc =
                         CASE Len(longer.buffer) < PartSize -> "read"
                           [] Len(longer.buffer) >= PartSize /\ q.id = None -> "create"
                           [] OTHER -> "part"], net)
        /\ UNCHANGED <<object, session>>

\* The stream ends, and what is left in the buffer is forgotten.
EndWithoutRest(u) ==
    LET q == up[u] IN
    /\ q.pc = "read"
    /\ Proceed(u, [q EXCEPT !.ended = TRUE,
                            !.pc = IF q.id = None THEN "put" ELSE "complete"], net)
    /\ UNCHANGED <<object, session>>

\* The stream ends.
End(u) ==
    LET q == up[u] IN
    /\ q.pc = "read"
    /\ Proceed(u, [q EXCEPT !.ended = TRUE,
                            !.pc = CASE q.id = None -> "put"
                                     [] q.id # None /\ q.buffer # <<>> -> "part"
                                     [] OTHER -> "complete"], net)
    /\ UNCHANGED <<object, session>>

\* The stream raises (too large, client gone), or the request is cancelled in
\* one of its awaits; the second time, in that of the abort.
Interrupt(u) ==
    /\ up[u].pc = "read" \/ Calling(u)
    /\ Proceed(u, Raise(up[u], "stream"), net)
    /\ UNCHANGED <<object, session>>

Crash(u) ==
    /\ up[u].pc = "read" \/ Calling(u)
    /\ Proceed(u, [up[u] EXCEPT !.pc = "crashed"], net)
    /\ UNCHANGED <<object, session>>

-----------------------------------------------------------------------------
\* The store knows no upload that was completed or aborted.
Accepts(m) == m.op \in {"create", "put"} \/ Open(m.id)

\* What a call does to the store.
Perform(m) ==
    IF ~Accepts(m) THEN UNCHANGED <<object, session>>
    ELSE CASE m.op = "create" ->
                /\ session' = Append(session, [by |-> m.from, open |-> TRUE, part |-> <<>>])
                /\ UNCHANGED object
           [] m.op = "part" ->
                /\ session' = [session EXCEPT ![m.id].part =
                     [n \in DOMAIN @ \cup {m.number} |->
                        IF n = m.number THEN m.body ELSE @[n]]]
                /\ UNCHANGED object
           [] m.op = "put" ->
                /\ object' = [object EXCEPT ![m.key] = m.body]
                /\ UNCHANGED session
           [] m.op = "complete" ->
                /\ object' = [object EXCEPT ![m.key] =
                     FlattenSeq([n \in 1..m.number |-> session[m.id].part[n]])]
                /\ session' = [session EXCEPT ![m.id].open = FALSE]
           [] m.op = "abort" ->
                /\ session' = [session EXCEPT ![m.id].open = FALSE]
                /\ UNCHANGED object

\* The call put_stream waits for is carried out and the answer arrives.  An
\* abort of an upload that is gone fails with a ClientError nobody sees.
Reply(u) ==
    LET q == up[u]
        m == Call(u, q)
    IN  /\ Calling(u) /\ m \in net
        /\ Perform(m)
        /\ Proceed(u, IF Accepts(m) \/ q.pc = "abort" THEN Answered(q) ELSE Refused(q),
                   net \ {m})

\* A call is carried out and nobody learns of it: the answer is lost, or the
\* caller is gone.
Unanswered(m) ==
    /\ Perform(m)
    /\ net' = net \ {m}
    /\ UNCHANGED up

\* The store turns a call down.
Refuse(u) ==
    LET m == Call(u, up[u]) IN
    /\ Calling(u) /\ m \in net
    /\ Proceed(u, Refused(up[u]), net \ {m})
    /\ UNCHANGED <<object, session>>

\* No answer: botocore repeats the call, and in the end raises an error that
\* is no ClientError.  The first call may still be under way.
TimeOut(u) ==
    LET q == up[u] IN
    /\ Calling(u)
    /\ Proceed(u, IF q.tries < Retries THEN [q EXCEPT !.tries = @ + 1]
                                       ELSE Raise(q, "storage"), net)
    /\ UNCHANGED <<object, session>>

Next ==
    \/ \E u \in Uploads :
         \/ \E k \in Keys : Begin(u, k)
         \/ \E n \in 1..MaxChunk : Chunk(u, n)
         \/ End(u) \/ Interrupt(u) \/ Crash(u)
         \/ Reply(u) \/ Refuse(u) \/ TimeOut(u)
    \/ \E m \in net : Unanswered(m)

Spec == Init /\ [][Next]_vars

-----------------------------------------------------------------------------
\* The bytes of a stream that has ended.
Whole(u) == Bytes(u, up[u].total)

\* And put_stream never holds more than a part and the chunk it asked for.
TypeOK ==
    /\ \A u \in Uploads : Begun(u) =>
         /\ up[u].pc \in Calls \cup Ends \cup {"read"}
         /\ up[u].key \in Keys
         /\ up[u].total \in 0..MaxBytes
         /\ up[u].id \in 1..Len(session) \cup {None}
         /\ up[u].pc \in {"part", "complete", "abort"} => up[u].id # None
         /\ up[u].pc = "part" => up[u].buffer # <<>>
         /\ up[u].pc = "read" => Len(up[u].buffer) < PartSize
         /\ Len(up[u].buffer) < PartSize + MaxChunk
         /\ up[u].tries \in 0..Retries
         /\ up[u].why \in {"none", "stream", "storage", "abort"}
         /\ up[u].pc = "raised" => up[u].why # "none"
    /\ DOMAIN object = Keys
    /\ \A id \in 1..Len(session) : session[id].by \in Uploads
    /\ \A m \in net : m.from \in Uploads /\ m.op \in Calls

\* What a key holds is all of one stream that has ended, in its order: never
\* a part of one, whatever call was lost, late or repeated.  An upload that
\* returned is there, and stays there, unless another was begun with the same
\* key.
WholeOrNothing ==
    /\ \A k \in Keys :
         object[k] # None =>
           \E u \in Uploads : /\ Begun(u) /\ up[u].key = k /\ up[u].ended
                              /\ object[k] = Whole(u)
    /\ \A u \in Uploads :
         /\ up[u].pc = "returned"
         /\ \A v \in Uploads \ {u} : Begun(v) => up[v].key # up[u].key
         => object[up[u].key] = Whole(u)

\* Every part but the last is a full one (S3 refuses others on completion),
\* and no part is larger than what one upload may hold.
PartsAreFull ==
    \A id \in 1..Len(session) : \A n \in DOMAIN session[id].part :
      LET size == Len(session[id].part[n]) IN
      /\ size <= PartSize
      /\ n + 1 \in DOMAIN session[id].part => size = PartSize

\* A multipart upload outlives its put_stream only if put_stream never learned
\* of it, died, or could not abort it: an exception, a cancellation or a
\* completion whose answer was lost is no excuse.
KnownUploadsEnd ==
    \A u \in Uploads :
      up[u].pc \in {"returned", "raised"} /\ Open(up[u].id) => up[u].stuck

\* "Anything raising mid-stream aborts the multipart upload" (r2.py:13).
RaisingAborts ==
    \A u \in Uploads :
      up[u].pc = "raised" /\ ~up[u].stuck =>
        \A id \in 1..Len(session) : session[id].by = u => ~session[id].open

\* "The original failure is what the caller needs to see": a failed abort
\* "cannot replace the real exception on its way out" (r2.py:214).
FirstErrorSurvives == \A u \in Uploads : up[u].pc = "raised" => up[u].why # "abort"
=============================================================================
