------------------------------- MODULE Intake -------------------------------
(***************************************************************************)
(* How the bytes of one upload are judged, counted, hashed and handed to   *)
(* the storage provider: the Content-Length guard of the routes, the       *)
(* allowlist and the sniffers of file_validation.py, and the generator     *)
(* between the request body and put_stream.                                *)
(*                                                                         *)
(* A byte is the class of bytes it belongs to; a signature, which has no   *)
(* NUL and is valid text, counts as one byte.  What the body is made of is *)
(* chosen where it is looked at: the head of it of anything, the rest      *)
(* plain.  Uploads do not meet here, so there is one.                      *)
(***************************************************************************)
EXTENDS Naturals, Sequences

CONSTANTS
    Classes,     \* the classes of bytes a head can have
    SniffBytes,  \* SNIFF_BYTES, 4096
    ReadChunk,   \* READ_CHUNK_SIZE, 1 MiB
    Limit,       \* max_upload_bytes, 100 MiB
    Envelope,    \* what multipart/form-data adds to a file: its boundaries
    MaxBody,     \* bound: no file is longer
    None         \* no header, no format, no object

\* An overlong or surrogate encoding counts as a lead byte without its rest.
ByteClasses ==
    {"plain", "tag", "nul", "cont", "lead2", "lead3", "lead4", "pdf", "zip"}

ASSUME IntakeAssumption ==
    /\ Classes \subseteq ByteClasses
    /\ SniffBytes \in Nat \ {0} /\ ReadChunk \in Nat \ {0}
    /\ Limit \in Nat /\ Envelope \in Nat /\ MaxBody \in Nat
    /\ None \notin Nat \cup Seq(ByteClasses)

VARIABLES
    pc,      \* where the request is, or the reason it was refused for
    length,  \* of the file
    body,    \* the file
    format,  \* what its name says it is
    at,      \* bytes read off the body so far
    chunk,   \* the last read
    size,    \* _Meter.size
    digest,  \* what _Meter.digest was fed
    given,   \* what the provider was given
    object   \* what is stored under the key

vars == <<pc, length, body, format, at, chunk, size, digest, given, object>>

\* content_length: 413; extension and the next two: 415; empty: 422;
\* size_limit: 413; storage: the provider's own failure.
Refusals ==
    {"content_length", "extension", "mime", "magic", "empty", "size_limit", "storage"}

-----------------------------------------------------------------------------
\* FORMATS and the extensions they go by.
ByExtension ==
    [pdf |-> "pdf", docx |-> "docx", html |-> "html", htm |-> "html",
     md |-> "markdown", markdown |-> "markdown", csv |-> "csv"]

AcceptedMimeTypes ==
    [pdf      |-> {"application/pdf", "application/x-pdf"},
     docx     |-> {"the OOXML type", "application/zip"},
     html     |-> {"text/html", "text/plain"},
     markdown |-> {"text/markdown", "text/x-markdown", "text/plain"},
     csv      |-> {"text/csv", "application/csv", "text/plain"}]

Formats == DOMAIN AcceptedMimeTypes

\* generic: no declared type, an empty one or application/octet-stream.
MimeTypes == UNION {AcceptedMimeTypes[f] : f \in Formats} \cup {"generic", "another"}

\* check_declared_mime_type
Declarable(f, mime) == mime = "generic" \/ mime \in AcceptedMimeTypes[f]

\* How many bytes a character has, by its first.  A continuation byte begins
\* none.
Width(class) ==
    CASE class = "lead2" -> 2 [] class = "lead3" -> 3 [] class = "lead4" -> 4
      [] class = "cont" -> 0 [] OTHER -> 1

CharacterAt(s, p) ==
    /\ Width(s[p]) > 0 /\ p + Width(s[p]) - 1 <= Len(s)
    /\ \A i \in p + 1 .. p + Width(s[p]) - 1 : s[i] = "cont"

\* UnicodeDecodeError.start, counted from one: where the first character begins
\* that is not one, or the end.
ErrorStart(s) ==
    LET from[p \in 1..Len(s) + 1] ==
          IF p <= Len(s) /\ CharacterAt(s, p) THEN from[p + Width(s[p])] ELSE p
    IN  from[1]

\* A tolerance that forgets that three bytes of four can be there.
IsTextUpToTwo(head) ==
    (\A i \in 1..Len(head) : head[i] # "nul") /\ ErrorStart(head) + 1 >= Len(head)

\* _is_text: an error in the last four bytes is forgiven, whatever it is.
IsText(head) ==
    (\A i \in 1..Len(head) : head[i] # "nul") /\ ErrorStart(head) + 3 >= Len(head)

\* HTML by its tag alone.
SniffTagOnly(f, head) ==
    CASE f = "pdf"  -> head[1] = "pdf"
      [] f = "docx" -> head[1] = "zip"
      [] f = "html" -> \E i \in 1..Len(head) : head[i] = "tag"
      [] f \in {"markdown", "csv"} -> IsText(head)

\* check_magic_bytes
Sniff(f, head) ==
    CASE f = "pdf"  -> head[1] = "pdf"
      [] f = "docx" -> head[1] = "zip"
      [] f = "html" -> IsText(head) /\ \E i \in 1..Len(head) : head[i] = "tag"
      [] f \in {"markdown", "csv"} -> IsText(head)

-----------------------------------------------------------------------------
Init ==
    /\ pc = "begin" /\ length = 0 /\ body = <<>> /\ format = None
    /\ at = 0 /\ chunk = <<>> /\ size = 0 /\ digest = <<>> /\ given = <<>>
    /\ object = None

Unread == UNCHANGED <<body, at, chunk>>
Unmeasured == UNCHANGED <<size, digest, given, object>>

\* enforce_content_length: a body sent in chunks has no length to check.
ContentLength(n) ==
    /\ pc = "begin"
    /\ length' = n
    /\ \E declared \in {None, n + Envelope} :
         pc' = IF declared # None /\ declared > Limit THEN "content_length" ELSE "name"
    /\ UNCHANGED format /\ Unread /\ Unmeasured

\* format_for_filename and check_declared_mime_type.
Name(extension, mime) ==
    /\ pc = "name"
    /\ IF extension \notin DOMAIN ByExtension
       THEN pc' = "extension" /\ UNCHANGED format
       ELSE /\ format' = ByExtension[extension]
            /\ pc' = IF Declarable(format', mime) THEN "head" ELSE "mime"
    /\ UNCHANGED length /\ Unread /\ Unmeasured

Smaller(m, n) == IF m <= n THEN m ELSE n
Larger(m, n) == IF m <= n THEN n ELSE m

\* The next n bytes of b after the first i, or as many as there are.
Read(b, i, n) == SubSeq(b, i + 1, Smaller(i + n, Len(b)))

\* The stream that starts at the second read.
StreamFromSecond(b, head) == Read(b, Len(head), ReadChunk)

\* _chunks yields the head first: it was read off the body and cannot be read
\* again.
StreamFrom(b, head) == head

ReadHead ==
    /\ pc = "head"
    /\ \E head \in [1..Smaller(SniffBytes, length) -> Classes] :
         LET file == head \o [i \in 1..length - Len(head) |-> "plain"]
         IN  /\ body' = file
             /\ pc' = IF head = <<>> THEN "empty"
                      ELSE IF Sniff(format, head) THEN "stream" ELSE "magic"
             /\ chunk' = IF pc' = "stream" THEN StreamFrom(file, head) ELSE <<>>
             /\ at' = Len(head)
    /\ UNCHANGED <<length, format>> /\ Unmeasured

\* A cap that the last allowed byte is over.
OverLimitAtLimit(n) == n >= Limit

\* No cap on what is read.
OverLimitNever(n) == FALSE

OverLimit(n) == n > Limit

\* _Meter.consume, the yield to the provider and the next read.  A chunk that
\* goes over the limit is neither hashed nor given away, and ends the stream.
Consume ==
    /\ pc = "stream" /\ chunk # <<>>
    /\ size' = size + Len(chunk)
    /\ IF OverLimit(size')
       THEN pc' = "size_limit" /\ UNCHANGED <<digest, given, chunk, at>>
       ELSE /\ digest' = digest \o chunk
            /\ given' = given \o chunk
            /\ chunk' = Read(body, at, ReadChunk)
            /\ at' = at + Len(chunk')
            /\ UNCHANGED pc
    /\ UNCHANGED <<length, body, format, object>>

\* The stream ends and put_stream returns: the object is there.
Finish ==
    /\ pc = "stream" /\ chunk = <<>>
    /\ object' = given
    /\ pc' = "stored"
    /\ UNCHANGED <<length, body, format, at, chunk, size, digest, given>>

\* put_stream raises, at any chunk; it has aborted what it began.
StorageFails ==
    /\ pc = "stream"
    /\ pc' = "storage"
    /\ UNCHANGED <<length, body, format, at, chunk, size, digest, given, object>>

Next ==
    \/ \E n \in 0..MaxBody : ContentLength(n)
    \/ \E extension \in DOMAIN ByExtension \cup {"another"}, mime \in MimeTypes :
         Name(extension, mime)
    \/ ReadHead \/ Consume \/ Finish \/ StorageFails

Spec == Init /\ [][Next]_vars

-----------------------------------------------------------------------------
TypeOK ==
    /\ pc \in {"begin", "name", "head", "stream", "stored"} \cup Refusals
    /\ length \in 0..MaxBody
    /\ body \in Seq(ByteClasses)
    /\ format \in Formats \cup {None}
    /\ at \in Nat
    /\ chunk \in Seq(ByteClasses) /\ digest \in Seq(ByteClasses)
    /\ given \in Seq(ByteClasses)
    /\ size \in Nat
    /\ object \in Seq(ByteClasses) \cup {None}

\* The object, the bytes the hash is of and the bytes that were counted are the
\* file, from its first byte to its last: deduplication compares these hashes
\* and a download is announced with this size (document_service.py).
StoredIsUploaded ==
    pc = "stored" =>
      object = body /\ digest = body /\ size = length /\ Len(body) = length

\* The cap is exact: a file of the limit's size is never refused while it
\* streams, a larger one is never stored, and no more is taken off the body than
\* the limit and one read, or the head.
LimitIsExact ==
    /\ at <= Larger(SniffBytes, Limit + ReadChunk)
    /\ pc = "size_limit" => length > Limit /\ object = None
    /\ pc = "stored" => length <= Limit

\* A text, or what is there of it: every character is whole, but for the last
\* one, which can be cut.
BeginsText(s) ==
    /\ \A p \in 1..Len(s) :
         /\ s[p] # "nul"
         /\ s[p] = "cont" => \E q \in 1..p - 1 :
                               /\ q + Width(s[q]) > p
                               /\ \A i \in q + 1 .. p : s[i] = "cont"
         /\ \A i \in p + 1 .. p + Width(s[p]) - 1 : i <= Len(s) => s[i] = "cont"

\* No text is refused for where the sample happens to cut it: "a multi-byte
\* character can legitimately be cut in half" (file_validation.py).
TextIsNeverRefused ==
    pc = "magic" /\ format \in {"html", "markdown", "csv"} =>
      LET head == SubSeq(body, 1, at)
      IN  BeginsText(head) => format = "html" /\ \A i \in 1..at : head[i] # "tag"

\* Nothing reaches storage under a format that its bytes do not bear out: a
\* signature, or text up to the last four bytes of the sample.
EvidenceWasSeen ==
    pc = "stream" \/ object # None =>
      LET seen == Smaller(SniffBytes, length)
      IN  /\ format = "pdf" => body[1] = "pdf"
          /\ format = "docx" => body[1] = "zip"
          /\ format \in {"html", "markdown", "csv"} =>
               BeginsText(SubSeq(body, 1, IF seen > 4 THEN seen - 4 ELSE 0))

\* "The upload exceeded the configured size cap" (document_errors.py:72): only
\* larger files are answered that.
OnlyLargerIsTooLarge ==
    pc \in {"content_length", "size_limit"} => length > Limit

\* "The decode is allowed to fail only at the very end of the sample, where a
\* multi-byte character can legitimately be cut in half by the chunk boundary"
\* (file_validation.py:64): what is stored as text is text as far as it was
\* looked at.
OnlyTextIsText ==
    object # None /\ format \in {"html", "markdown", "csv"} =>
      BeginsText(SubSeq(body, 1, Smaller(SniffBytes, length)))
=============================================================================
