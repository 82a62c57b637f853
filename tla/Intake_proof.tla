---------------------------- MODULE Intake_proof ----------------------------
(***************************************************************************)
(* For every limit, every size of a read and every file: what is stored,   *)
(* hashed and counted is the file, the limit is exact, and the sniffers    *)
(* neither refuse a text nor pass what its bytes do not bear out.          *)
(***************************************************************************)
EXTENDS Intake, Integers, SequenceTheorems, WellFoundedInduction, TLAPS

\* What was read off the body, counted and given away before the current chunk.
Before == at - Len(chunk)

\* Nothing has been read yet.
Untouched ==
    /\ at = 0 /\ chunk = <<>> /\ size = 0 /\ digest = <<>> /\ given = <<>>
    /\ object = None

\* While the body streams: what was given away is all of it before the current
\* chunk, and an empty chunk means its end.
Streaming ==
    /\ object = None
    /\ Len(body) = length
    /\ at <= length /\ Len(chunk) <= at
    /\ chunk = SubSeq(body, Before + 1, at)
    /\ given = SubSeq(body, 1, Before) /\ digest = given
    /\ size = Before /\ size <= Limit
    /\ chunk = <<>> => at = length

\* What is read goes past the limit by less than one read, unless it is the
\* head.
Bounded == at <= Larger(SniffBytes, Limit + ReadChunk)

Inv ==
    /\ TypeOK
    /\ Bounded
    /\ pc \in {"begin", "name", "head"} => Untouched
    /\ pc = "stream" => Streaming
    /\ pc \in Refusals => object = None
    /\ pc = "size_limit" => length > Limit
    /\ pc = "stored" => length <= Limit
    /\ StoredIsUploaded

-----------------------------------------------------------------------------
\* A stretch of a file is a file, as long as it says.
LEMMA Stretch ==
    ASSUME NEW b \in Seq(ByteClasses), NEW i \in 0..Len(b), NEW j \in i..Len(b)
    PROVE  /\ SubSeq(b, i + 1, j) \in Seq(ByteClasses)
           /\ Len(SubSeq(b, i + 1, j)) = j - i
<1>1. Len(b) \in Nat
  BY LenProperties
<1>2. \A k \in i + 1 .. j : b[k] \in ByteClasses
  BY <1>1, ElementOfSeq
<1>3. i + 1 \in Int /\ j \in Int
  BY <1>1
<1>4. /\ SubSeq(b, i + 1, j) \in Seq(ByteClasses)
      /\ Len(SubSeq(b, i + 1, j)) = IF i + 1 <= j THEN j - (i + 1) + 1 ELSE 0
  BY <1>2, <1>3, SubSeqProperties
<1> QED
  BY <1>1, <1>4

\* A stretch from the beginning goes on with the one behind it.
LEMMA GoesOn ==
    ASSUME NEW b \in Seq(ByteClasses), NEW i \in 0..Len(b), NEW j \in i..Len(b)
    PROVE  SubSeq(b, 1, i) \o SubSeq(b, i + 1, j) = SubSeq(b, 1, j)
<1>1. Len(b) \in Nat
  BY LenProperties
<1>2. 1 \in 1 .. Len(b) + 1 /\ i \in 1 - 1 .. Len(b) /\ j \in i .. Len(b)
  BY <1>1
<1> QED
  BY <1>2, ConcatAdjacentSubSeq

\* What a read returns, and where it ends.
LEMMA ReadProperties ==
    ASSUME NEW b \in Seq(ByteClasses), NEW i \in 0..Len(b), NEW n \in Nat \ {0}
    PROVE  /\ Read(b, i, n) \in Seq(ByteClasses)
           /\ Len(Read(b, i, n)) \in 0..n
           /\ i + Len(Read(b, i, n)) <= Len(b)
           /\ Read(b, i, n) = SubSeq(b, i + 1, i + Len(Read(b, i, n)))
           /\ Read(b, i, n) = <<>> => i = Len(b)
<1> DEFINE j == Smaller(i + n, Len(b))
<1>1. Len(b) \in Nat
  BY LenProperties
<1>2. j \in i..Len(b) /\ j <= i + n /\ (j = i => i = Len(b))
  BY <1>1 DEF Smaller
<1>3. Read(b, i, n) = SubSeq(b, i + 1, j)
  BY DEF Read
<1>4. Read(b, i, n) \in Seq(ByteClasses) /\ Len(Read(b, i, n)) = j - i
  BY <1>2, <1>3, Stretch
<1>5. Read(b, i, n) = <<>> => j = i
  BY <1>1, <1>2, <1>4, EmptySeq
<1>6. i + Len(Read(b, i, n)) = j
  BY <1>1, <1>2, <1>4
<1> HIDE DEF j
<1> QED
  BY <1>1, <1>2, <1>3, <1>4, <1>5, <1>6

-----------------------------------------------------------------------------
LEMMA InvInit == Init => Inv
BY IntakeAssumption, EmptySeq
   DEF Init, Inv, TypeOK, Bounded, Untouched, Larger, Refusals, StoredIsUploaded

LEMMA ContentLengthInv ==
    ASSUME Inv, NEW n \in 0..MaxBody, ContentLength(n)
    PROVE  Inv'
BY IntakeAssumption
   DEF Inv, TypeOK, Bounded, Untouched, Refusals, StoredIsUploaded,
       ContentLength, Unread, Unmeasured

LEMMA NameInv ==
    ASSUME Inv,
           NEW extension \in DOMAIN ByExtension \cup {"another"}, NEW mime \in MimeTypes,
           Name(extension, mime)
    PROVE  Inv'
<1>1. extension \in DOMAIN ByExtension => ByExtension[extension] \in Formats
  BY DEF ByExtension, Formats, AcceptedMimeTypes
<1>2. format' \in Formats \cup {None}
  BY <1>1 DEF Name, Inv, TypeOK
<1>3. pc' \in {"extension", "head", "mime"}
  BY DEF Name
<1> QED
  BY <1>2, <1>3
     DEF Inv, TypeOK, Bounded, Untouched, Refusals, StoredIsUploaded,
         Name, Unread, Unmeasured

\* The file is the head and the rest of it.
LEMMA FileOfHead ==
    ASSUME NEW n \in Nat, NEW m \in 0..n, NEW head \in [1..m -> Classes]
    PROVE  LET file == head \o [i \in 1..n - Len(head) |-> "plain"]
           IN  /\ head \in Seq(ByteClasses) /\ Len(head) = m
               /\ file \in Seq(ByteClasses) /\ Len(file) = n
               /\ head = SubSeq(file, 1, m)
<1>1. head \in Seq(ByteClasses) /\ Len(head) = m
  BY IntakeAssumption
<1> DEFINE rest == [i \in 1..n - Len(head) |-> "plain"]
           file == head \o rest
<1>2. n - m \in Nat
  OBVIOUS
<1>3. "plain" \in ByteClasses
  BY DEF ByteClasses
<1>4. rest \in [1..n - m -> ByteClasses]
  BY <1>1, <1>3
<1>5. rest \in Seq(ByteClasses) /\ Len(rest) = n - m
  BY <1>2, <1>4
<1> HIDE DEF rest
<1>6. /\ file \in Seq(ByteClasses) /\ Len(file) = n
      /\ \A i \in 1..n : file[i] = IF i <= m THEN head[i] ELSE rest[i - m]
  BY <1>1, <1>5, ConcatProperties
<1> HIDE DEF file
<1>7. /\ SubSeq(file, 1, m) \in Seq(ByteClasses)
      /\ Len(SubSeq(file, 1, m)) = m
      /\ \A i \in 1..m : SubSeq(file, 1, m)[i] = file[i]
  <2>1. \A i \in 1..m : file[i] \in ByteClasses
    BY <1>6, ElementOfSeq
  <2> QED
    BY <2>1, SubSeqProperties
<1>8. \A i \in 1..m : head[i] = SubSeq(file, 1, m)[i]
  BY <1>6, <1>7
<1>9. head = SubSeq(file, 1, m)
  BY <1>1, <1>7, <1>8, SeqEqual
<1> QED
  BY <1>1, <1>6, <1>9 DEF file, rest

LEMMA ReadHeadInv ==
    ASSUME Inv, ReadHead
    PROVE  Inv'
<1> DEFINE m == Smaller(SniffBytes, length)
<1>1. PICK head \in [1..m -> Classes] :
        LET file == head \o [i \in 1..length - Len(head) |-> "plain"]
        IN  /\ body' = file
            /\ pc' = IF head = <<>> THEN "empty"
                     ELSE IF Sniff(format, head) THEN "stream" ELSE "magic"
            /\ chunk' = IF pc' = "stream" THEN StreamFrom(file, head) ELSE <<>>
            /\ at' = Len(head)
  BY DEF ReadHead
<1>2. length \in Nat /\ m \in 0..length /\ m <= SniffBytes /\ Untouched /\ pc = "head"
  BY IntakeAssumption DEF Inv, TypeOK, Smaller, ReadHead
<1> HIDE DEF m
<1>3. /\ head \in Seq(ByteClasses) /\ Len(head) = m
      /\ body' \in Seq(ByteClasses) /\ Len(body') = length
      /\ head = SubSeq(body', 1, m)
  BY <1>1, <1>2, FileOfHead
<1>4. UNCHANGED <<length, format, size, digest, given, object>>
  BY DEF ReadHead, Unmeasured
<1>5. m <= Larger(SniffBytes, Limit + ReadChunk)
  BY <1>2, IntakeAssumption DEF Larger
<1>6. pc' \in {"stream", "empty", "magic"} /\ (pc' = "stream" => head # <<>>)
  BY <1>1
<1>7. chunk' = IF pc' = "stream" THEN head ELSE <<>>
  BY <1>1 DEF StreamFrom
<1>8. CASE pc' = "stream"
  <2>1. chunk' = head /\ at' = m /\ Before' = 0
    <3>1. chunk' = head
      BY <1>7, <1>8
    <3>2. at' = m
      BY <1>1, <1>3
    <3>3. Len(chunk') = m /\ m \in Nat
      BY <1>2, <1>3, <3>1
    <3> QED
      BY <3>1, <3>2, <3>3 DEF Before
  <2>2. SubSeq(body', 1, 0) = <<>>
    BY <1>3, SubSeqEmpty
  <2>3. Streaming'
    BY <2>1, <2>2, <1>2, <1>3, <1>4, <1>6, <1>8, IntakeAssumption
       DEF Streaming, Untouched
  <2> QED
    BY <2>1, <2>3, <1>2, <1>3, <1>4, <1>5, <1>8
       DEF Inv, TypeOK, Bounded, Refusals, StoredIsUploaded
<1>9. CASE pc' # "stream"
  BY <1>1, <1>2, <1>3, <1>4, <1>5, <1>6, <1>7, <1>9, EmptySeq
     DEF Inv, TypeOK, Bounded, Untouched, Refusals, StoredIsUploaded
<1> QED
  BY <1>8, <1>9

LEMMA ConsumeInv ==
    ASSUME Inv, Consume
    PROVE  Inv'
<1>1. /\ pc = "stream" /\ chunk # <<>> /\ Streaming
      /\ UNCHANGED <<length, body, format, object>>
      /\ size' = size + Len(chunk)
  BY DEF Consume, Inv
<1>2. /\ at \in Nat /\ Len(chunk) \in Nat \ {0} /\ size \in Nat /\ length \in Nat
      /\ Len(body) = length /\ body \in Seq(ByteClasses)
      /\ Before \in 0..length /\ Before + Len(chunk) = at
  BY <1>1, EmptySeq, LenProperties DEF Inv, TypeOK, Streaming, Before
<1>3. size' = at /\ size' \in Nat
  BY <1>1, <1>2 DEF Streaming, Before
<1>4. CASE OverLimit(size')
  <2>1. pc' = "size_limit" /\ UNCHANGED <<digest, given, chunk, at>>
    BY <1>4 DEF Consume
  <2>2. length > Limit
    BY <1>1, <1>2, <1>3, <1>4, IntakeAssumption DEF OverLimit, Streaming
  <2> QED
    BY <1>1, <1>3, <2>1, <2>2
       DEF Inv, TypeOK, Bounded, Streaming, Refusals, StoredIsUploaded
<1>5. CASE ~OverLimit(size')
  <2>1. /\ pc' = pc
        /\ digest' = digest \o chunk /\ given' = given \o chunk
        /\ chunk' = Read(body, at, ReadChunk)
        /\ at' = at + Len(chunk')
    BY <1>5 DEF Consume
  <2>2. at \in 0..Len(body) /\ at <= Limit
    BY <1>1, <1>2, <1>3, <1>5, IntakeAssumption DEF OverLimit, Streaming
  <2>3. /\ chunk' \in Seq(ByteClasses)
        /\ Len(chunk') \in 0..ReadChunk
        /\ at + Len(chunk') <= Len(body)
        /\ chunk' = SubSeq(body, at + 1, at + Len(chunk'))
        /\ chunk' = <<>> => at = Len(body)
    BY <1>2, <2>1, <2>2, IntakeAssumption, ReadProperties
  <2>4. given' = SubSeq(body, 1, at) /\ digest' = given'
    <3>1. SubSeq(body, 1, Before) \o SubSeq(body, Before + 1, at) = SubSeq(body, 1, at)
      BY <1>2, <2>2, GoesOn
    <3> QED
      BY <1>1, <2>1, <3>1 DEF Streaming
  <2>5. Before' = at
    BY <1>2, <2>1, <2>3 DEF Before
  <2>6. given' \in Seq(ByteClasses)
    BY <1>2, <2>2, <2>4, Stretch
  <2>7. at' \in Nat /\ at' <= Larger(SniffBytes, Limit + ReadChunk)
    BY <1>2, <2>1, <2>2, <2>3, IntakeAssumption DEF Larger
  <2>8. chunk' = <<>> => at' = length
    BY <1>2, <2>1, <2>3, EmptySeq
  <2>9. Streaming'
    <3>1. /\ at' <= length' /\ Len(chunk') <= at'
          /\ size' = Before' /\ size' <= Limit
      BY <1>1, <1>2, <1>3, <2>1, <2>2, <2>3, <2>5, IntakeAssumption
    <3>2. chunk' = SubSeq(body', Before' + 1, at')
      BY <1>1, <2>1, <2>3, <2>5
    <3>3. given' = SubSeq(body', 1, Before') /\ digest' = given'
      BY <1>1, <2>4, <2>5
    <3>4. object' = None /\ Len(body') = length' /\ (chunk' = <<>> => at' = length')
      BY <1>1, <1>2, <2>8 DEF Streaming
    <3> QED
      BY <3>1, <3>2, <3>3, <3>4 DEF Streaming
  <2> QED
    BY <1>1, <1>3, <2>1, <2>3, <2>4, <2>6, <2>7, <2>9
       DEF Inv, TypeOK, Bounded, Refusals, StoredIsUploaded
<1> QED
  BY <1>4, <1>5

LEMMA FinishInv ==
    ASSUME Inv, Finish
    PROVE  Inv'
<1>1. /\ pc = "stream" /\ chunk = <<>> /\ Streaming
      /\ UNCHANGED <<length, body, format, at, chunk, size, digest, given>>
      /\ object' = given /\ pc' = "stored"
  BY DEF Finish, Inv
<1>2. at = length /\ Before = length /\ length \in Nat /\ body \in Seq(ByteClasses)
  BY <1>1, EmptySeq DEF Streaming, Before, Inv, TypeOK
<1>3. given = body
  BY <1>1, <1>2, SubSeqFull DEF Streaming
<1> QED
  BY <1>1, <1>2, <1>3
     DEF Inv, TypeOK, Bounded, Streaming, Refusals, StoredIsUploaded

LEMMA StorageFailsInv ==
    ASSUME Inv, StorageFails
    PROVE  Inv'
BY DEF StorageFails, Inv, TypeOK, Bounded, Streaming, Refusals, StoredIsUploaded

\* No step leads out of the invariant.
LEMMA InvNext == Inv /\ [Next]_vars => Inv'
<1> SUFFICES ASSUME Inv, [Next]_vars PROVE Inv'
  OBVIOUS
<1>1. CASE UNCHANGED vars
  BY <1>1
     DEF vars, Inv, TypeOK, Bounded, Untouched, Streaming, Before, Refusals, StoredIsUploaded
<1>2. ASSUME NEW n \in 0..MaxBody, ContentLength(n) PROVE Inv'
  BY <1>2, ContentLengthInv
<1>3. ASSUME NEW extension \in DOMAIN ByExtension \cup {"another"},
             NEW mime \in MimeTypes, Name(extension, mime)
      PROVE  Inv'
  BY <1>3, NameInv
<1> QED
  BY <1>1, <1>2, <1>3, ReadHeadInv, ConsumeInv, FinishInv, StorageFailsInv DEF Next

LEMMA InvAlways == Spec => []Inv
BY InvInit, InvNext, PTL DEF Spec

-----------------------------------------------------------------------------
\* What the decoder passes over from p to e: characters, one behind the other.
Decoded(s, p, e) ==
    \A i \in p .. e - 1 :
      /\ s[i] # "cont" => CharacterAt(s, i) /\ i + Width(s[i]) <= e
      /\ s[i] = "cont" => \E q \in p .. i - 1 : /\ q + Width(s[q]) > i
                                                /\ \A j \in q + 1 .. i : s[j] = "cont"

LEMMA WidthProperties ==
    ASSUME NEW class \in ByteClasses
    PROVE  Width(class) \in 0..4 /\ (Width(class) = 0 <=> class = "cont")
BY DEF Width, ByteClasses

\* Another character in front.
LEMMA DecodedBefore ==
    ASSUME NEW s \in Seq(ByteClasses), NEW p \in 1..Len(s), CharacterAt(s, p),
           NEW e \in Nat, NEW m \in Nat, m = p + Width(s[p]), m <= e, Decoded(s, m, e)
    PROVE  Decoded(s, p, e)
<1>1. Width(s[p]) \in 1..4 /\ s[p] # "cont"
  <2>1. s[p] \in ByteClasses
    BY ElementOfSeq
  <2> QED BY <2>1, WidthProperties DEF CharacterAt
<1>2. p \in Nat /\ p < m /\ \A j \in p + 1 .. m - 1 : s[j] = "cont"
  BY <1>1, LenProperties DEF CharacterAt
<1> SUFFICES ASSUME NEW i \in p .. e - 1
             PROVE  /\ s[i] # "cont" => CharacterAt(s, i) /\ i + Width(s[i]) <= e
                    /\ s[i] = "cont" => \E q \in p .. i - 1 :
                                          /\ q + Width(s[q]) > i
                                          /\ \A j \in q + 1 .. i : s[j] = "cont"
  BY DEF Decoded
<1>3. CASE i = p
  BY <1>1, <1>3
<1>4. CASE i \in p + 1 .. m - 1
  <2>1. p \in p .. i - 1 /\ p + Width(s[p]) > i /\ \A j \in p + 1 .. i : s[j] = "cont"
    BY <1>1, <1>2, <1>4
  <2> QED BY <1>2, <1>4, <2>1
<1>5. CASE i \in m .. e - 1
  <2>1. m .. i - 1 \subseteq p .. i - 1
    BY <1>2
  <2> QED BY <1>5, <2>1 DEF Decoded
<1> QED BY <1>2, <1>3, <1>4, <1>5

-----------------------------------------------------------------------------
\* A set of numbers has a least one: what stands in for induction below.
LEMMA Least ==
    ASSUME NEW T \in SUBSET Nat, T # {}
    PROVE  \E n \in T : \A m \in T : n <= m
<1> DEFINE R == OpToRel(<, Nat)
<1>1. IsWellFoundedOn(R, Nat)
  BY NatLessThanWellFounded
<1>2. ASSUME NEW x \in Nat, NEW y \in Nat, y < x PROVE <<y, x>> \in R
  BY <1>2 DEF OpToRel
<1> HIDE DEF R
<1>3. PICK x \in T : \A y \in T : ~ (<<y, x>> \in R)
  BY <1>1, WFMin
<1>4. ASSUME NEW y \in T PROVE ~ (y < x)
  BY <1>2, <1>3, Zenon
<1>5. x \in Nat /\ T \subseteq Nat
  OBVIOUS
<1> QED BY <1>4, <1>5

\* A function that obeys the recursion of ErrorStart from k on.
Obeys(f, s, k) ==
    \A p \in k .. Len(s) + 1 :
      f[p] = IF p <= Len(s) /\ CharacterAt(s, p) THEN f[p + Width(s[p])] ELSE p

LEMMA CharacterProperties ==
    ASSUME NEW s \in Seq(ByteClasses), NEW p \in 1..Len(s), CharacterAt(s, p)
    PROVE  Width(s[p]) \in 1..4 /\ p + Width(s[p]) \in p + 1 .. Len(s) + 1
<1>1. s[p] \in ByteClasses /\ Len(s) \in Nat
  BY ElementOfSeq, LenProperties
<1> QED BY <1>1, WidthProperties DEF CharacterAt

\* There is one: a least number from which there is none before it ...
LEMMA DecoderExists ==
    ASSUME NEW s \in Seq(ByteClasses)
    PROVE  \E f \in [1 .. Len(s) + 1 -> Nat] : Obeys(f, s, 1)
<1>1. PICK n \in Nat : n = Len(s)
  BY LenProperties
<1> DEFINE T == {k \in 1 .. n + 1 : \E f \in [1 .. n + 1 -> Nat] : Obeys(f, s, k)}
<1>2. n + 1 \in T
  <2>1. [p \in 1 .. n + 1 |-> p] \in [1 .. n + 1 -> Nat]
    OBVIOUS
  <2>2. Obeys([p \in 1 .. n + 1 |-> p], s, n + 1)
    BY <1>1 DEF Obeys
  <2> QED BY <2>1, <2>2
<1>3. T \in SUBSET Nat
  OBVIOUS
<1>4. PICK k \in T : \A m \in T : k <= m
  BY <1>2, <1>3, Least
<1>5. PICK f \in [1 .. n + 1 -> Nat] : Obeys(f, s, k)
  OBVIOUS
<1>6. k = 1
  <2> SUFFICES ASSUME k # 1 PROVE FALSE
    OBVIOUS
  <2>1. PICK j \in 1..n : j = k - 1
    OBVIOUS
  <2> DEFINE end == IF CharacterAt(s, j) THEN f[j + Width(s[j])] ELSE j
             g == [f EXCEPT ![j] = end]
  <2>2. CharacterAt(s, j) => j + Width(s[j]) \in k .. n + 1
    BY <1>1, <2>1, CharacterProperties
  <2>3. end \in Nat
    BY <1>5, <2>1, <2>2
  <2> HIDE DEF end
  <2>4. g \in [1 .. n + 1 -> Nat] /\ g[j] = end /\ \A p \in 1 .. n + 1 : p # j => g[p] = f[p]
    BY <2>1, <2>3
  <2> HIDE DEF g
  <2>5. Obeys(g, s, j)
    <3> SUFFICES ASSUME NEW p \in j .. n + 1
                 PROVE  g[p] = IF p <= n /\ CharacterAt(s, p) THEN g[p + Width(s[p])] ELSE p
      BY <1>1 DEF Obeys
    <3>1. CASE p = j
      <4>1. CharacterAt(s, j) => g[j + Width(s[j])] = f[j + Width(s[j])]
        BY <2>1, <2>2, <2>4
      <4> QED BY <2>1, <2>4, <3>1, <4>1 DEF end
    <3>2. CASE p \in k .. n + 1
      <4>1. f[p] = IF p <= n /\ CharacterAt(s, p) THEN f[p + Width(s[p])] ELSE p
        BY <1>1, <1>5, <3>2 DEF Obeys
      <4>2. p <= n /\ CharacterAt(s, p) => p + Width(s[p]) \in k .. n + 1
        <5> SUFFICES ASSUME p <= n, CharacterAt(s, p) PROVE p + Width(s[p]) \in k .. n + 1
          OBVIOUS
        <5>1. k \in Nat /\ k # 0
          OBVIOUS
        <5>2. p \in 1 .. Len(s) /\ k <= p
          BY <1>1, <3>2, <5>1
        <5>3. p + Width(s[p]) \in p + 1 .. Len(s) + 1
          BY <5>2, CharacterProperties
        <5> QED BY <1>1, <5>1, <5>2, <5>3
      <4>3. \A i \in k .. n + 1 : i \in 1 .. n + 1 /\ i # j
        BY <2>1
      <4> QED BY <2>4, <3>2, <4>1, <4>2, <4>3
    <3> QED BY <2>1, <3>1, <3>2
  <2>6. j \in T
    <3>1. j \in 1 .. n + 1
      BY <2>1
    <3> QED BY <2>4, <2>5, <3>1, Zenon
  <2>7. k <= j /\ k \in Nat
    <3>1. k <= j
      BY <1>4, <2>6, Zenon
    <3> QED BY <1>3, <3>1
  <2> QED BY <2>1, <2>7
<1> QED BY <1>1, <1>5, <1>6

\* ... and ErrorStart is where one ends that begins at 1.
LEMMA ErrorStartIsDecoded ==
    ASSUME NEW s \in Seq(ByteClasses)
    PROVE  \E f : Obeys(f, s, 1) /\ ErrorStart(s) = f[1]
<1> DEFINE Is(f) == f = [p \in 1 .. Len(s) + 1 |->
                           IF p <= Len(s) /\ CharacterAt(s, p) THEN f[p + Width(s[p])] ELSE p]
           f == CHOOSE f : Is(f)
<1>1. PICK g \in [1 .. Len(s) + 1 -> Nat] : Obeys(g, s, 1)
  BY DecoderExists
<1>2. Is(g)
  <2> DEFINE h == [p \in 1 .. Len(s) + 1 |->
                     IF p <= Len(s) /\ CharacterAt(s, p) THEN g[p + Width(s[p])] ELSE p]
  <2>1. \A p \in 1 .. Len(s) + 1 : g[p] = h[p]
    BY <1>1 DEF Obeys
  <2>2. g = [p \in 1 .. Len(s) + 1 |-> g[p]] /\ h = [p \in 1 .. Len(s) + 1 |-> h[p]]
    OBVIOUS
  <2>3. g = h
    <3> HIDE DEF h
    <3> QED BY <2>1, <2>2
  <2> QED BY <2>3
<1>3. Is(f)
  BY <1>2, Zenon
<1>4. ErrorStart(s) = f[1]
  BY DEF ErrorStart
<1> HIDE DEF f
<1>5. Obeys(f, s, 1)
  BY <1>3 DEF Obeys
<1> QED BY <1>4, <1>5

\* From p on, the decoder goes over characters up to the first that is not one.
LEMMA DecoderDecodes ==
    ASSUME NEW s \in Seq(ByteClasses), NEW f, Obeys(f, s, 1), NEW p \in 1 .. Len(s) + 1
    PROVE  /\ f[p] \in p .. Len(s) + 1
           /\ Decoded(s, p, f[p])
           /\ f[p] <= Len(s) => ~ CharacterAt(s, f[p])
<1>1. PICK n \in Nat : n = Len(s)
  BY LenProperties
<1> DEFINE Fine(k) == /\ f[k] \in k .. n + 1
                      /\ Decoded(s, k, f[k])
                      /\ f[k] <= n => ~ CharacterAt(s, f[k])
           T == {d \in 0 .. n : ~ Fine(n + 1 - d)}
<1>2. ASSUME T # {} PROVE FALSE
  <2>1. T \in SUBSET Nat
    OBVIOUS
  <2> HIDE DEF Fine
  <2>2. PICK d \in T : \A m \in T : d <= m
    BY <1>2, <2>1, Least
  <2>3. d \in 0..n /\ ~ Fine(n + 1 - d)
    OBVIOUS
  <2>4. \A m \in 0..n : m < d => Fine(n + 1 - m)
    BY <2>2, <2>3
  <2> HIDE DEF T
  <2>5. PICK k \in 1 .. n + 1 : k = n + 1 - d
    BY <2>3
  <2>6. ASSUME NEW j \in k + 1 .. n + 1 PROVE Fine(j)
    <3>1. PICK m \in 0..n : m = n + 1 - j
      BY <2>5
    <3>2. m < d /\ n + 1 - m = j
      BY <2>3, <2>5, <3>1
    <3> QED BY <2>4, <3>2
  <2>7. f[k] = IF k <= n /\ CharacterAt(s, k) THEN f[k + Width(s[k])] ELSE k
    BY <1>1 DEF Obeys
  <2>8. Fine(k)
    <3>1. CASE k <= n /\ CharacterAt(s, k)
      <4>1. PICK m \in k + 1 .. n + 1 : m = k + Width(s[k])
        BY <1>1, <3>1, CharacterProperties
      <4>2. f[k] = f[m] /\ Fine(m)
        BY <2>6, <2>7, <3>1, <4>1
      <4>3. f[m] \in m .. n + 1 /\ Decoded(s, m, f[m])
        BY <4>2 DEF Fine
      <4>4. k \in 1 .. Len(s) /\ f[m] \in Nat /\ m \in Nat /\ m <= f[m]
        BY <1>1, <3>1, <4>3
      <4>5. Decoded(s, k, f[m])
        BY <3>1, <4>1, <4>3, <4>4, DecodedBefore
      <4> QED BY <4>2, <4>3, <4>5 DEF Fine
    <3>2. CASE ~ (k <= n /\ CharacterAt(s, k))
      <4>1. f[k] = k /\ k .. k - 1 = {}
        BY <2>7, <3>2
      <4>2. Decoded(s, k, k)
        BY <4>1 DEF Decoded
      <4> QED BY <3>2, <4>1, <4>2 DEF Fine
    <3> QED BY <3>1, <3>2
  <2> QED BY <2>3, <2>5, <2>8
<1>3. n + 1 - p \in 0..n /\ n + 1 - (n + 1 - p) = p
  BY <1>1
<1>4. Fine(p)
  <2>1. n + 1 - p \notin T
    BY <1>2
  <2> HIDE DEF Fine
  <2> QED BY <1>3, <2>1
<1> QED BY <1>1, <1>4

LEMMA ErrorStartProperties ==
    ASSUME NEW s \in Seq(ByteClasses)
    PROVE  /\ ErrorStart(s) \in 1 .. Len(s) + 1
           /\ Decoded(s, 1, ErrorStart(s))
           /\ ErrorStart(s) <= Len(s) => ~ CharacterAt(s, ErrorStart(s))
<1>1. 1 \in 1 .. Len(s) + 1
  BY LenProperties
<1>2. PICK f : Obeys(f, s, 1) /\ ErrorStart(s) = f[1]
  BY ErrorStartIsDecoded
<1> QED BY <1>1, <1>2, DecoderDecodes

-----------------------------------------------------------------------------
\* A text is passed, wherever it was cut.
LEMMA TextPasses ==
    ASSUME NEW s \in Seq(ByteClasses), BeginsText(s)
    PROVE  IsText(s)
<1>1. PICK n \in Nat : n = Len(s)
  BY LenProperties
<1>2. PICK e \in 1 .. n + 1 : e = ErrorStart(s)
  BY <1>1, ErrorStartProperties
<1>3. Decoded(s, 1, e) /\ (e <= n => ~ CharacterAt(s, e))
  BY <1>1, <1>2, ErrorStartProperties
<1>4. ASSUME e <= n PROVE e + 3 >= n
  <2>1. e \in 1 .. n
    BY <1>4
  <2>2. s[e] # "cont"
    <3> SUFFICES ASSUME s[e] = "cont" PROVE FALSE
      OBVIOUS
    <3>1. PICK q \in 1 .. e - 1 : q + Width(s[q]) > e /\ \A i \in q + 1 .. e : s[i] = "cont"
      BY <1>1, <2>1 DEF BeginsText
    <3>2. s[q] \in ByteClasses /\ Width(s[q]) \in 0..4 /\ (Width(s[q]) = 0 <=> s[q] = "cont")
      BY <1>1, <2>1, ElementOfSeq, WidthProperties
    <3>3. s[q] # "cont"
      BY <3>1, <3>2
    <3>4. q + Width(s[q]) <= e
      BY <1>3, <3>3 DEF Decoded
    <3> QED BY <3>1, <3>2, <3>4
  <2>3. PICK w \in 1..4 : w = Width(s[e])
    BY <1>1, <2>1, <2>2, ElementOfSeq, WidthProperties
  <2>4. \A i \in e + 1 .. e + w - 1 : i <= n => s[i] = "cont"
    BY <1>1, <2>1, <2>3 DEF BeginsText
  <2>5. ~ (e + w - 1 <= n)
    BY <1>1, <1>3, <1>4, <2>3, <2>4 DEF CharacterAt
  <2> QED BY <2>5
<1>5. e + 3 >= n
  BY <1>4
<1>6. \A i \in 1 .. Len(s) : s[i] # "nul"
  BY DEF BeginsText
<1> QED BY <1>1, <1>2, <1>5, <1>6 DEF IsText

\* What is passed is a text up to its last four bytes.
LEMMA PassedIsText ==
    ASSUME NEW s \in Seq(ByteClasses), IsText(s), NEW k \in 0 .. Len(s),
           k = 0 \/ k = Len(s) - 4
    PROVE  BeginsText(SubSeq(s, 1, k))
<1>1. PICK n \in Nat : n = Len(s)
  BY LenProperties
<1>2. PICK e \in 1 .. n + 1 : e = ErrorStart(s)
  BY <1>1, ErrorStartProperties
<1>3. Decoded(s, 1, e) /\ e + 3 >= n /\ \A i \in 1..n : s[i] # "nul"
  BY <1>1, <1>2, ErrorStartProperties DEF IsText
<1>4. k \in 0 .. n /\ 1 .. k \subseteq 1 .. e - 1 /\ 1 .. k \subseteq 1 .. n
  BY <1>1, <1>3
<1> DEFINE t == SubSeq(s, 1, k)
<1>5. Len(t) = k /\ \A i \in 1..k : t[i] = s[i]
  <2>1. \A i \in 1..k : s[i] \in ByteClasses
    BY <1>1, <1>4, ElementOfSeq
  <2> QED BY <1>4, <2>1, SubSeqProperties
<1> HIDE DEF t
<1>6. ASSUME NEW p \in 1..k
      PROVE  /\ t[p] # "nul"
             /\ t[p] = "cont" => \E q \in 1..p - 1 :
                                   /\ q + Width(t[q]) > p
                                   /\ \A i \in q + 1 .. p : t[i] = "cont"
             /\ \A i \in p + 1 .. p + Width(t[p]) - 1 : i <= k => t[i] = "cont"
  <2>1. p \in 1 .. e - 1 /\ p \in 1 .. n /\ t[p] = s[p] /\ s[p] # "nul" /\ s[p] \in ByteClasses
    BY <1>1, <1>3, <1>4, <1>5, ElementOfSeq
  <2>2. CASE t[p] = "cont"
    <3>1. PICK q \in 1 .. p - 1 : q + Width(s[q]) > p /\ \A i \in q + 1 .. p : s[i] = "cont"
      BY <1>3, <2>1, <2>2 DEF Decoded
    <3>2. t[q] = s[q] /\ \A i \in q + 1 .. p : t[i] = s[i]
      BY <1>5
    <3>3. q + Width(t[q]) > p /\ \A i \in q + 1 .. p : t[i] = "cont"
      BY <3>1, <3>2
    <3>4. Width(t[p]) = 0
      BY <2>2 DEF Width
    <3>5. p + 1 .. p + 0 - 1 = {}
      OBVIOUS
    <3> QED BY <2>1, <3>3, <3>4, <3>5
  <2>3. CASE t[p] # "cont"
    <3>1. CharacterAt(s, p)
      BY <1>3, <2>1, <2>3 DEF Decoded
    <3>2. PICK w \in 0..4 : w = Width(s[p])
      BY <2>1, WidthProperties
    <3>3. \A i \in p + 1 .. p + w - 1 : s[i] = "cont"
      BY <3>1, <3>2 DEF CharacterAt
    <3>4. \A i \in p + 1 .. p + w - 1 : i <= k => t[i] = "cont"
      BY <1>5, <3>3
    <3> QED BY <2>1, <2>3, <3>2, <3>4
  <2> QED BY <2>2, <2>3
<1>7. BeginsText(t)
  BY <1>5, <1>6 DEF BeginsText
<1> QED BY <1>7 DEF t

-----------------------------------------------------------------------------
\* The head of the file, which was sniffed.
Seen == Smaller(SniffBytes, length)
Sample == SubSeq(body, 1, Seen)

\* What the sniffers said of it.
Judged ==
    /\ pc = "stream" \/ object # None => Seen \in 1..Len(body) /\ Sniff(format, Sample)
    /\ pc = "magic" => Seen \in 1..Len(body) /\ at = Seen /\ ~ Sniff(format, Sample)

LEMMA ReadHeadJudges ==
    ASSUME Inv, ReadHead
    PROVE  Judged'
<1> DEFINE m == Smaller(SniffBytes, length)
<1>1. PICK head \in [1..m -> Classes] :
        LET file == head \o [i \in 1..length - Len(head) |-> "plain"]
        IN  /\ body' = file
            /\ pc' = IF head = <<>> THEN "empty"
                     ELSE IF Sniff(format, head) THEN "stream" ELSE "magic"
            /\ at' = Len(head)
  BY DEF ReadHead
<1>2. length \in Nat /\ m \in 0..length /\ object = None
  BY IntakeAssumption DEF Inv, TypeOK, Smaller, ReadHead, Untouched
<1>3. length' = length /\ format' = format /\ object' = object /\ Seen' = m
  BY DEF ReadHead, Unmeasured, Seen
<1> HIDE DEF m
<1>4. /\ head \in Seq(ByteClasses) /\ Len(head) = m /\ Len(body') = length
      /\ head = SubSeq(body', 1, m)
  BY <1>1, <1>2, FileOfHead
<1>5. Sample' = head
  BY <1>3, <1>4 DEF Sample
<1>6. head # <<>> => Seen' \in 1..Len(body')
  <2>1. head # <<>> => m # 0
    BY <1>4, EmptySeq
  <2> QED BY <1>2, <1>3, <1>4, <2>1
<1>7. pc' = "stream" => head # <<>> /\ Sniff(format, head)
  BY <1>1
<1>8. pc' = "magic" => head # <<>> /\ ~ Sniff(format, head)
  BY <1>1
<1>9. at' = Seen'
  BY <1>1, <1>3, <1>4
<1> QED BY <1>2, <1>3, <1>5, <1>6, <1>7, <1>8, <1>9 DEF Judged

LEMMA JudgedNext == Inv /\ Judged /\ [Next]_vars => Judged'
<1> SUFFICES ASSUME Inv, Judged, [Next]_vars PROVE Judged'
  OBVIOUS
<1>1. ASSUME UNCHANGED <<length, body, format>>,
             pc' = "stream" \/ object' # None => pc = "stream" \/ object # None,
             pc' = "magic" => pc = "magic" /\ at' = at
      PROVE  Judged'
  BY <1>1 DEF Judged, Sample, Seen
<1>2. CASE UNCHANGED vars
  BY <1>1, <1>2 DEF vars
<1>3. CASE \E n \in 0..MaxBody : ContentLength(n)
  <2>1. object' = None /\ pc' \in {"content_length", "name"}
    BY <1>3 DEF ContentLength, Unmeasured, Inv, Untouched
  <2> QED BY <2>1 DEF Judged
<1>4. CASE \E extension \in DOMAIN ByExtension \cup {"another"}, mime \in MimeTypes :
             Name(extension, mime)
  <2>1. object' = None /\ pc' \in {"extension", "head", "mime"}
    BY <1>4 DEF Name, Unmeasured, Inv, Untouched
  <2> QED BY <2>1 DEF Judged
<1>5. CASE ReadHead
  BY <1>5, ReadHeadJudges
<1>6. CASE Consume
  <2>1. /\ UNCHANGED <<length, body, format, object>> /\ pc = "stream"
        /\ pc' \in {"size_limit", "stream"}
    BY <1>6 DEF Consume
  <2> QED BY <1>1, <2>1
<1>7. CASE Finish
  BY <1>1, <1>7 DEF Finish
<1>8. CASE StorageFails
  BY <1>1, <1>8 DEF StorageFails
<1> QED BY <1>2, <1>3, <1>4, <1>5, <1>6, <1>7, <1>8 DEF Next

LEMMA JudgedAlways == Spec => [](Inv /\ Judged)
<1>1. Init => Judged
  BY DEF Init, Judged
<1> QED BY <1>1, JudgedNext, InvAlways, PTL DEF Spec

LEMMA SampleProperties ==
    ASSUME Inv, Seen \in 1..Len(body)
    PROVE  /\ Sample \in Seq(ByteClasses) /\ Len(Sample) = Seen
           /\ \A i \in 1..Seen : Sample[i] = body[i]
           /\ \A k \in 0..Seen : SubSeq(Sample, 1, k) = SubSeq(body, 1, k)
<1>1. PICK n \in Nat : n = Len(body)
  BY LenProperties DEF Inv, TypeOK
<1>2. PICK m \in 1..n : m = Seen
  BY <1>1
<1>3. ASSUME NEW k \in 0..n
      PROVE  /\ SubSeq(body, 1, k) \in Seq(ByteClasses)
             /\ Len(SubSeq(body, 1, k)) = k
             /\ \A i \in 1..k : SubSeq(body, 1, k)[i] = body[i]
  <2>1. \A i \in 1..k : body[i] \in ByteClasses
    BY <1>1, ElementOfSeq DEF Inv, TypeOK
  <2> QED BY <2>1, SubSeqProperties
<1>4. /\ Sample \in Seq(ByteClasses) /\ Len(Sample) = m
      /\ \A i \in 1..m : Sample[i] = body[i]
  BY <1>2, <1>3 DEF Sample
<1>5. ASSUME NEW k \in 0..m PROVE SubSeq(Sample, 1, k) = SubSeq(body, 1, k)
  <2>1. \A i \in 1..k : Sample[i] \in ByteClasses
    BY <1>4, ElementOfSeq
  <2>2. /\ SubSeq(Sample, 1, k) \in Seq(ByteClasses) /\ Len(SubSeq(Sample, 1, k)) = k
        /\ \A i \in 1..k : SubSeq(Sample, 1, k)[i] = Sample[i]
    BY <2>1, SubSeqProperties
  <2>3. k \in 0..n /\ \A i \in 1..k : i \in 1..m
    OBVIOUS
  <2> QED BY <1>3, <1>4, <2>2, <2>3, SeqEqual
<1> QED BY <1>2, <1>4, <1>5

LEMMA JudgedText == Inv /\ Judged => TextIsNeverRefused
<1> SUFFICES ASSUME Inv, Judged, pc = "magic", format \in {"html", "markdown", "csv"},
                    BeginsText(SubSeq(body, 1, at))
             PROVE  format = "html" /\ \A i \in 1..at : SubSeq(body, 1, at)[i] # "tag"
  BY DEF TextIsNeverRefused
<1>1. Seen \in 1..Len(body) /\ at = Seen /\ ~ Sniff(format, Sample)
  BY DEF Judged
<1>2. SubSeq(body, 1, at) = Sample /\ Sample \in Seq(ByteClasses) /\ Len(Sample) = at
  BY <1>1, SampleProperties DEF Sample
<1>3. IsText(Sample)
  BY <1>2, TextPasses
<1> QED BY <1>1, <1>2, <1>3 DEF Sniff

LEMMA JudgedEvidence == Inv /\ Judged => EvidenceWasSeen
<1> DEFINE k == IF Seen > 4 THEN Seen - 4 ELSE 0
<1> SUFFICES ASSUME Inv, Judged, pc = "stream" \/ object # None
             PROVE  /\ format = "pdf" => body[1] = "pdf"
                    /\ format = "docx" => body[1] = "zip"
                    /\ format \in {"html", "markdown", "csv"} => BeginsText(SubSeq(body, 1, k))
  BY DEF EvidenceWasSeen, Seen
<1>1. Seen \in 1..Len(body) /\ Sniff(format, Sample)
  BY DEF Judged
<1>2. PICK m \in Nat : m = Seen
  BY IntakeAssumption DEF Inv, TypeOK, Seen, Smaller
<1>3. 1 \in 1..Seen /\ k \in 0..Seen /\ (k = 0 \/ k = Seen - 4)
  BY <1>1, <1>2
<1>4. /\ Sample \in Seq(ByteClasses) /\ Len(Sample) = Seen /\ Sample[1] = body[1]
      /\ SubSeq(Sample, 1, k) = SubSeq(body, 1, k)
  BY <1>1, <1>3, SampleProperties
<1> HIDE DEF k
<1>5. format \in {"html", "markdown", "csv"} => IsText(Sample)
  BY <1>1 DEF Sniff
<1>6. format = "pdf" => Sample[1] = "pdf"
  BY <1>1 DEF Sniff
<1>7. format = "docx" => Sample[1] = "zip"
  BY <1>1 DEF Sniff
<1> QED BY <1>3, <1>4, <1>5, <1>6, <1>7, PassedIsText

-----------------------------------------------------------------------------
\* The state of an upload stays well typed.
THEOREM IntakeTypeCorrect == Spec => []TypeOK
<1>1. Inv => TypeOK
  BY DEF Inv
<1> QED
  BY <1>1, InvAlways, PTL

\* Object, hash and size are the file's, whatever the size of a read.
THEOREM UploadsAreWhole == Spec => []StoredIsUploaded
<1>1. Inv => StoredIsUploaded
  BY DEF Inv
<1> QED
  BY <1>1, InvAlways, PTL

\* The cap refuses and admits to the byte, and no body is read much past it.
THEOREM LimitHolds == Spec => []LimitIsExact
<1>1. Inv => LimitIsExact
  BY DEF Inv, Bounded, Refusals, LimitIsExact
<1> QED
  BY <1>1, InvAlways, PTL

\* No text is refused for where the sample cuts it: the tolerance of _is_text
\* covers every way to cut a character (file_validation.py, _is_text).
THEOREM TextsAreTaken == Spec => []TextIsNeverRefused
BY JudgedAlways, JudgedText, PTL

\* What is stored, or on its way there, has been borne out by its bytes, but for
\* the last four of the sample.
THEOREM EvidenceHolds == Spec => []EvidenceWasSeen
BY JudgedAlways, JudgedEvidence, PTL
=============================================================================
