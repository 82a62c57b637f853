------------------------- MODULE R2Multipart_proof -------------------------
(***************************************************************************)
(* For any number of uploads and keys, any size of a part and of a chunk:  *)
(* what a key holds is all of one stream, whatever calls are lost, late,   *)
(* repeated or cancelled.                                                  *)
(***************************************************************************)
EXTENDS R2Multipart, Integers, SequenceTheorems, WellFoundedInduction, TLAPS

\* Bytes i + 1 to j of the stream of u.
Cut(u, i, j) == [x \in 1 .. j - i |-> <<u, i + x>>]

\* Where part n ends if it is a full one, and where it does in a stream of t
\* bytes.
Mark(n) == n * PartSize
PartEnd(n, t) == IF Mark(n) <= t THEN Mark(n) ELSE t

-----------------------------------------------------------------------------
\* The bytes there can be, and what can be made of them.
Byte == Uploads \X Nat
Stream == Seq(Byte)
Pcs == {"read"} \cup Calls \cup Ends

Put ==
    [pc : Pcs, key : Keys, total : 0..MaxBytes, buffer : Stream, ended : BOOLEAN,
     id : Nat \cup {None}, parts : Nat, tries : 0..Retries,
     why : {"none", "stream", "storage", "abort"}, stuck : BOOLEAN]

Pieces == UNION {[D -> Stream] : D \in SUBSET Nat}
Session == [by : Uploads, open : BOOLEAN, part : Pieces]

Message ==
    [from : Uploads, op : Calls, key : Keys, id : Nat \cup {None}, tries : 0..Retries,
     number : Nat, body : Stream]

\* The invariant has the state as its parameters: a step is taken apart into
\* what the store does and what put_stream does after that.
Typed(U, O, S, N) ==
    /\ U \in [Uploads -> {NotBegun} \cup Put]
    /\ O \in [Keys -> Stream \cup {None}]
    /\ S \in Seq(Session)
    /\ N \subseteq Message

\* Part n of a put_stream q is the n-th stretch of its stream, full unless the
\* stream has ended.
Placed(u, q, n, piece) ==
    /\ n \in Nat \ {0}
    /\ Mark(n - 1) < q.total
    /\ Mark(n) <= q.total \/ q.ended
    /\ piece = Cut(u, Mark(n - 1), PartEnd(n, q.total))

\* What is not in the buffer any more is in the acknowledged parts.
Buffered(u, q) ==
    /\ Len(q.buffer) <= q.total
    /\ q.buffer = Cut(u, q.total - Len(q.buffer), q.total)
    /\ q.total - Len(q.buffer) = PartEnd(q.parts, q.total)
    /\ Mark(q.parts) <= q.total \/ q.ended
    /\ Len(q.buffer) < PartSize + MaxChunk

\* Where put_stream is says what it has.
Placewise(q) ==
    /\ q.pc = "read" => ~q.ended /\ Len(q.buffer) < PartSize
    /\ q.pc = "create" => ~q.ended /\ q.id = None /\ Len(q.buffer) >= PartSize
    /\ q.pc = "part" =>
         q.id # None /\ q.buffer # <<>> /\ (q.ended <=> Len(q.buffer) < PartSize)
    /\ q.pc = "put" => q.ended /\ q.id = None
    /\ q.pc = "complete" => q.ended /\ q.id # None /\ q.buffer = <<>>
    /\ q.pc = "abort" => q.id # None /\ q.why # "none"
    /\ q.pc = "returned" => q.ended
    /\ q.pc = "raised" => q.why # "none"
    /\ q.pc \in Ends => q.buffer = <<>>

\* The upload put_stream knows is its own, and has every part it counts.
Owns(u, q, S) ==
    /\ q.id # None => q.id \in 1..Len(S) /\ S[q.id].by = u
    /\ q.pc \notin Ends =>
         IF q.id = None THEN q.parts = 0
         ELSE q.total >= PartSize /\ 1 .. q.parts \subseteq DOMAIN S[q.id].part

Coherent(u, q, S) ==
    /\ q.pc \notin Ends => Buffered(u, q)
    /\ Placewise(q)
    /\ Owns(u, q, S)

SessionsHold(U, S) ==
    \A id \in 1..Len(S) :
      /\ U[S[id].by].pc # "idle"
      /\ \A n \in DOMAIN S[id].part : Placed(S[id].by, U[S[id].by], n, S[id].part[n])

\* A call says what its put_stream meant it to say, whenever it arrives.
Faithful(m, q, S) ==
    /\ m.key = q.key
    /\ m.op \in {"part", "complete", "abort"} =>
         m.id \in 1..Len(S) /\ S[m.id].by = m.from
    /\ m.op = "part" => Placed(m.from, q, m.number, m.body)
    /\ m.op = "put" => q.ended /\ m.body = Cut(m.from, 0, q.total)
    /\ m.op = "complete" =>
         /\ q.ended /\ m.number # 0 /\ Mark(m.number) >= q.total
         /\ 1 .. m.number \subseteq DOMAIN S[m.id].part

MessagesHold(U, S, N) ==
    \A m \in N : U[m.from].pc # "idle" /\ Faithful(m, U[m.from], S)

ObjectsHold(U, O) ==
    /\ \A k \in Keys :
         O[k] # None => \E u \in Uploads : /\ U[u].pc # "idle" /\ U[u].key = k /\ U[u].ended
                                           /\ O[k] = Cut(u, 0, U[u].total)
    /\ \A u \in Uploads :
         /\ U[u].pc = "returned"
         /\ \A v \in Uploads \ {u} : U[v].pc # "idle" => U[v].key # U[u].key
         => O[U[u].key] = Cut(u, 0, U[u].total)

NothingLeft(q, S) ==
    q.pc \in {"returned", "raised"} /\ q.id # None /\ S[q.id].open => q.stuck

Good(U, O, S, N) ==
    /\ Typed(U, O, S, N)
    /\ \A u \in Uploads : U[u].pc # "idle" => Coherent(u, U[u], S) /\ NothingLeft(U[u], S)
    /\ SessionsHold(U, S)
    /\ MessagesHold(U, S, N)
    /\ ObjectsHold(U, O)

Inv == Good(up, object, session, net)

-----------------------------------------------------------------------------
\* A set of numbers has a least one: what stands in for induction below.
LEMMA Least ==
    ASSUME NEW T \in SUBSET Nat, T # {}
    PROVE  \E n \in T : \A m \in T : n <= m
<1> DEFINE R == OpToRel(<, Nat)
<1>1. IsWellFoundedOn(R, Nat)
  BY NatLessThanWellFounded
<1>2. ASSUME NEW x \in Nat, NEW y \in Nat, y < x PROVE <<y, x>> \in R
  BY <1>2 DEF OpToRel
<1> HIDE DEF R
<1>3. PICK x \in T : \A y \in T : ~ (<<y, x>> \in R)
  BY <1>1, WFMin
<1>4. ASSUME NEW y \in T PROVE ~ (y < x)
  BY <1>2, <1>3, Zenon
<1>5. x \in Nat /\ T \subseteq Nat
  OBVIOUS
<1> QED BY <1>4, <1>5

LEMMA MarkProperties ==
    ASSUME NEW n \in Nat
    PROVE  /\ Mark(n) \in Nat
           /\ Mark(n + 1) = Mark(n) + PartSize
           /\ Mark(0) = 0 /\ Mark(1) = PartSize
BY R2MultipartAssumption DEF Mark

LEMMA CutElements ==
    ASSUME NEW u \in Uploads, NEW i \in Nat, NEW j \in Nat, i <= j
    PROVE  /\ Cut(u, i, j) \in [1 .. j - i -> Byte]
           /\ \A x \in 1 .. j - i : Cut(u, i, j)[x] = <<u, i + x>>
BY DEF Cut, Byte

\* (Unbounded quantifiers in one row are what SMT finds instances of.)
LEMMA CutProperties ==
    \A u, i, j : u \in Uploads /\ i \in Nat /\ j \in Nat /\ i <= j =>
      Cut(u, i, j) \in Stream /\ Len(Cut(u, i, j)) = j - i
<1> SUFFICES ASSUME NEW u \in Uploads, NEW i \in Nat, NEW j \in Nat, i <= j
             PROVE  Cut(u, i, j) \in Stream /\ Len(Cut(u, i, j)) = j - i
  OBVIOUS
<1>1. j - i \in Nat
  OBVIOUS
<1>2. Cut(u, i, j) \in [1 .. j - i -> Byte]
  BY CutElements
<1> QED BY <1>1, <1>2 DEF Stream

LEMMA CutJoin ==
    \A u, i, j, k : u \in Uploads /\ i \in Nat /\ j \in Nat /\ k \in Nat /\ i <= j /\ j <= k =>
      Cut(u, i, j) \o Cut(u, j, k) = Cut(u, i, k)
<1> SUFFICES ASSUME NEW u \in Uploads, NEW i \in Nat, NEW j \in Nat, NEW k \in Nat,
                    i <= j, j <= k
             PROVE  Cut(u, i, j) \o Cut(u, j, k) = Cut(u, i, k)
  OBVIOUS
<1> DEFINE a == Cut(u, i, j)
           b == Cut(u, j, k)
           c == Cut(u, i, k)
<1>1. /\ a \in Seq(Byte) /\ Len(a) = j - i
      /\ \A x \in 1 .. j - i : a[x] = <<u, i + x>>
  BY CutProperties, CutElements DEF Stream
<1>2. /\ b \in Seq(Byte) /\ Len(b) = k - j
      /\ \A x \in 1 .. k - j : b[x] = <<u, j + x>>
  BY CutProperties, CutElements DEF Stream
<1>3. /\ c \in Seq(Byte) /\ Len(c) = k - i
      /\ \A x \in 1 .. k - i : c[x] = <<u, i + x>>
  <2>1. i <= k
    OBVIOUS
  <2> QED BY <2>1, CutProperties, CutElements DEF Stream
<1> HIDE DEF a, b, c
<1>4. /\ a \o b \in Seq(Byte) /\ Len(a \o b) = k - i
      /\ \A x \in 1 .. k - i : (a \o b)[x] = IF x <= j - i THEN a[x] ELSE b[x - (j - i)]
  <2>1. Len(a) + Len(b) = k - i
    BY <1>1, <1>2
  <2>2. /\ a \o b \in Seq(Byte) /\ Len(a \o b) = Len(a) + Len(b)
        /\ \A x \in 1 .. Len(a) + Len(b) :
             (a \o b)[x] = IF x <= Len(a) THEN a[x] ELSE b[x - Len(a)]
    BY <1>1, <1>2, ConcatProperties
  <2> QED BY <1>1, <2>1, <2>2
<1>5. \A x \in 1 .. k - i : (a \o b)[x] = c[x]
  <2> TAKE x \in 1 .. k - i
  <2>1. CASE x <= j - i
    <3>1. x \in 1 .. j - i
      BY <2>1
    <3>2. a[x] = <<u, i + x>> /\ c[x] = <<u, i + x>> /\ (a \o b)[x] = a[x]
      BY <1>1, <1>3, <1>4, <2>1, <3>1
    <3> QED BY <3>2
  <2>2. CASE ~ (x <= j - i)
    <3>1. x - (j - i) \in 1 .. k - j /\ j + (x - (j - i)) = i + x
      BY <2>2
    <3>2. /\ b[x - (j - i)] = <<u, j + (x - (j - i))>> /\ c[x] = <<u, i + x>>
          /\ (a \o b)[x] = b[x - (j - i)]
      BY <1>2, <1>3, <1>4, <2>2, <3>1
    <3> QED BY <3>1, <3>2
  <2> QED BY <2>1, <2>2
<1>6. a \o b = c
  BY <1>3, <1>4, <1>5, SeqEqual
<1> QED BY <1>6 DEF a, b, c

\* A stretch up to m and the one from m on.
LEMMA CutInTwo ==
    ASSUME NEW u \in Uploads, NEW a \in Nat, NEW m \in Nat, NEW t \in Nat, a <= m, m <= t
    PROVE  /\ SubSeq(Cut(u, a, t), 1, m - a) = Cut(u, a, m)
           /\ SubSeq(Cut(u, a, t), (m - a) + 1, t - a) = Cut(u, m, t)
<1> DEFINE s == Cut(u, a, t)
           p == Cut(u, a, m)
           r == Cut(u, m, t)
           n == m - a
           l == t - a
<1>1. n \in Nat /\ l \in Nat /\ n <= l /\ t - m = l - n /\ a <= t /\ a + n = m
  OBVIOUS
<1>2. s \in Seq(Byte) /\ Len(s) = l /\ \A x \in 1 .. l : s[x] = <<u, a + x>>
  BY <1>1, CutProperties, CutElements DEF Stream
<1>3. p \in Seq(Byte) /\ Len(p) = n /\ \A x \in 1 .. n : p[x] = <<u, a + x>>
  BY CutProperties, CutElements DEF Stream
<1>4. r \in Seq(Byte) /\ Len(r) = t - m /\ \A x \in 1 .. t - m : r[x] = <<u, m + x>>
  BY CutProperties, CutElements DEF Stream
<1> HIDE DEF s, p, r, n, l
<1>5. SubSeq(s, 1, n) = p
  <2>1. \A x \in 1 .. n : s[x] \in Byte
    BY <1>1, <1>2
  <2>2. /\ SubSeq(s, 1, n) \in Seq(Byte)
        /\ Len(SubSeq(s, 1, n)) = IF 1 <= n THEN n - 1 + 1 ELSE 0
        /\ \A x \in 1 .. n - 1 + 1 : SubSeq(s, 1, n)[x] = s[1 + x - 1]
    BY <1>1, <2>1, SubSeqProperties
  <2>3. Len(SubSeq(s, 1, n)) = n /\ \A x \in 1 .. n : SubSeq(s, 1, n)[x] = s[x]
    BY <1>1, <2>2
  <2>4. \A x \in 1 .. n : SubSeq(s, 1, n)[x] = p[x]
    <3> TAKE x \in 1 .. n
    <3>1. x \in 1 .. l
      BY <1>1
    <3> QED BY <1>2, <1>3, <2>3, <3>1
  <2> QED BY <1>3, <2>2, <2>3, <2>4, SeqEqual
<1>6. SubSeq(s, n + 1, l) = r
  <2>1. \A x \in n + 1 .. l : s[x] \in Byte
    BY <1>1, <1>2
  <2>2. /\ SubSeq(s, n + 1, l) \in Seq(Byte)
        /\ Len(SubSeq(s, n + 1, l)) = IF n + 1 <= l THEN l - (n + 1) + 1 ELSE 0
        /\ \A x \in 1 .. l - (n + 1) + 1 : SubSeq(s, n + 1, l)[x] = s[n + 1 + x - 1]
    BY <1>1, <2>1, SubSeqProperties
  <2>3. /\ Len(SubSeq(s, n + 1, l)) = t - m
        /\ \A x \in 1 .. t - m : SubSeq(s, n + 1, l)[x] = s[n + x]
    BY <1>1, <2>2
  <2>4. ASSUME NEW x \in 1 .. t - m PROVE SubSeq(s, n + 1, l)[x] = r[x]
    <3>1. n + x \in 1 .. l /\ a + (n + x) = m + x
      BY <1>1
    <3> QED BY <1>2, <1>4, <2>3, <3>1
  <2> QED BY <1>4, <2>2, <2>3, <2>4, SeqEqual
<1> QED BY <1>5, <1>6 DEF s, p, r, n, l

\* (The same, for instances.)
LEMMA CutPrefix ==
    \A u, a, m, t : u \in Uploads /\ a \in Nat /\ m \in Nat /\ t \in Nat /\ a <= m /\ m <= t =>
      SubSeq(Cut(u, a, t), 1, m - a) = Cut(u, a, m)
BY CutInTwo

LEMMA CutSuffix ==
    \A u, a, m, t : u \in Uploads /\ a \in Nat /\ m \in Nat /\ t \in Nat /\ a <= m /\ m <= t =>
      SubSeq(Cut(u, a, t), (m - a) + 1, t - a) = Cut(u, m, t)
BY CutInTwo

LEMMA BytesAreCut ==
    ASSUME NEW u, NEW n \in Nat
    PROVE  Bytes(u, n) = Cut(u, 0, n)
<1>1. 1 .. n - 0 = 1..n /\ \A x \in 1..n : 0 + x = x
  OBVIOUS
<1> QED BY <1>1 DEF Bytes, Cut

-----------------------------------------------------------------------------
\* FlattenSeq is the value at the end of any function that obeys its recursion.
LEMMA FlattenFollows ==
    ASSUME NEW s, Len(s) \in Nat, Len(s) # 0,
           NEW g, g = [i \in 1..Len(s) |-> IF i = 1 THEN s[i] ELSE g[i-1] \o s[i]]
    PROVE  FlattenSeq(s) = g[Len(s)]
<1> DEFINE Obeys(f) == f = [i \in 1..Len(s) |-> IF i = 1 THEN s[i] ELSE f[i-1] \o s[i]]
           f == CHOOSE f : Obeys(f)
<1>1. Obeys(f)
  BY Zenon
<1>2. FlattenSeq(s) = f[Len(s)]
  BY DEF FlattenSeq
<1> HIDE DEF f
<1> DEFINE T == {i \in 1..Len(s) : f[i] # g[i]}
<1>3. T = {}
  <2> SUFFICES ASSUME T # {} PROVE FALSE
    OBVIOUS
  <2>1. T \in SUBSET Nat
    OBVIOUS
  <2>2. PICK n \in T : \A m \in T : n <= m
    BY <2>1, Least
  <2>3. n \in 1..Len(s) /\ f[n] # g[n] /\ n # 1
    BY <1>1
  <2>4. n - 1 \in 1..Len(s) /\ n - 1 \notin T
    BY <2>2, <2>3
  <2>5. f[n] = f[n - 1] \o s[n] /\ g[n] = g[n - 1] \o s[n]
    BY <1>1, <2>3
  <2> QED BY <2>3, <2>4, <2>5
<1>4. Len(s) \in 1..Len(s)
  OBVIOUS
<1> QED BY <1>2, <1>3, <1>4

-----------------------------------------------------------------------------
\* Parts that lie one behind the other, up to the end, are the stream.
LEMMA PartsMakeWhole ==
    ASSUME NEW u \in Uploads, NEW t \in Nat, NEW n \in Nat \ {0}, Mark(n) >= t, NEW p,
           \A i \in 1..n : Mark(i - 1) < t /\ p[i] = Cut(u, Mark(i - 1), PartEnd(i, t))
    PROVE  FlattenSeq([i \in 1..n |-> p[i]]) = Bytes(u, t)
<1> DEFINE s == [i \in 1..n |-> p[i]]
           g == [i \in 1..n |-> Cut(u, 0, PartEnd(i, t))]
<1>1. Len(s) = n /\ \A i \in 1..n : s[i] = p[i]
  OBVIOUS
<1>2. \A i \in 1..n : g[i] = Cut(u, 0, PartEnd(i, t))
  OBVIOUS
<1>3. ASSUME NEW i \in 1..n
      PROVE  g[i] = IF i = 1 THEN s[i] ELSE g[i - 1] \o s[i]
  <2>1. CASE i = 1
    <3>1. Mark(i - 1) = 0
      BY <2>1, MarkProperties
    <3> QED BY <1>1, <1>2, <2>1, <3>1
  <2>2. CASE i # 1
    <3>1. i - 1 \in 1..n /\ i - 1 \in Nat /\ (i - 1) + 1 = i
      BY <2>2
    <3>2. Mark(i - 1) \in Nat /\ Mark(i) = Mark(i - 1) + PartSize
      BY <3>1, MarkProperties
    <3>3. Mark(i - 1) < t
      OBVIOUS
    <3>4. PartEnd(i - 1, t) = Mark(i - 1)
      BY <3>2, <3>3 DEF PartEnd
    <3>5. PartEnd(i, t) \in Nat /\ Mark(i - 1) <= PartEnd(i, t)
      BY <3>2, <3>3, R2MultipartAssumption DEF PartEnd
    <3> HIDE DEF s, g
    <3>8. 0 \in Nat /\ 0 <= Mark(i - 1)
      BY <3>2
    <3>6. Cut(u, 0, Mark(i - 1)) \o Cut(u, Mark(i - 1), PartEnd(i, t)) = Cut(u, 0, PartEnd(i, t))
      BY <3>2, <3>5, <3>8, CutJoin
    <3>7. g[i - 1] = Cut(u, 0, Mark(i - 1))
      BY <1>2, <3>1, <3>4
    <3> QED BY <1>1, <1>2, <2>2, <3>6, <3>7
  <2> QED BY <2>1, <2>2
<1>4. g = [i \in 1..Len(s) |-> IF i = 1 THEN s[i] ELSE g[i - 1] \o s[i]]
  <2> DEFINE h == [i \in 1..n |-> IF i = 1 THEN s[i] ELSE g[i - 1] \o s[i]]
  <2>1. \A i \in 1..n : g[i] = h[i]
    BY <1>3
  <2>2. g = h
    <3>1. DOMAIN g = 1..n /\ DOMAIN h = 1..n /\ g = [i \in 1..n |-> g[i]] /\ h = [i \in 1..n |-> h[i]]
      OBVIOUS
    <3> HIDE DEF g, h
    <3> QED BY <2>1, <3>1
  <2> QED BY <1>1, <2>2
<1>5. FlattenSeq(s) = g[n]
  <2>1. Len(s) \in Nat /\ Len(s) # 0
    BY <1>1
  <2> HIDE DEF s, g
  <2> QED BY <1>1, <1>4, <2>1, FlattenFollows
<1>6. g[n] = Cut(u, 0, t)
  <2>1. PartEnd(n, t) = t
    BY MarkProperties DEF PartEnd
  <2> QED BY <1>2, <2>1
<1> QED BY <1>5, <1>6, BytesAreCut

\* Where the next part ends, with l bytes left.
LEMMA PartEndProperties ==
    ASSUME NEW k \in Nat, NEW t \in Nat, NEW l \in Nat \ {0}, l <= t, t - l = PartEnd(k, t)
    PROVE  LET n == IF l < PartSize THEN l ELSE PartSize
           IN  /\ Mark(k) \in Nat /\ Mark(k) < t /\ Mark(k) + l = t
               /\ PartEnd(k + 1, t) = Mark(k) + n
               /\ l >= PartSize => Mark(k + 1) <= t
<1>1. Mark(k) \in Nat /\ Mark(k + 1) = Mark(k) + PartSize /\ PartSize \in Nat
  BY MarkProperties, R2MultipartAssumption
<1>2. Mark(k) < t /\ Mark(k) + l = t
  BY <1>1 DEF PartEnd
<1>3. l < PartSize => PartEnd(k + 1, t) = t
  BY <1>1, <1>2 DEF PartEnd
<1>4. l >= PartSize => PartEnd(k + 1, t) = Mark(k + 1) /\ Mark(k + 1) <= t
  BY <1>1, <1>2 DEF PartEnd
<1> QED BY <1>1, <1>2, <1>3, <1>4

\* What the next part is, and what is left of the buffer when it has gone.
LEMMA NextPartProperties ==
    ASSUME NEW u \in Uploads, NEW q \in Put, Buffered(u, q), q.buffer # <<>>
    PROVE  /\ q.ended \/ Len(q.buffer) >= PartSize => Placed(u, q, q.parts + 1, NextPart(q))
           /\ LET rest == SubSeq(q.buffer, Len(NextPart(q)) + 1, Len(q.buffer))
              IN  /\ Len(rest) \in Nat /\ Len(rest) <= Len(q.buffer) /\ rest \in Stream
                  /\ rest = Cut(u, q.total - Len(rest), q.total)
                  /\ q.total - Len(rest) = PartEnd(q.parts + 1, q.total)
                  /\ Len(q.buffer) < PartSize => rest = <<>>
                  /\ rest = <<>> => Len(rest) = 0
<1>1. PICK l \in Nat \ {0} : l = Len(q.buffer)
  BY EmptySeq, LenProperties DEF Put, Stream
<1>2. PICK t \in Nat : t = q.total
  BY R2MultipartAssumption DEF Put
<1>3. PICK k \in Nat : k = q.parts
  BY DEF Put
<1>4. l <= t /\ t - l = PartEnd(k, t) /\ q.buffer = Cut(u, t - l, t)
  BY <1>1, <1>2, <1>3 DEF Buffered
<1>5. PICK n \in Nat \ {0} : n = IF l < PartSize THEN l ELSE PartSize
  BY R2MultipartAssumption
<1>6. PICK a \in Nat : a = Mark(k)
  BY <1>3, MarkProperties
<1>7. PICK m \in Nat : m = a + n
  OBVIOUS
<1>8. /\ a < t /\ a + l = t /\ t - l = a /\ n <= l
      /\ PartEnd(k + 1, t) = m
      /\ l >= PartSize => Mark(k + 1) <= t
  <2>1. LET e == IF l < PartSize THEN l ELSE PartSize
        IN  /\ Mark(k) \in Nat /\ Mark(k) < t /\ Mark(k) + l = t
            /\ PartEnd(k + 1, t) = Mark(k) + e
            /\ l >= PartSize => Mark(k + 1) <= t
    BY <1>4, PartEndProperties
  <2>2. n <= l
    BY <1>5, R2MultipartAssumption
  <2> QED BY <2>1, <2>2, <1>5, <1>6, <1>7
<1>9. a <= m /\ m <= t /\ m - a = n /\ t - a = l /\ t - m = l - n
  BY <1>7, <1>8
<1> DEFINE p == NextPart(q)
           rest == SubSeq(q.buffer, Len(p) + 1, Len(q.buffer))
<1>10. p = Cut(u, a, m) /\ Len(p) = n
  <2>1. p = SubSeq(Cut(u, a, t), 1, n)
    BY <1>1, <1>4, <1>5, <1>8 DEF NextPart
  <2>2. SubSeq(Cut(u, a, t), 1, m - a) = Cut(u, a, m)
    <3>1. a <= m /\ m <= t
      BY <1>9
    <3> QED BY <3>1, CutPrefix, Zenon
  <2>3. Len(Cut(u, a, m)) = m - a
    BY <1>9, CutProperties, Zenon
  <2> QED BY <1>9, <2>1, <2>2, <2>3
<1>11. rest = Cut(u, m, t) /\ rest \in Stream /\ Len(rest) = l - n
  <2>1. rest = SubSeq(Cut(u, a, t), n + 1, l)
    BY <1>1, <1>4, <1>8, <1>10
  <2>2. SubSeq(Cut(u, a, t), (m - a) + 1, t - a) = Cut(u, m, t)
    <3>1. a <= m /\ m <= t
      BY <1>9
    <3> QED BY <3>1, CutSuffix, Zenon
  <2>3. Len(Cut(u, m, t)) = t - m /\ Cut(u, m, t) \in Stream
    BY <1>9, CutProperties, Zenon
  <2> HIDE DEF rest
  <2> QED BY <1>9, <2>1, <2>2, <2>3
<1> HIDE DEF p, rest
<1>12. ASSUME q.ended \/ l >= PartSize PROVE Placed(u, q, k + 1, p)
  <2>1. k + 1 \in Nat \ {0} /\ (k + 1) - 1 = k
    OBVIOUS
  <2>2. Mark(k + 1) <= t \/ q.ended
    BY <1>8, <1>12
  <2> QED BY <1>2, <1>6, <1>8, <1>10, <2>1, <2>2 DEF Placed
<1>13. Len(rest) \in Nat /\ Len(rest) <= l /\ t - Len(rest) = m
  BY <1>8, <1>9, <1>11
<1>15. l < PartSize => rest = <<>>
  BY <1>5, <1>11, EmptySeq DEF Stream
<1>16. rest = <<>> => Len(rest) = 0
  BY EmptySeq
<1>17. rest = Cut(u, t - Len(rest), t)
  BY <1>11, <1>13
<1> QED
  BY <1>1, <1>2, <1>3, <1>8, <1>11, <1>12, <1>13, <1>15, <1>16, <1>17 DEF p, rest

-----------------------------------------------------------------------------
\* put_stream keeps its key and goes forward in its stream, up to the end.
Grows(q, r) ==
    /\ r.key = q.key
    /\ q.total <= r.total
    /\ q.ended => r.ended /\ r.total = q.total

LEMMA PlacedStays ==
    ASSUME NEW u \in Uploads, NEW q \in Put, NEW r \in Put, Grows(q, r),
           NEW n, NEW piece, Placed(u, q, n, piece)
    PROVE  Placed(u, r, n, piece)
<1>1. q.total \in Nat /\ r.total \in Nat
  BY R2MultipartAssumption DEF Put
<1>2. n \in Nat \ {0} /\ Mark(n) \in Nat /\ Mark(n - 1) \in Nat
  <2>1. n \in Nat \ {0} /\ n - 1 \in Nat
    BY DEF Placed
  <2> QED BY <2>1, MarkProperties
<1>3. PartEnd(n, r.total) = PartEnd(n, q.total)
  BY <1>1, <1>2 DEF Placed, Grows, PartEnd
<1> QED BY <1>1, <1>2, <1>3 DEF Placed, Grows

LEMMA LeftProperties ==
    ASSUME NEW q \in Put
    PROVE  /\ Left(q) \in Put
           /\ Left(q).pc = q.pc /\ Left(q).key = q.key /\ Left(q).total = q.total
           /\ Left(q).ended = q.ended /\ Left(q).id = q.id /\ Left(q).why = q.why
           /\ Left(q).stuck = q.stuck
           /\ q.pc \notin Ends => Left(q) = q
           /\ q.pc \in Ends => Left(q).buffer = <<>>
<1>1. 0 \in 0..Retries /\ 0 \in Nat
  BY R2MultipartAssumption
<1>2. <<>> \in Stream
  BY EmptySeq DEF Stream
<1>3. CASE q.pc \in Ends
  <2>1. Left(q) = [q EXCEPT !.buffer = <<>>, !.parts = 0, !.tries = 0]
    BY <1>3 DEF Left
  <2> QED BY <1>1, <1>2, <1>3, <2>1 DEF Put
<1>4. CASE q.pc \notin Ends
  BY <1>4 DEF Left
<1> QED BY <1>3, <1>4

LEMMA PutIsBegun ==
    ASSUME NEW q \in {NotBegun} \cup Put
    PROVE  q \in Put <=> q.pc # "idle"
BY DEF NotBegun, Put, Pcs, Calls, Ends

\* What put_stream asks of the store is what it means.
LEMMA CallProperties ==
    ASSUME NEW u \in Uploads, NEW q \in Put, q.pc \in Calls,
           NEW S \in Seq(Session), Coherent(u, q, S)
    PROVE  /\ Call(u, q) \in Message
           /\ Call(u, q).from = u
           /\ Faithful(Call(u, q), q, S)
<1> DEFINE m == Call(u, q)
<1>1. /\ m.from = u /\ m.op = q.pc /\ m.key = q.key /\ m.id = q.id /\ m.tries = q.tries
      /\ q.pc = "part" => m.number = q.parts + 1 /\ m.body = NextPart(q)
      /\ q.pc # "part" => m.number = q.parts
      /\ q.pc = "put" => m.body = q.buffer
      /\ q.pc \notin {"part", "put"} => m.body = <<>>
  BY DEF Call
<1>2. q.pc \notin Ends
  BY DEF Calls, Ends
<1>3. Buffered(u, q) /\ Placewise(q) /\ Owns(u, q, S)
  BY <1>2 DEF Coherent
<1>4. q.parts \in Nat /\ q.total \in Nat /\ q.buffer \in Stream /\ Len(q.buffer) \in Nat
  BY R2MultipartAssumption, LenProperties DEF Put, Stream
<1>11. PICK k \in Nat : k = q.parts
  BY <1>4
<1>12. PICK t \in Nat : t = q.total
  BY <1>4
<1>13. /\ Mark(k) \in Nat /\ Mark(k + 1) \in Nat /\ Mark(k) <= Mark(k + 1)
       /\ Mark(0) = 0 /\ PartSize \in Nat \ {0}
  <2>1. Mark(k) \in Nat /\ Mark(k + 1) = Mark(k) + PartSize /\ Mark(0) = 0
    BY MarkProperties, Zenon
  <2> QED BY <2>1, R2MultipartAssumption
<1>5. q.pc = "part" => Placed(u, q, q.parts + 1, NextPart(q)) /\ NextPart(q) \in Stream
  <2> SUFFICES ASSUME q.pc = "part"
               PROVE  Placed(u, q, q.parts + 1, NextPart(q)) /\ NextPart(q) \in Stream
    OBVIOUS
  <2>1. q.buffer # <<>> /\ (q.ended \/ Len(q.buffer) >= PartSize)
    BY <1>3, <1>4, R2MultipartAssumption DEF Placewise, Put
  <2>2. Placed(u, q, q.parts + 1, NextPart(q))
    BY <1>3, <2>1, NextPartProperties
  <2>3. PICK i \in Nat, j \in Nat : i <= j /\ NextPart(q) = Cut(u, i, j)
    <3>1. (k + 1) - 1 = k
      OBVIOUS
    <3>2. Mark(k) < t /\ NextPart(q) = Cut(u, Mark(k), PartEnd(k + 1, t))
      BY <1>11, <1>12, <2>2, <3>1 DEF Placed
    <3>3. PartEnd(k + 1, t) \in Nat /\ Mark(k) <= PartEnd(k + 1, t)
      BY <1>13, <3>2 DEF PartEnd
    <3> QED BY <1>13, <3>2, <3>3
  <2>4. NextPart(q) \in Stream
    BY <2>3, CutProperties
  <2> QED BY <2>2, <2>4
<1>6. q.pc = "put" => q.buffer = Cut(u, 0, q.total)
  <2>1. q.pc = "put" => q.parts = 0
    BY <1>2, <1>3 DEF Placewise, Owns
  <2>2. q.pc = "put" => q.total - Len(q.buffer) = 0
    BY <1>3, <1>4, <1>11, <1>12, <1>13, <2>1 DEF Buffered, PartEnd
  <2> QED BY <1>3, <2>2 DEF Buffered
<1>7. q.pc = "complete" => q.parts # 0 /\ Mark(q.parts) >= q.total
  <2> SUFFICES ASSUME q.pc = "complete" PROVE q.parts # 0 /\ Mark(q.parts) >= q.total
    OBVIOUS
  <2>1. q.id # None /\ Len(q.buffer) = 0
    BY <1>3, EmptySeq DEF Placewise
  <2>2. q.total >= PartSize
    BY <1>2, <1>3, <2>1 DEF Owns
  <2>3. Mark(q.parts) \in Nat /\ Mark(q.parts) >= q.total
    BY <1>3, <1>4, <1>11, <1>12, <1>13, <2>1 DEF Buffered, PartEnd
  <2> QED BY <1>11, <1>12, <1>13, <2>2, <2>3
<1>8. m \in Message
  <2>1. m.number \in Nat /\ m.body \in Stream
    <3>1. q.parts + 1 \in Nat /\ <<>> \in Stream
      BY <1>4, EmptySeq DEF Stream
    <3> HIDE DEF m
    <3> QED BY <1>1, <1>4, <1>5, <3>1
  <2>2. m = [from |-> u, op |-> q.pc, key |-> q.key, id |-> q.id, tries |-> q.tries,
             number |-> m.number, body |-> m.body]
    BY DEF Call
  <2> HIDE DEF m
  <2> QED BY <2>1, <2>2 DEF Message, Put
<1>9. Faithful(m, q, S)
  <2>1. m.op \in {"part", "complete", "abort"} => m.id \in 1..Len(S) /\ S[m.id].by = m.from
    BY <1>1, <1>3 DEF Placewise, Owns
  <2>2. m.op = "part" => Placed(m.from, q, m.number, m.body)
    BY <1>1, <1>5
  <2>3. m.op = "put" => q.ended /\ m.body = Cut(m.from, 0, q.total)
    BY <1>1, <1>3, <1>6 DEF Placewise
  <2>4. m.op = "complete" =>
          /\ q.ended /\ m.number # 0 /\ Mark(m.number) >= q.total
          /\ 1 .. m.number \subseteq DOMAIN S[m.id].part
    BY <1>1, <1>2, <1>3, <1>7 DEF Placewise, Owns
  <2> HIDE DEF m
  <2> QED BY <1>1, <2>1, <2>2, <2>3, <2>4 DEF Faithful, m
<1> QED BY <1>1, <1>8, <1>9

-----------------------------------------------------------------------------
\* put_stream u goes on as r, and the store stays as it is.
LEMMA OnwardSessions ==
    ASSUME NEW U \in [Uploads -> {NotBegun} \cup Put], NEW S \in Seq(Session),
           SessionsHold(U, S),
           NEW u \in Uploads, NEW r \in Put,
           U[u].pc # "idle" => Grows(U[u], r)
    PROVE  SessionsHold([U EXCEPT ![u] = r], S)
<1> DEFINE V == [U EXCEPT ![u] = r]
<1> SUFFICES ASSUME NEW id \in 1..Len(S)
             PROVE  /\ V[S[id].by].pc # "idle"
                    /\ \A n \in DOMAIN S[id].part :
                         Placed(S[id].by, V[S[id].by], n, S[id].part[n])
  BY DEF SessionsHold
<1>1. PICK v \in Uploads : v = S[id].by
  <2>1. S[id] \in Session
    OBVIOUS
  <2> QED BY <2>1 DEF Session
<1>2. U[v].pc # "idle" /\ \A n \in DOMAIN S[id].part : Placed(v, U[v], n, S[id].part[n])
  BY <1>1 DEF SessionsHold
<1>3. CASE v # u
  <2>1. V[v] = U[v]
    BY <1>3
  <2> QED BY <1>1, <1>2, <2>1
<1>4. CASE v = u
  <2>1. V[v] = r /\ r.pc # "idle" /\ U[u] \in Put /\ Grows(U[u], r)
    BY <1>2, <1>4, PutIsBegun
  <2>2. \A n \in DOMAIN S[id].part : Placed(u, r, n, S[id].part[n])
    BY <1>2, <1>4, <2>1, PlacedStays
  <2> QED BY <1>1, <1>4, <2>1, <2>2
<1> QED BY <1>3, <1>4

LEMMA FaithfulStays ==
    ASSUME NEW m \in Message, NEW q \in Put, NEW r \in Put, Grows(q, r),
           NEW S \in Seq(Session), Faithful(m, q, S)
    PROVE  Faithful(m, r, S)
<1>1. m.from \in Uploads /\ q.total \in Nat /\ r.total \in Nat
  BY R2MultipartAssumption DEF Message, Put
<1>2. m.op = "part" => Placed(m.from, r, m.number, m.body)
  BY <1>1, PlacedStays DEF Faithful
<1>3. m.key = r.key
  BY DEF Faithful, Grows
<1>4. q.ended => r.ended /\ r.total = q.total
  BY DEF Grows
<1> QED BY <1>2, <1>3, <1>4 DEF Faithful

LEMMA OnwardMessages ==
    ASSUME NEW U \in [Uploads -> {NotBegun} \cup Put], NEW S \in Seq(Session),
           NEW N \in SUBSET Message, MessagesHold(U, S, N),
           NEW u \in Uploads, NEW r \in Put,
           U[u].pc # "idle" => Grows(U[u], r)
    PROVE  MessagesHold([U EXCEPT ![u] = r], S, N)
<1> DEFINE V == [U EXCEPT ![u] = r]
<1> SUFFICES ASSUME NEW m \in N
             PROVE  V[m.from].pc # "idle" /\ Faithful(m, V[m.from], S)
  BY DEF MessagesHold
<1>1. m \in Message /\ m.from \in Uploads /\ U[m.from].pc # "idle" /\ Faithful(m, U[m.from], S)
  BY DEF MessagesHold, Message
<1>2. CASE m.from # u
  BY <1>1, <1>2
<1>3. CASE m.from = u
  <2>1. V[m.from] = r /\ r.pc # "idle" /\ U[u] \in Put /\ Grows(U[u], r)
    BY <1>1, <1>3, PutIsBegun
  <2> QED BY <1>1, <1>3, <2>1, FaithfulStays
<1> QED BY <1>2, <1>3

LEMMA OnwardObjects ==
    ASSUME NEW U \in [Uploads -> {NotBegun} \cup Put],
           NEW O \in [Keys -> Stream \cup {None}], ObjectsHold(U, O),
           NEW u \in Uploads, NEW r \in Put,
           U[u].pc # "idle" => Grows(U[u], r),
           r.pc = "returned" => O[r.key] = Cut(u, 0, r.total)
    PROVE  ObjectsHold([U EXCEPT ![u] = r], O)
<1> DEFINE V == [U EXCEPT ![u] = r]
<1>1. V[u] = r /\ r.pc # "idle" /\ \A v \in Uploads : v # u => V[v] = U[v]
  BY PutIsBegun
<1>2. \A v \in Uploads : U[v].pc # "idle" =>
        /\ V[v].pc # "idle" /\ V[v].key = U[v].key
        /\ U[v].ended => V[v].ended /\ V[v].total = U[v].total
  BY <1>1 DEF Grows
<1> HIDE DEF V
<1>3. ASSUME NEW k \in Keys, O[k] # None
      PROVE  \E v \in Uploads : /\ V[v].pc # "idle" /\ V[v].key = k /\ V[v].ended
                                /\ O[k] = Cut(v, 0, V[v].total)
  <2>1. PICK v \in Uploads : /\ U[v].pc # "idle" /\ U[v].key = k /\ U[v].ended
                             /\ O[k] = Cut(v, 0, U[v].total)
    BY <1>3 DEF ObjectsHold
  <2>2. /\ V[v].pc # "idle" /\ V[v].key = k /\ V[v].ended
        /\ O[k] = Cut(v, 0, V[v].total)
    BY <1>2, <2>1
  <2> QED BY <2>2
<1>4. ASSUME NEW w \in Uploads, V[w].pc = "returned",
             \A v \in Uploads \ {w} : V[v].pc # "idle" => V[v].key # V[w].key
      PROVE  O[V[w].key] = Cut(w, 0, V[w].total)
  <2>1. CASE w = u
    BY <1>1, <1>4, <2>1
  <2>2. CASE w # u
    <3>1. V[w] = U[w]
      BY <1>1, <2>2
    <3>2. \A v \in Uploads \ {w} : U[v].pc # "idle" => U[v].key # U[w].key
      BY <1>2, <1>4, <3>1
    <3> QED BY <1>4, <3>1, <3>2 DEF ObjectsHold
  <2> QED BY <2>1, <2>2
<1>5. ObjectsHold(V, O)
  BY <1>3, <1>4 DEF ObjectsHold
<1> QED BY <1>5 DEF V

\* What put_stream has after a step, whatever the step.
Wellbehaved(u, q, O, S) ==
    /\ q \in Put
    /\ Coherent(u, Left(q), S)
    /\ NothingLeft(q, S)
    /\ q.pc = "returned" => O[q.key] = Cut(u, 0, q.total)

LEMMA Onward ==
    ASSUME NEW U, NEW O, NEW S, NEW N, Good(U, O, S, N),
           NEW u \in Uploads, NEW q, Wellbehaved(u, q, O, S),
           U[u].pc # "idle" => Grows(U[u], q)
    PROVE  Good([U EXCEPT ![u] = Left(q)], O, S,
                IF q.pc \in Calls THEN N \cup {Call(u, q)} ELSE N)
<1> DEFINE r == Left(q)
           V == [U EXCEPT ![u] = r]
           M == IF q.pc \in Calls THEN N \cup {Call(u, q)} ELSE N
<1>1. /\ r \in Put /\ r.pc = q.pc /\ r.key = q.key /\ r.total = q.total /\ r.ended = q.ended
      /\ r.id = q.id /\ r.stuck = q.stuck
      /\ q.pc \notin Ends => r = q
      /\ Coherent(u, r, S) /\ NothingLeft(q, S) /\ q \in Put
  BY LeftProperties DEF Wellbehaved
<1>2. /\ U \in [Uploads -> {NotBegun} \cup Put] /\ O \in [Keys -> Stream \cup {None}]
      /\ S \in Seq(Session) /\ N \in SUBSET Message
      /\ SessionsHold(U, S) /\ MessagesHold(U, S, N) /\ ObjectsHold(U, O)
      /\ \A v \in Uploads : U[v].pc # "idle" => Coherent(v, U[v], S) /\ NothingLeft(U[v], S)
  BY DEF Good, Typed
<1>3. U[u].pc # "idle" => Grows(U[u], r)
  BY <1>1 DEF Grows
<1>4. q.pc \in Calls => /\ Call(u, q) \in Message /\ Call(u, q).from = u
                        /\ Faithful(Call(u, q), r, S)
  <2> SUFFICES ASSUME q.pc \in Calls
               PROVE  /\ Call(u, q) \in Message /\ Call(u, q).from = u
                      /\ Faithful(Call(u, q), r, S)
    OBVIOUS
  <2>1. r = q
    BY <1>1 DEF Calls, Ends
  <2> QED BY <1>1, <1>2, <2>1, CallProperties
<1>5. r.pc = "returned" => O[r.key] = Cut(u, 0, r.total)
  BY <1>1 DEF Wellbehaved
<1> HIDE DEF r
<1>6. Typed(V, O, S, M)
  BY <1>1, <1>2, <1>4 DEF Typed
<1>7. SessionsHold(V, S)
  BY <1>1, <1>2, <1>3, OnwardSessions
<1>8. MessagesHold(V, S, M)
  <2>1. MessagesHold(V, S, N)
    BY <1>1, <1>2, <1>3, OnwardMessages
  <2>2. V[u] = r /\ r.pc # "idle"
    BY <1>1, <1>2, PutIsBegun
  <2> HIDE DEF V
  <2> QED BY <1>4, <2>1, <2>2 DEF MessagesHold
<1>9. ObjectsHold(V, O)
  BY <1>1, <1>2, <1>3, <1>5, OnwardObjects
<1>10. \A v \in Uploads : V[v].pc # "idle" => Coherent(v, V[v], S) /\ NothingLeft(V[v], S)
  <2> TAKE v \in Uploads
  <2>1. CASE v = u
    <3>1. V[v] = r
      BY <1>2, <2>1
    <3>2. NothingLeft(r, S)
      BY <1>1 DEF NothingLeft
    <3> QED BY <1>1, <2>1, <3>1, <3>2
  <2>2. CASE v # u
    <3>1. V[v] = U[v]
      BY <1>2, <2>2
    <3> QED BY <1>2, <3>1
  <2> QED BY <2>1, <2>2
<1> QED BY <1>6, <1>7, <1>8, <1>9, <1>10 DEF Good, r

-----------------------------------------------------------------------------
\* The store carries out a call.  Uploads are never forgotten, never change
\* hands, never lose a part and are never opened again.
StoreGrows(S, T) ==
    /\ T \in Seq(Session)
    /\ Len(S) <= Len(T)
    /\ \A id \in 1..Len(S) :
         /\ T[id].by = S[id].by
         /\ DOMAIN S[id].part \subseteq DOMAIN T[id].part
         /\ T[id].open => S[id].open

LEMMA OwnsStays ==
    ASSUME NEW S \in Seq(Session), NEW T, StoreGrows(S, T),
           NEW u \in Uploads, NEW q \in Put, Coherent(u, q, S), NothingLeft(q, S)
    PROVE  Coherent(u, q, T) /\ NothingLeft(q, T)
<1>1. q.id # None => q.id \in 1..Len(T) /\ T[q.id].by = u
  BY DEF Coherent, Owns, StoreGrows
<1>2. q.pc \notin Ends /\ q.id # None => 1 .. q.parts \subseteq DOMAIN T[q.id].part
  BY DEF Coherent, Owns, StoreGrows
<1>3. Owns(u, q, T)
  BY <1>1, <1>2 DEF Coherent, Owns
<1>4. NothingLeft(q, T)
  BY DEF Coherent, Owns, StoreGrows, NothingLeft
<1> QED BY <1>3, <1>4 DEF Coherent

LEMMA FaithfulInStore ==
    ASSUME NEW S \in Seq(Session), NEW T, StoreGrows(S, T),
           NEW m \in Message, NEW q, Faithful(m, q, S)
    PROVE  Faithful(m, q, T)
<1>1. m.op \in {"part", "complete", "abort"} => m.id \in 1..Len(T) /\ T[m.id].by = m.from
  BY DEF Faithful, StoreGrows
<1>2. m.op = "complete" => 1 .. m.number \subseteq DOMAIN T[m.id].part
  BY DEF Faithful, StoreGrows
<1> QED BY <1>1, <1>2 DEF Faithful

\* What the store makes of what it has.
With(O, k, body) == [O EXCEPT ![k] = body]
WithUpload(S, u) == Append(S, [by |-> u, open |-> TRUE, part |-> <<>>])
WithPart(S, id, k, piece) ==
    [S EXCEPT ![id].part = [n \in DOMAIN @ \cup {k} |-> IF n = k THEN piece ELSE @[n]]]
Without(S, id) == [S EXCEPT ![id].open = FALSE]

\* What a key holds is replaced by all of a stream.
LEMMA WholeIsPut ==
    ASSUME NEW U \in [Uploads -> {NotBegun} \cup Put],
           NEW O \in [Keys -> Stream \cup {None}], ObjectsHold(U, O),
           NEW u \in Uploads, U[u] \in Put, U[u].ended
    PROVE  LET P == With(O, U[u].key, Cut(u, 0, U[u].total))
           IN  /\ P \in [Keys -> Stream \cup {None}]
               /\ ObjectsHold(U, P)
               /\ P[U[u].key] = Cut(u, 0, U[u].total)
<1> DEFINE P == With(O, U[u].key, Cut(u, 0, U[u].total))
<1>1. U[u].key \in Keys /\ U[u].total \in Nat /\ U[u].pc # "idle"
  BY R2MultipartAssumption, PutIsBegun DEF Put
<1>2. Cut(u, 0, U[u].total) \in Stream
  BY <1>1, CutProperties
<1>3. /\ P \in [Keys -> Stream \cup {None}] /\ P[U[u].key] = Cut(u, 0, U[u].total)
      /\ \A k \in Keys : k # U[u].key => P[k] = O[k]
  BY <1>1, <1>2 DEF With
<1> HIDE DEF P
<1>4. ASSUME NEW k \in Keys, P[k] # None
      PROVE  \E v \in Uploads : /\ U[v].pc # "idle" /\ U[v].key = k /\ U[v].ended
                                /\ P[k] = Cut(v, 0, U[v].total)
  <2>1. CASE k = U[u].key
    BY <1>1, <1>3, <2>1
  <2>2. CASE k # U[u].key
    <3>1. P[k] = O[k]
      BY <1>3, <2>2
    <3> QED BY <1>4, <3>1 DEF ObjectsHold
  <2> QED BY <2>1, <2>2
<1>5. ASSUME NEW w \in Uploads, U[w].pc = "returned",
             \A v \in Uploads \ {w} : U[v].pc # "idle" => U[v].key # U[w].key
      PROVE  P[U[w].key] = Cut(w, 0, U[w].total)
  <2>1. CASE w = u
    BY <1>3, <2>1
  <2>2. CASE w # u
    <3>1. U[w] \in Put
      BY <1>5, PutIsBegun
    <3>2. U[w].key \in Keys /\ U[w].key # U[u].key
      BY <1>1, <1>5, <2>2, <3>1 DEF Put
    <3>3. P[U[w].key] = O[U[w].key]
      BY <1>3, <3>2
    <3> QED BY <1>5, <3>3 DEF ObjectsHold
  <2> QED BY <2>1, <2>2
<1>6. ObjectsHold(U, P)
  BY <1>4, <1>5 DEF ObjectsHold
<1> QED BY <1>3, <1>6 DEF P

LEMMA GoodInStore ==
    ASSUME NEW U, NEW O, NEW S, NEW N, Good(U, O, S, N),
           NEW P \in [Keys -> Stream \cup {None}], ObjectsHold(U, P),
           NEW T, StoreGrows(S, T), SessionsHold(U, T)
    PROVE  Good(U, P, T, N)
<1>1. /\ U \in [Uploads -> {NotBegun} \cup Put] /\ S \in Seq(Session) /\ N \in SUBSET Message
      /\ MessagesHold(U, S, N)
      /\ \A v \in Uploads : U[v].pc # "idle" => Coherent(v, U[v], S) /\ NothingLeft(U[v], S)
  BY DEF Good, Typed
<1>2. MessagesHold(U, T, N)
  BY <1>1, FaithfulInStore DEF MessagesHold
<1>3. \A v \in Uploads : U[v].pc # "idle" => Coherent(v, U[v], T) /\ NothingLeft(U[v], T)
  BY <1>1, OwnsStays, PutIsBegun
<1>4. Typed(U, P, T, N)
  BY <1>1 DEF Typed, StoreGrows
<1> QED BY <1>2, <1>3, <1>4 DEF Good

-----------------------------------------------------------------------------
LEMMA NoPieces == <<>> \in Pieces /\ DOMAIN <<>> = {}
<1>1. <<>> \in [{} -> Stream] /\ {} \in SUBSET Nat
  OBVIOUS
<1> QED BY <1>1 DEF Pieces

\* A new upload.
LEMMA StoreCreates ==
    ASSUME NEW U \in [Uploads -> {NotBegun} \cup Put], NEW S \in Seq(Session),
           SessionsHold(U, S), NEW u \in Uploads, U[u].pc # "idle"
    PROVE  LET T == WithUpload(S, u)
           IN  /\ StoreGrows(S, T) /\ SessionsHold(U, T)
               /\ Len(T) = Len(S) + 1 /\ T[Len(S) + 1].by = u
<1> DEFINE T == WithUpload(S, u)
<1> DEFINE new == [by |-> u, open |-> TRUE, part |-> <<>>]
<1>1. new \in Session /\ new.by = u /\ DOMAIN new.part = {}
  BY NoPieces DEF Session
<1> HIDE DEF new
<1>2. /\ T \in Seq(Session) /\ Len(T) = Len(S) + 1 /\ Len(S) \in Nat
      /\ \A id \in 1..Len(S) : T[id] = S[id]
      /\ T[Len(S) + 1] = new
  BY <1>1, AppendProperties DEF WithUpload, new
<1> HIDE DEF T
<1>3. StoreGrows(S, T)
  BY <1>2 DEF StoreGrows
<1>4. SessionsHold(U, T)
  <2> SUFFICES ASSUME NEW id \in 1..Len(T)
               PROVE  /\ U[T[id].by].pc # "idle"
                      /\ \A n \in DOMAIN T[id].part :
                           Placed(T[id].by, U[T[id].by], n, T[id].part[n])
    BY DEF SessionsHold
  <2>1. CASE id \in 1..Len(S)
    BY <1>2, <2>1 DEF SessionsHold
  <2>2. CASE id = Len(S) + 1
    BY <1>1, <1>2, <2>2
  <2> QED BY <1>2, <2>1, <2>2
<1> QED BY <1>1, <1>2, <1>3, <1>4 DEF T

\* A part is put in its place.
LEMMA StorePlaces ==
    ASSUME NEW U \in [Uploads -> {NotBegun} \cup Put], NEW S \in Seq(Session),
           SessionsHold(U, S), NEW id \in 1..Len(S),
           NEW k, NEW piece \in Stream, Placed(S[id].by, U[S[id].by], k, piece)
    PROVE  LET T == WithPart(S, id, k, piece)
           IN  StoreGrows(S, T) /\ SessionsHold(U, T) /\ k \in DOMAIN T[id].part
<1> DEFINE T == WithPart(S, id, k, piece)
<1> DEFINE old == S[id].part
           part == [n \in DOMAIN old \cup {k} |-> IF n = k THEN piece ELSE old[n]]
           new == [S[id] EXCEPT !.part = part]
<1>1. S[id] \in Session /\ k \in Nat
  BY DEF Placed
<1>2. PICK D \in SUBSET Nat : old \in [D -> Stream]
  BY <1>1 DEF Session, Pieces
<1>3. part \in [D \cup {k} -> Stream] /\ D \cup {k} \in SUBSET Nat
  BY <1>1, <1>2
<1>4. part \in Pieces
  BY <1>3 DEF Pieces
<1>5. DOMAIN part = DOMAIN old \cup {k} /\ part[k] = piece
      /\ \A n \in DOMAIN old : n # k => part[n] = old[n]
  OBVIOUS
<1> HIDE DEF part
<1>6. new \in Session /\ new.by = S[id].by /\ new.open = S[id].open /\ new.part = part
  BY <1>1, <1>4 DEF Session
<1> DEFINE R == [S EXCEPT ![id] = new]
<1>7. T = R
  BY DEF WithPart, part
<1> HIDE DEF new, T
<1>8. T \in Seq(Session) /\ Len(T) = Len(S) /\ T[id] = new
      /\ \A j \in 1..Len(S) : j # id => T[j] = S[j]
  <2>1. R \in Seq(Session) /\ Len(R) = Len(S)
    BY <1>6, ExceptSeq
  <2>2. R[id] = new /\ \A j \in 1..Len(S) : j # id => R[j] = S[j]
    BY <1>6
  <2> HIDE DEF R
  <2> QED BY <1>7, <2>1, <2>2
<1>9. StoreGrows(S, T)
  BY <1>5, <1>6, <1>8 DEF StoreGrows
<1>10. SessionsHold(U, T)
  <2> SUFFICES ASSUME NEW j \in 1..Len(S)
               PROVE  /\ U[T[j].by].pc # "idle"
                      /\ \A n \in DOMAIN T[j].part :
                           Placed(T[j].by, U[T[j].by], n, T[j].part[n])
    BY <1>8 DEF SessionsHold
  <2>1. CASE j # id
    BY <1>8, <2>1 DEF SessionsHold
  <2>2. CASE j = id
    BY <1>5, <1>6, <1>8, <2>2 DEF SessionsHold
  <2> QED BY <2>1, <2>2
<1> QED BY <1>5, <1>6, <1>8, <1>9, <1>10 DEF T

\* An upload is completed or aborted.
LEMMA StoreCloses ==
    ASSUME NEW U \in [Uploads -> {NotBegun} \cup Put], NEW S \in Seq(Session),
           SessionsHold(U, S), NEW id \in 1..Len(S)
    PROVE  LET T == Without(S, id)
           IN  StoreGrows(S, T) /\ SessionsHold(U, T) /\ ~ T[id].open
<1> DEFINE T == Without(S, id)
<1> DEFINE new == [S[id] EXCEPT !.open = FALSE]
<1>1. S[id] \in Session
  OBVIOUS
<1>2. new \in Session /\ new.by = S[id].by /\ ~ new.open /\ new.part = S[id].part
  BY <1>1 DEF Session
<1> DEFINE R == [S EXCEPT ![id] = new]
<1>3. T = R
  BY DEF Without
<1> HIDE DEF new, T
<1>4. T \in Seq(Session) /\ Len(T) = Len(S) /\ T[id] = new
      /\ \A j \in 1..Len(S) : j # id => T[j] = S[j]
  <2>1. R \in Seq(Session) /\ Len(R) = Len(S)
    BY <1>2, ExceptSeq
  <2>2. R[id] = new /\ \A j \in 1..Len(S) : j # id => R[j] = S[j]
    BY <1>2
  <2> HIDE DEF R
  <2> QED BY <1>3, <2>1, <2>2
<1>5. StoreGrows(S, T)
  BY <1>2, <1>4 DEF StoreGrows
<1>6. SessionsHold(U, T)
  <2> SUFFICES ASSUME NEW j \in 1..Len(S)
               PROVE  /\ U[T[j].by].pc # "idle"
                      /\ \A n \in DOMAIN T[j].part :
                           Placed(T[j].by, U[T[j].by], n, T[j].part[n])
    BY <1>4 DEF SessionsHold
  <2>1. CASE j # id
    BY <1>4, <2>1 DEF SessionsHold
  <2>2. CASE j = id
    BY <1>2, <1>4, <2>2 DEF SessionsHold
  <2> QED BY <2>1, <2>2
<1> QED BY <1>2, <1>4, <1>5, <1>6 DEF T

-----------------------------------------------------------------------------
LEMMA StoreStays ==
    ASSUME NEW S \in Seq(Session)
    PROVE  StoreGrows(S, S)
BY LenProperties DEF StoreGrows

\* What the store has done with a call of put_stream q that it took.
Done(m, q, S, P, T) ==
    /\ m.op = "create" => Len(T) = Len(S) + 1 /\ T[Len(S) + 1].by = m.from
    /\ m.op = "part" => m.number \in DOMAIN T[m.id].part
    /\ m.op \in {"complete", "abort"} => ~ T[m.id].open
    /\ m.op \in {"put", "complete"} => P[m.key] = Cut(m.from, 0, q.total)

LEMMA Kept ==
    ASSUME Inv
    PROVE  /\ up \in [Uploads -> {NotBegun} \cup Put]
           /\ object \in [Keys -> Stream \cup {None}]
           /\ session \in Seq(Session) /\ net \in SUBSET Message
           /\ SessionsHold(up, session) /\ MessagesHold(up, session, net)
           /\ ObjectsHold(up, object)
           /\ \A u \in Uploads : up[u].pc # "idle" =>
                up[u] \in Put /\ Coherent(u, up[u], session) /\ NothingLeft(up[u], session)
BY PutIsBegun DEF Inv, Good, Typed

LEMMA Unheard ==
    ASSUME NEW U, NEW O, NEW S, NEW N, Good(U, O, S, N), NEW M \in SUBSET N
    PROVE  Good(U, O, S, M)
BY DEF Good, Typed, MessagesHold

\* The parts of an upload that is completed are the stream.
LEMMA CompletedIsWhole ==
    ASSUME Inv, NEW m \in net, m.op = "complete"
    PROVE  FlattenSeq([n \in 1..m.number |-> session[m.id].part[n]])
             = Cut(m.from, 0, up[m.from].total)
<1>1. PICK u \in Uploads : u = m.from
  BY Kept DEF Message
<1>2. PICK id \in 1..Len(session) : id = m.id
  BY Kept DEF MessagesHold, Faithful
<1>3. /\ up[u] \in Put /\ session[id].by = u
      /\ m.number # 0 /\ Mark(m.number) >= up[u].total
      /\ 1 .. m.number \subseteq DOMAIN session[id].part
  BY <1>1, <1>2, Kept DEF MessagesHold, Faithful
<1>4. PICK n \in Nat \ {0} : n = m.number
  BY <1>3, Kept DEF Message
<1>5. PICK t \in Nat : t = up[u].total
  BY <1>3, R2MultipartAssumption DEF Put
<1>6. PICK p : p = session[id].part
  OBVIOUS
<1>7. ASSUME NEW i \in 1..n
      PROVE  Mark(i - 1) < t /\ p[i] = Cut(u, Mark(i - 1), PartEnd(i, t))
  <2>1. Placed(u, up[u], i, p[i])
    BY <1>3, <1>4, <1>6, Kept DEF SessionsHold
  <2> QED BY <1>5, <2>1 DEF Placed
<1>8. Mark(n) >= t
  BY <1>3, <1>4, <1>5
<1>9. FlattenSeq([i \in 1..n |-> p[i]]) = Bytes(u, t)
  BY <1>7, <1>8, PartsMakeWhole
<1>10. Bytes(u, t) = Cut(u, 0, t)
  BY BytesAreCut
<1> QED BY <1>1, <1>2, <1>4, <1>5, <1>6, <1>9, <1>10

\* The store carries out a call.
LEMMA PerformKeeps ==
    ASSUME Inv, NEW m \in net, Perform(m)
    PROVE  /\ Good(up, object', session', net)
           /\ StoreGrows(session, session')
           /\ Accepts(m) => Done(m, up[m.from], session, object', session')
           /\ m.op = "abort" => ~ session'[m.id].open
<1>0. /\ up \in [Uploads -> {NotBegun} \cup Put]
      /\ object \in [Keys -> Stream \cup {None}] /\ session \in Seq(Session)
      /\ SessionsHold(up, session) /\ ObjectsHold(up, object)
  BY Kept
<1>1. /\ m \in Message /\ m.from \in Uploads /\ m.op \in Calls
      /\ up[m.from].pc # "idle" /\ up[m.from] \in Put
      /\ Faithful(m, up[m.from], session)
  BY Kept DEF MessagesHold, Message
<1>2. m.op \in {"part", "complete", "abort"} =>
        m.id \in 1..Len(session) /\ session[m.id].by = m.from
  BY <1>1 DEF Faithful
<1> DEFINE Fine == /\ object' \in [Keys -> Stream \cup {None}]
                   /\ ObjectsHold(up, object')
                   /\ StoreGrows(session, session')
                   /\ SessionsHold(up, session')
                   /\ Accepts(m) => Done(m, up[m.from], session, object', session')
                   /\ m.op = "abort" => ~ session'[m.id].open
<1> SUFFICES Fine
  BY GoodInStore DEF Inv
<1>3. CASE ~ Accepts(m)
  <2>1. object' = object /\ session' = session
    BY <1>3 DEF Perform
  <2>2. m.op = "abort" => ~ session[m.id].open
    BY <1>2, <1>3 DEF Accepts, Open
  <2>3. StoreGrows(session, session)
    BY Kept, StoreStays
  <2> QED BY <1>3, <2>1, <2>2, <2>3, Kept
<1>4. CASE Accepts(m) /\ m.op = "create"
  <2>1. /\ object' = object
        /\ session' = WithUpload(session, m.from)
    BY <1>4 DEF Perform, WithUpload
  <2>2. /\ StoreGrows(session, session') /\ SessionsHold(up, session')
        /\ Len(session') = Len(session) + 1 /\ session'[Len(session) + 1].by = m.from
    BY <1>0, <1>1, <2>1, StoreCreates
  <2>3. Done(m, up[m.from], session, object', session')
    BY <1>4, <2>2 DEF Done
  <2>4. object' \in [Keys -> Stream \cup {None}] /\ ObjectsHold(up, object')
    BY <2>1, Kept
  <2> QED BY <1>4, <2>2, <2>3, <2>4
<1>5. CASE Accepts(m) /\ m.op = "part"
  <2>1. /\ object' = object
        /\ session' = WithPart(session, m.id, m.number, m.body)
    BY <1>5 DEF Perform, WithPart
  <2>2. Placed(session[m.id].by, up[session[m.id].by], m.number, m.body)
    BY <1>1, <1>2, <1>5 DEF Faithful
  <2>3. m.body \in Stream
    BY <1>1 DEF Message
  <2>4. /\ StoreGrows(session, session') /\ SessionsHold(up, session')
        /\ m.number \in DOMAIN session'[m.id].part
    <3>1. m.id \in 1..Len(session)
      BY <1>2, <1>5
    <3> QED BY <1>0, <2>1, <2>2, <2>3, <3>1, StorePlaces
  <2>5. Done(m, up[m.from], session, object', session')
    BY <1>5, <2>4 DEF Done
  <2>6. object' \in [Keys -> Stream \cup {None}] /\ ObjectsHold(up, object')
    BY <2>1, Kept
  <2> QED BY <1>5, <2>4, <2>5, <2>6
<1>6. CASE Accepts(m) /\ m.op = "put"
  <2>1. object' = With(object, m.key, m.body) /\ session' = session
    BY <1>6 DEF Perform, With
  <2>2. /\ m.key = up[m.from].key /\ up[m.from].ended
        /\ m.body = Cut(m.from, 0, up[m.from].total)
    BY <1>1, <1>6 DEF Faithful
  <2>3. /\ object' \in [Keys -> Stream \cup {None}] /\ ObjectsHold(up, object')
        /\ object'[m.key] = Cut(m.from, 0, up[m.from].total)
    <3>1. up[m.from].ended
      BY <2>2
    <3>2. object' = With(object, up[m.from].key, Cut(m.from, 0, up[m.from].total))
      BY <2>1, <2>2, Zenon
    <3> QED BY <1>0, <1>1, <2>2, <3>1, <3>2, WholeIsPut
  <2>4. Done(m, up[m.from], session, object', session')
    BY <1>6, <2>3 DEF Done
  <2>5. StoreGrows(session, session') /\ SessionsHold(up, session')
    BY <2>1, Kept, StoreStays
  <2> QED BY <1>6, <2>3, <2>4, <2>5
<1>7. CASE Accepts(m) /\ m.op = "complete"
  <2>1. /\ object' = With(object, m.key,
                          FlattenSeq([n \in 1..m.number |-> session[m.id].part[n]]))
        /\ session' = Without(session, m.id)
    BY <1>7 DEF Perform, With, Without
  <2>2. object' = With(object, m.key, Cut(m.from, 0, up[m.from].total))
    BY <1>7, <2>1, CompletedIsWhole
  <2>3. m.key = up[m.from].key /\ up[m.from].ended
    BY <1>1, <1>7 DEF Faithful
  <2>4. /\ object' \in [Keys -> Stream \cup {None}] /\ ObjectsHold(up, object')
        /\ object'[m.key] = Cut(m.from, 0, up[m.from].total)
    <3>1. up[m.from].ended
      BY <2>3
    <3>2. object' = With(object, up[m.from].key, Cut(m.from, 0, up[m.from].total))
      BY <2>2, <2>3, Zenon
    <3> QED BY <1>0, <1>1, <2>3, <3>1, <3>2, WholeIsPut
  <2>5. /\ StoreGrows(session, session') /\ SessionsHold(up, session')
        /\ ~ session'[m.id].open
    BY <1>2, <1>7, <2>1, Kept, StoreCloses
  <2>6. Done(m, up[m.from], session, object', session')
    BY <1>7, <2>4, <2>5 DEF Done
  <2> QED BY <1>7, <2>4, <2>5, <2>6
<1>8. CASE Accepts(m) /\ m.op = "abort"
  <2>1. object' = object /\ session' = Without(session, m.id)
    BY <1>8 DEF Perform, Without
  <2>2. /\ StoreGrows(session, session') /\ SessionsHold(up, session')
        /\ ~ session'[m.id].open
    BY <1>2, <1>8, <2>1, Kept, StoreCloses
  <2>3. Done(m, up[m.from], session, object', session')
    BY <1>8, <2>2 DEF Done
  <2>4. object' \in [Keys -> Stream \cup {None}] /\ ObjectsHold(up, object')
    BY <2>1, Kept
  <2> QED BY <1>8, <2>2, <2>3, <2>4
<1> QED BY <1>1, <1>3, <1>4, <1>5, <1>6, <1>7, <1>8 DEF Calls

-----------------------------------------------------------------------------
\* put_stream goes on, with the store as the step leaves it.
LEMMA Proceeds ==
    ASSUME NEW u \in Uploads, NEW q, NEW others, Proceed(u, q, others),
           Good(up, object', session', others),
           Wellbehaved(u, q, object', session'),
           up[u].pc # "idle" => Grows(up[u], q)
    PROVE  Inv'
<1>1. Good([up EXCEPT ![u] = Left(q)], object', session',
           IF q.pc \in Calls THEN others \cup {Call(u, q)} ELSE others)
  BY Onward
<1> QED BY <1>1 DEF Proceed, Inv

\* A put_stream at an end has nothing to say about its parts.
LEMMA EndsWell ==
    ASSUME NEW u \in Uploads, NEW q \in Put, NEW O, NEW S,
           q.pc \in Ends,
           q.pc = "returned" => q.ended /\ O[q.key] = Cut(u, 0, q.total),
           q.pc = "raised" => q.why # "none",
           q.id # None => q.id \in 1..Len(S) /\ S[q.id].by = u,
           NothingLeft(q, S)
    PROVE  Wellbehaved(u, q, O, S)
<1>1. /\ Left(q).pc = q.pc /\ Left(q).ended = q.ended /\ Left(q).id = q.id
      /\ Left(q).why = q.why /\ Left(q).buffer = <<>>
  BY LeftProperties
<1> DEFINE r == Left(q)
<1> HIDE DEF r
<1>2. Placewise(r) /\ Owns(u, r, S)
  BY <1>1 DEF Placewise, Owns, Ends, r
<1>3. Coherent(u, r, S)
  BY <1>1, <1>2 DEF Coherent, r
<1> QED BY <1>3 DEF Wellbehaved, r

\* One that is not is as it is.
LEMMA GoesWell ==
    ASSUME NEW u \in Uploads, NEW q \in Put, NEW O, NEW S,
           q.pc \notin Ends, Coherent(u, q, S)
    PROVE  Wellbehaved(u, q, O, S)
<1>1. Left(q) = q
  BY LeftProperties
<1> QED BY <1>1 DEF Wellbehaved, NothingLeft, Ends

\* An exception.
LEMMA RaiseBehaves ==
    ASSUME NEW u \in Uploads, NEW q \in Put, NEW O, NEW S,
           q.pc \notin Ends, Coherent(u, q, S), NEW why \in {"stream", "storage"}
    PROVE  Wellbehaved(u, Raise(q, why), O, S) /\ Grows(q, Raise(q, why))
<1>1. /\ Buffered(u, q) /\ Placewise(q) /\ Owns(u, q, S)
      /\ q.id # None => q.id \in 1..Len(S) /\ S[q.id].by = u
      /\ q.total \in Nat
  BY R2MultipartAssumption DEF Coherent, Owns, Put
<1>2. 0 \in 0..Retries
  BY R2MultipartAssumption
<1> DEFINE r == Raise(q, why)
<1>3. CASE q.pc = "abort"
  <2>1. /\ r \in Put /\ r.pc = "raised" /\ r.why # "none" /\ r.id = q.id /\ r.stuck
        /\ r.key = q.key /\ r.total = q.total /\ r.ended = q.ended
    BY <1>3 DEF Raise, Put, Pcs, Ends
  <2> HIDE DEF r
  <2>2. Wellbehaved(u, r, O, S)
    BY <1>1, <2>1, EndsWell DEF NothingLeft, Ends
  <2> QED BY <1>1, <2>1, <2>2 DEF r, Grows
<1>4. CASE q.pc # "abort" /\ q.id = None
  <2>1. /\ r \in Put /\ r.pc = "raised" /\ r.why # "none" /\ r.id = None
        /\ r.key = q.key /\ r.total = q.total /\ r.ended = q.ended
    BY <1>2, <1>4 DEF Raise, Put, Pcs, Ends
  <2> HIDE DEF r
  <2>2. Wellbehaved(u, r, O, S)
    BY <1>1, <2>1, EndsWell DEF NothingLeft, Ends
  <2> QED BY <1>1, <2>1, <2>2 DEF r, Grows
<1>5. CASE q.pc # "abort" /\ q.id # None
  <2>1. /\ r \in Put /\ r.pc = "abort" /\ r.why # "none" /\ r.id = q.id
        /\ r.key = q.key /\ r.total = q.total /\ r.ended = q.ended
        /\ r.buffer = q.buffer /\ r.parts = q.parts
    BY <1>2, <1>5 DEF Raise, Put, Pcs, Calls
  <2> HIDE DEF r
  <2>2. Buffered(u, r) /\ Placewise(r) /\ Owns(u, r, S)
    BY <1>1, <1>5, <2>1 DEF Buffered, Placewise, Owns, Ends
  <2>3. Wellbehaved(u, r, O, S)
    BY <2>1, <2>2, GoesWell DEF Coherent, Ends
  <2> QED BY <1>1, <2>1, <2>3 DEF r, Grows
<1> QED BY <1>3, <1>4, <1>5

\* A ClientError.
LEMMA RefusedBehaves ==
    ASSUME NEW u \in Uploads, NEW q \in Put, NEW O, NEW S,
           q.pc \notin Ends, Coherent(u, q, S)
    PROVE  Wellbehaved(u, Refused(q), O, S) /\ Grows(q, Refused(q))
<1>1. CASE q.pc = "abort"
  <2> DEFINE r == Refused(q)
  <2>1. /\ r \in Put /\ r.pc = "raised" /\ r.why = q.why /\ r.id = q.id /\ r.stuck
        /\ r.key = q.key /\ r.total = q.total /\ r.ended = q.ended
    BY <1>1 DEF Refused, Put, Pcs, Ends
  <2>4. q.total \in Nat
    BY R2MultipartAssumption DEF Put
  <2>2. q.why # "none" /\ (q.id # None => q.id \in 1..Len(S) /\ S[q.id].by = u)
    BY <1>1 DEF Coherent, Placewise, Owns
  <2> HIDE DEF r
  <2>3. Wellbehaved(u, r, O, S)
    BY <2>1, <2>2, EndsWell DEF NothingLeft, Ends
  <2> QED BY <2>1, <2>3, <2>4 DEF r, Grows
<1>2. CASE q.pc # "abort"
  BY <1>2, RaiseBehaves DEF Refused
<1> QED BY <1>1, <1>2

-----------------------------------------------------------------------------
LEMMA NewBehaves ==
    ASSUME NEW u \in Uploads, NEW k \in Keys, NEW O, NEW S
    PROVE  Wellbehaved(u, NewPut(k), O, S)
<1> DEFINE q == NewPut(k)
<1>1. /\ q \in Put /\ q.pc = "read" /\ q.total = 0 /\ q.buffer = <<>> /\ ~ q.ended
      /\ q.id = None /\ q.parts = 0
  BY R2MultipartAssumption DEF NewPut, Put, Pcs, Stream
<1>2. Cut(u, 0, 0) = <<>> /\ PartEnd(0, 0) = 0 /\ Mark(0) = 0 /\ Len(<<>>) = 0
  <2>1. Cut(u, 0, 0) \in Stream /\ Len(Cut(u, 0, 0)) = 0
    BY CutProperties
  <2>2. Cut(u, 0, 0) = <<>>
    BY <2>1, EmptySeq DEF Stream
  <2> QED BY <2>2, MarkProperties, EmptySeq DEF PartEnd
<1> HIDE DEF q
<1>3. Buffered(u, q) /\ Placewise(q) /\ Owns(u, q, S)
  BY <1>1, <1>2, R2MultipartAssumption DEF Buffered, Placewise, Owns, Ends
<1>4. Wellbehaved(u, q, O, S)
  BY <1>1, <1>3, GoesWell DEF Coherent, Ends
<1> QED BY <1>4 DEF q

LEMMA BeginKeeps ==
    ASSUME Inv, NEW u \in Uploads, NEW k \in Keys, Begin(u, k)
    PROVE  Inv'
<1>1. up[u].pc = "idle" /\ Proceed(u, NewPut(k), net) /\ object' = object /\ session' = session
  BY DEF Begin, Begun
<1>2. Good(up, object', session', net)
  BY <1>1 DEF Inv
<1>3. Wellbehaved(u, NewPut(k), object', session')
  BY NewBehaves
<1> QED BY <1>1, <1>2, <1>3, Proceeds

\* What all steps of a put_stream that waits have in common.
LEMMA Waiting ==
    ASSUME Inv, NEW u \in Uploads, up[u].pc = "read" \/ Calling(u)
    PROVE  /\ up[u] \in Put /\ up[u].pc # "idle" /\ up[u].pc \notin Ends
           /\ Coherent(u, up[u], session)
BY Kept DEF Calling, Calls, Ends

LEMMA InterruptKeeps ==
    ASSUME Inv, NEW u \in Uploads, Interrupt(u)
    PROVE  Inv'
<1>1. /\ up[u].pc = "read" \/ Calling(u)
      /\ Proceed(u, Raise(up[u], "stream"), net) /\ object' = object /\ session' = session
  BY DEF Interrupt
<1>2. Good(up, object', session', net)
  BY <1>1 DEF Inv
<1>3. Coherent(u, up[u], session')
  BY <1>1, Waiting
<1>4. /\ Wellbehaved(u, Raise(up[u], "stream"), object', session')
      /\ Grows(up[u], Raise(up[u], "stream"))
  BY <1>1, <1>3, Waiting, RaiseBehaves
<1> QED BY <1>1, <1>2, <1>4, Proceeds

LEMMA CrashKeeps ==
    ASSUME Inv, NEW u \in Uploads, Crash(u)
    PROVE  Inv'
<1> DEFINE q == up[u]
           r == [q EXCEPT !.pc = "crashed"]
<1>1. /\ q.pc = "read" \/ Calling(u)
      /\ Proceed(u, r, net) /\ object' = object /\ session' = session
  BY DEF Crash
<1>2. Good(up, object', session', net)
  BY <1>1 DEF Inv
<1>3. q \in Put /\ Coherent(u, q, session') /\ q.total \in Nat
  BY <1>1, Waiting, R2MultipartAssumption DEF Put
<1>4. /\ r \in Put /\ r.pc = "crashed" /\ r.id = q.id /\ r.key = q.key /\ r.total = q.total
      /\ r.ended = q.ended
  BY <1>3 DEF Put, Pcs, Ends
<1>5. r.id # None => r.id \in 1..Len(session') /\ session'[r.id].by = u
  BY <1>3, <1>4 DEF Coherent, Owns
<1> HIDE DEF r
<1>6. Wellbehaved(u, r, object', session')
  BY <1>4, <1>5, EndsWell DEF NothingLeft, Ends
<1>7. Grows(q, r)
  BY <1>3, <1>4 DEF Grows
<1> QED BY <1>1, <1>2, <1>6, <1>7, Proceeds

LEMMA RefuseKeeps ==
    ASSUME Inv, NEW u \in Uploads, Refuse(u)
    PROVE  Inv'
<1> DEFINE others == net \ {Call(u, up[u])}
<1>1. /\ Calling(u) /\ Proceed(u, Refused(up[u]), others)
      /\ object' = object /\ session' = session
  BY DEF Refuse
<1>2. Good(up, object', session', others)
  BY <1>1, Unheard DEF Inv
<1>3. Coherent(u, up[u], session')
  BY <1>1, Waiting
<1>4. Wellbehaved(u, Refused(up[u]), object', session') /\ Grows(up[u], Refused(up[u]))
  BY <1>1, <1>3, Waiting, RefusedBehaves
<1> QED BY <1>1, <1>2, <1>4, Proceeds

LEMMA TimeOutKeeps ==
    ASSUME Inv, NEW u \in Uploads, TimeOut(u)
    PROVE  Inv'
<1> DEFINE q == up[u]
           r == [q EXCEPT !.tries = @ + 1]
           next == IF q.tries < Retries THEN r ELSE Raise(q, "storage")
<1>1. Calling(u) /\ Proceed(u, next, net) /\ object' = object /\ session' = session
  BY DEF TimeOut
<1>2. Good(up, object', session', net)
  BY <1>1 DEF Inv
<1>3. q \in Put /\ q.pc \notin Ends /\ Coherent(u, q, session') /\ q.total \in Nat
  BY <1>1, Waiting, R2MultipartAssumption DEF Put
<1>4. CASE q.tries < Retries
  <2>1. q.tries + 1 \in 0..Retries
    BY <1>3, <1>4, R2MultipartAssumption DEF Put
  <2>2. /\ r \in Put /\ r.pc = q.pc /\ r.id = q.id /\ r.key = q.key /\ r.total = q.total
        /\ r.ended = q.ended /\ r.buffer = q.buffer /\ r.parts = q.parts /\ r.why = q.why
    BY <1>3, <2>1 DEF Put
  <2> HIDE DEF r
  <2>3. Coherent(u, r, session')
    BY <1>3, <2>2 DEF Coherent, Buffered, Placewise, Owns
  <2>4. Wellbehaved(u, r, object', session') /\ Grows(q, r)
    BY <1>3, <2>2, <2>3, GoesWell DEF Grows
  <2>5. next = r
    BY <1>4
  <2> QED BY <1>1, <1>2, <2>4, <2>5, Proceeds
<1>5. CASE ~ (q.tries < Retries)
  <2>1. Wellbehaved(u, Raise(q, "storage"), object', session') /\ Grows(q, Raise(q, "storage"))
    BY <1>3, RaiseBehaves
  <2>2. next = Raise(q, "storage")
    BY <1>5
  <2> QED BY <1>1, <1>2, <2>1, <2>2, Proceeds
<1> QED BY <1>4, <1>5

LEMMA UnansweredKeeps ==
    ASSUME Inv, NEW m \in net, Unanswered(m)
    PROVE  Inv'
<1>1. Perform(m) /\ net' = net \ {m} /\ up' = up
  BY DEF Unanswered
<1>2. Good(up, object', session', net')
  BY <1>1, PerformKeeps, Unheard
<1> QED BY <1>1, <1>2 DEF Inv

-----------------------------------------------------------------------------
\* The buffer with the next n bytes in it.
LEMMA BufferGrows ==
    ASSUME NEW u \in Uploads, NEW q \in Put, Buffered(u, q), NEW n \in 1..MaxChunk
    PROVE  LET fed == q.total + n
               more == q.buffer \o SubSeq(Bytes(u, fed), q.total + 1, fed)
           IN  /\ more \in Stream
               /\ Len(more) = Len(q.buffer) + n
               /\ more = Cut(u, fed - Len(more), fed)
<1> DEFINE fed == q.total + n
           more == q.buffer \o SubSeq(Bytes(u, fed), q.total + 1, fed)
<1>1. PICK t \in Nat : t = q.total
  BY R2MultipartAssumption DEF Put
<1>2. PICK l \in Nat : l = Len(q.buffer)
  BY LenProperties DEF Put, Stream
<1>3. PICK a \in Nat : a = t - l
  BY <1>1, <1>2 DEF Buffered
<1>4. PICK f \in Nat : f = t + n
  BY R2MultipartAssumption
<1>5. a <= t /\ t <= f /\ a <= f /\ 0 <= t /\ t - 0 = t /\ f - 0 = f /\ 0 \in Nat
  <2>1. n \in Nat
    BY R2MultipartAssumption
  <2> QED BY <1>3, <1>4, <2>1
<1>6. SubSeq(Cut(u, 0, f), t + 1, f) = Cut(u, t, f)
  <2>1. SubSeq(Cut(u, 0, f), (t - 0) + 1, f - 0) = Cut(u, t, f)
    <3>1. 0 <= t /\ t <= f /\ 0 \in Nat
      BY <1>5
    <3> QED BY <3>1, CutSuffix, Zenon
  <2> QED BY <1>5, <2>1
<1>7. Cut(u, a, t) \o Cut(u, t, f) = Cut(u, a, f)
  BY <1>5, CutJoin, Zenon
<1>8. Bytes(u, f) = Cut(u, 0, f)
  BY BytesAreCut
<1>9. q.buffer = Cut(u, a, t)
  BY <1>1, <1>2, <1>3 DEF Buffered
<1>10. more = Cut(u, a, f)
  BY <1>1, <1>4, <1>5, <1>6, <1>7, <1>8, <1>9
<1>11. Cut(u, a, f) \in Stream /\ Len(Cut(u, a, f)) = f - a
  BY <1>5, CutProperties, Zenon
<1>12. f - a = l + n /\ f - (l + n) = a
  BY <1>3, <1>4
<1> QED BY <1>1, <1>2, <1>4, <1>10, <1>11, <1>12

LEMMA ChunkKeeps ==
    ASSUME Inv, NEW u \in Uploads, NEW n \in 1..MaxChunk, Chunk(u, n)
    PROVE  Inv'
<1> DEFINE q == up[u]
           fed == q.total + n
           more == q.buffer \o SubSeq(Bytes(u, fed), q.total + 1, fed)
           longer == [q EXCEPT !.total = fed, !.buffer = more]
           pc == CASE Len(longer.buffer) < PartSize -> "read"
                   [] Len(longer.buffer) >= PartSize /\ q.id = None -> "create"
                   [] OTHER -> "part"
           r == [longer EXCEPT !.pc = pc]
<1>1. q.pc = "read" /\ fed <= MaxBytes /\ object' = object /\ session' = session
  BY DEF Chunk
<1>2. q \in Put /\ Coherent(u, q, session) /\ q.pc \notin Ends
  BY <1>1, Waiting
<1>3. Buffered(u, q) /\ Placewise(q) /\ Owns(u, q, session)
  BY <1>2 DEF Coherent
<1>4. /\ more \in Stream /\ Len(more) = Len(q.buffer) + n
      /\ more = Cut(u, fed - Len(more), fed)
  <2>1. Buffered(u, q)
    BY <1>3
  <2> QED BY <1>2, <2>1, BufferGrows
<1>5. PICK t \in Nat : t = q.total
  BY <1>2, R2MultipartAssumption DEF Put
<1>6. PICK l \in Nat : l = Len(q.buffer)
  BY <1>2, LenProperties DEF Put, Stream
<1>7. PICK k \in Nat : k = q.parts
  BY <1>2 DEF Put
<1>8. Mark(k) \in Nat /\ PartSize \in Nat \ {0} /\ MaxChunk \in Nat /\ MaxBytes \in Nat
      /\ n \in Nat \ {0}
  BY MarkProperties, R2MultipartAssumption
<1>9. Proceed(u, r, net)
  BY DEF Chunk
<1> HIDE DEF more
<1>10. fed \in 0..MaxBytes /\ pc \in {"read", "create", "part"}
  BY <1>1, <1>5, <1>8
<1>19. pc = CASE Len(more) < PartSize -> "read"
              [] Len(more) >= PartSize /\ q.id = None -> "create"
              [] OTHER -> "part"
  <2>1. longer.buffer = more
    BY <1>2 DEF Put
  <2> HIDE DEF longer
  <2> QED BY <2>1
<1> HIDE DEF fed, pc
<1>11. /\ r \in Put /\ r.pc = pc /\ r.id = q.id /\ r.key = q.key /\ r.total = fed
       /\ r.ended = q.ended /\ r.buffer = more /\ r.parts = q.parts
  BY <1>2, <1>4, <1>10 DEF Put, Pcs, Calls
<1> HIDE DEF r
<1> USE DEF fed
<1>12. Buffered(u, r)
  <2>1. l <= t /\ t - l = PartEnd(k, t) /\ Mark(k) <= t /\ l < PartSize
    BY <1>1, <1>3, <1>5, <1>6, <1>7, <1>8 DEF Buffered, Placewise
  <2>2. Mark(k) <= t + n /\ PartEnd(k, t + n) = Mark(k) /\ t - l = Mark(k)
    BY <1>8, <2>1 DEF PartEnd
  <2>3. /\ l + n <= t + n /\ (t + n) - (l + n) = PartEnd(k, t + n)
        /\ l + n < PartSize + MaxChunk
    BY <1>8, <2>1, <2>2
  <2> QED BY <1>4, <1>5, <1>6, <1>7, <1>11, <2>2, <2>3 DEF Buffered
<1>13. Placewise(r)
  <2>1. Len(more) \in Nat /\ Len(more) # 0
    BY <1>4, <1>6, <1>8
  <2>2. more # <<>>
    BY <2>1, EmptySeq
  <2>3. ~ q.ended
    BY <1>1, <1>3 DEF Placewise
  <2> QED BY <1>8, <1>11, <1>19, <2>1, <2>2, <2>3 DEF Placewise, Ends
<1>14. Owns(u, r, session)
  <2>1. t >= PartSize => t + n >= PartSize
    BY <1>8
  <2> QED BY <1>2, <1>3, <1>5, <1>11, <2>1 DEF Owns
<1>15. r.pc \notin Ends
  BY <1>10, <1>11 DEF Ends
<1>16. Wellbehaved(u, r, object', session')
  BY <1>1, <1>11, <1>12, <1>13, <1>14, <1>15, GoesWell DEF Coherent
<1>17. Grows(q, r)
  <2>1. t <= t + n /\ ~ q.ended
    BY <1>1, <1>3, <1>8 DEF Placewise
  <2> QED BY <1>5, <1>11, <2>1 DEF Grows
<1>18. Good(up, object', session', net)
  BY <1>1 DEF Inv
<1> QED BY <1>9, <1>16, <1>17, <1>18, Proceeds

LEMMA EndKeeps ==
    ASSUME Inv, NEW u \in Uploads, End(u)
    PROVE  Inv'
<1> DEFINE q == up[u]
           pc == CASE q.id = None -> "put"
                   [] q.id # None /\ q.buffer # <<>> -> "part"
                   [] OTHER -> "complete"
           r == [q EXCEPT !.ended = TRUE, !.pc = pc]
<1>1. q.pc = "read" /\ Proceed(u, r, net) /\ object' = object /\ session' = session
  BY DEF End
<1>2. q \in Put /\ Coherent(u, q, session) /\ q.pc \notin Ends /\ q.total \in Nat
  BY <1>1, Waiting, R2MultipartAssumption DEF Put
<1>3. Buffered(u, q) /\ Placewise(q) /\ Owns(u, q, session)
  BY <1>2 DEF Coherent
<1>4. pc \in {"put", "part", "complete"}
  OBVIOUS
<1> HIDE DEF pc
<1>5. /\ r \in Put /\ r.pc = pc /\ r.id = q.id /\ r.key = q.key /\ r.total = q.total
      /\ r.ended = TRUE /\ r.buffer = q.buffer /\ r.parts = q.parts
  BY <1>2, <1>4 DEF Put, Pcs, Calls
<1> HIDE DEF r
<1>6. Buffered(u, r)
  BY <1>3, <1>5 DEF Buffered
<1>7. Placewise(r)
  BY <1>1, <1>3, <1>5 DEF Placewise, Ends, pc
<1>8. Owns(u, r, session) /\ r.pc \notin Ends
  BY <1>2, <1>3, <1>4, <1>5 DEF Owns, Ends
<1>9. Wellbehaved(u, r, object', session')
  BY <1>1, <1>5, <1>6, <1>7, <1>8, GoesWell DEF Coherent
<1>10. Grows(q, r)
  BY <1>2, <1>5 DEF Grows
<1>11. Good(up, object', session', net)
  BY <1>1 DEF Inv
<1> QED BY <1>1, <1>9, <1>10, <1>11, Proceeds

-----------------------------------------------------------------------------
\* A good answer: an upload was created ...
LEMMA CreatedBehaves ==
    ASSUME NEW u \in Uploads, NEW q \in Put, q.pc = "create",
           NEW S \in Seq(Session), Coherent(u, q, S),
           NEW T \in Seq(Session), NEW O, NEW id \in Nat, id \in 1..Len(T), T[id].by = u
    PROVE  LET r == [q EXCEPT !.pc = "part", !.id = id, !.tries = 0]
           IN  Wellbehaved(u, r, O, T) /\ Grows(q, r)
<1> DEFINE r == [q EXCEPT !.pc = "part", !.id = id, !.tries = 0]
<1>0. 0 \in 0..Retries /\ id \in Nat \cup {None}
  BY R2MultipartAssumption
<1>1. /\ r \in Put /\ r.pc = "part" /\ r.id = id /\ r.key = q.key /\ r.total = q.total
      /\ r.ended = q.ended /\ r.buffer = q.buffer /\ r.parts = q.parts
  BY <1>0 DEF Put, Pcs, Calls
<1> HIDE DEF r
<1>2. Buffered(u, q) /\ Placewise(q) /\ Owns(u, q, S) /\ q.pc \notin Ends
  BY DEF Coherent, Ends
<1>3. PICK t \in Nat : t = q.total
  BY R2MultipartAssumption DEF Put
<1>4. PICK l \in Nat : l = Len(q.buffer)
  BY LenProperties DEF Put, Stream
<1>5. /\ ~ q.ended /\ q.id = None /\ q.parts = 0 /\ l >= PartSize /\ l <= t
      /\ PartSize \in Nat \ {0} /\ id # None
  BY <1>2, <1>3, <1>4, R2MultipartAssumption DEF Placewise, Owns, Buffered
<1>6. q.buffer # <<>> /\ t >= PartSize /\ ~ (l < PartSize)
  BY <1>4, <1>5, EmptySeq
<1>7. Buffered(u, r)
  BY <1>1, <1>2 DEF Buffered
<1>8. Placewise(r)
  BY <1>1, <1>4, <1>5, <1>6 DEF Placewise, Ends
<1>9. Owns(u, r, T)
  <2>1. 1 .. 0 = {}
    OBVIOUS
  <2> QED BY <1>1, <1>3, <1>5, <1>6, <2>1 DEF Owns
<1>10. Wellbehaved(u, r, O, T)
  BY <1>1, <1>7, <1>8, <1>9, GoesWell DEF Coherent, Ends
<1> QED BY <1>1, <1>3, <1>10 DEF Grows, r

\* ... a part was stored ...
LEMMA PartBehaves ==
    ASSUME NEW u \in Uploads, NEW q \in Put, q.pc = "part",
           NEW T \in Seq(Session), Coherent(u, q, T), NEW O,
           q.parts + 1 \in DOMAIN T[q.id].part
    PROVE  Wellbehaved(u, Answered(q), O, T) /\ Grows(q, Answered(q))
<1> DEFINE left == SubSeq(q.buffer, Len(NextPart(q)) + 1, Len(q.buffer))
           rest == [q EXCEPT !.buffer = left, !.parts = @ + 1, !.tries = 0]
           r == [rest EXCEPT !.pc = AfterPart(rest)]
<1>1. Answered(q) = r
  BY DEF Answered
<1>2. Buffered(u, q) /\ Placewise(q) /\ Owns(u, q, T) /\ q.pc \notin Ends
  BY DEF Coherent, Ends
<1>3. PICK t \in Nat : t = q.total
  BY R2MultipartAssumption DEF Put
<1>4. PICK l \in Nat : l = Len(q.buffer)
  BY LenProperties DEF Put, Stream
<1>5. PICK k \in Nat : k = q.parts
  BY DEF Put
<1>6. q.id # None /\ q.buffer # <<>> /\ (q.ended <=> l < PartSize) /\ PartSize \in Nat \ {0}
  BY <1>2, <1>4, R2MultipartAssumption DEF Placewise
<1>7. /\ Placed(u, q, q.parts + 1, NextPart(q))
      /\ Len(left) \in Nat /\ Len(left) <= Len(q.buffer) /\ left \in Stream
      /\ left = Cut(u, q.total - Len(left), q.total)
      /\ q.total - Len(left) = PartEnd(q.parts + 1, q.total)
      /\ Len(q.buffer) < PartSize => left = <<>>
      /\ left = <<>> => Len(left) = 0
  BY <1>2, <1>4, <1>6, NextPartProperties
<1> HIDE DEF left
<1>8. PICK j \in Nat : j = Len(left)
  BY <1>7
<1>9. /\ rest \in Put /\ rest.pc = "part" /\ rest.id = q.id /\ rest.key = q.key
      /\ rest.total = q.total /\ rest.ended = q.ended /\ rest.buffer = left
      /\ rest.parts = k + 1 /\ rest.why = q.why
  <2>1. 0 \in 0..Retries /\ k + 1 \in Nat
    BY R2MultipartAssumption
  <2>2. rest = [q EXCEPT !.buffer = left, !.parts = k + 1, !.tries = 0]
    BY <1>5
  <2> HIDE DEF rest
  <2> QED BY <1>7, <2>1, <2>2 DEF Put
<1> HIDE DEF rest
<1>10. /\ AfterPart(rest) \in {"complete", "part", "read"}
       /\ AfterPart(rest) = "complete" <=> q.ended
       /\ AfterPart(rest) = "part" => ~ q.ended /\ j >= PartSize
       /\ AfterPart(rest) = "read" => ~ q.ended /\ j < PartSize
  BY <1>6, <1>8, <1>9 DEF AfterPart
<1>11. /\ r \in Put /\ r.pc = AfterPart(rest) /\ r.id = q.id /\ r.key = q.key
       /\ r.total = q.total /\ r.ended = q.ended /\ r.buffer = left
       /\ r.parts = k + 1 /\ r.why = q.why
  BY <1>9, <1>10 DEF Put, Pcs, Calls
<1> HIDE DEF r
<1>12. Buffered(u, r)
  <2>1. Mark(k + 1) <= q.total \/ q.ended
    BY <1>5, <1>7 DEF Placed
  <2>2. j <= l /\ l <= t /\ l < PartSize + MaxChunk
    BY <1>2, <1>3, <1>4, <1>7, <1>8 DEF Buffered
  <2>3. j <= t /\ j < PartSize + MaxChunk
    BY <2>2, R2MultipartAssumption
  <2> QED BY <1>3, <1>5, <1>7, <1>8, <1>11, <2>1, <2>3 DEF Buffered
<1>13. Placewise(r)
  <2>1. q.ended => left = <<>>
    BY <1>4, <1>6, <1>7
  <2>2. j >= PartSize => left # <<>>
    BY <1>6, <1>7, <1>8
  <2>3. j >= PartSize => ~ (j < PartSize)
    BY <1>6
  <2> QED BY <1>6, <1>8, <1>10, <1>11, <2>1, <2>2, <2>3 DEF Placewise, Ends
<1>14. Owns(u, r, T)
  <2>1. /\ q.id \in 1..Len(T) /\ T[q.id].by = u /\ q.total >= PartSize
        /\ 1..k \subseteq DOMAIN T[q.id].part /\ k + 1 \in DOMAIN T[q.id].part
    BY <1>2, <1>5, <1>6 DEF Owns
  <2>2. 1 .. k + 1 = 1..k \cup {k + 1}
    OBVIOUS
  <2>3. r.id \in 1..Len(T) /\ T[r.id].by = u
    BY <1>11, <2>1
  <2>4. r.total >= PartSize /\ 1 .. r.parts \subseteq DOMAIN T[r.id].part /\ r.id # None
    BY <1>6, <1>11, <2>1, <2>2
  <2> QED BY <2>3, <2>4 DEF Owns
<1>15. r.pc \notin Ends
  BY <1>10, <1>11 DEF Ends
<1>16. Wellbehaved(u, r, O, T)
  BY <1>11, <1>12, <1>13, <1>14, <1>15, GoesWell DEF Coherent
<1>17. Grows(q, r)
  BY <1>3, <1>11 DEF Grows
<1> QED BY <1>1, <1>16, <1>17

\* ... the object is there, or the upload is gone.
LEMMA EndBehaves ==
    ASSUME NEW u \in Uploads, NEW q \in Put, q.pc \in {"put", "complete", "abort"},
           NEW T \in Seq(Session), Coherent(u, q, T), NEW O,
           q.pc # "abort" => O[q.key] = Cut(u, 0, q.total),
           q.pc # "put" => ~ T[q.id].open
    PROVE  Wellbehaved(u, Answered(q), O, T) /\ Grows(q, Answered(q))
<1> DEFINE r == Answered(q)
<1>1. Placewise(q) /\ Owns(u, q, T) /\ q.total \in Nat
  BY R2MultipartAssumption DEF Coherent, Put
<1>2. /\ r \in Put /\ r.pc = IF q.pc = "abort" THEN "raised" ELSE "returned"
      /\ r.id = q.id /\ r.key = q.key /\ r.total = q.total /\ r.ended = q.ended
      /\ r.why = q.why
  BY DEF Answered, Put, Pcs, Ends
<1> HIDE DEF r
<1>3. r.pc \in Ends
  BY <1>2 DEF Ends
<1>4. r.pc = "returned" => r.ended /\ O[r.key] = Cut(u, 0, r.total)
  BY <1>1, <1>2 DEF Placewise
<1>5. r.pc = "raised" => r.why # "none"
  BY <1>1, <1>2 DEF Placewise
<1>6. r.id # None => r.id \in 1..Len(T) /\ T[r.id].by = u
  BY <1>1, <1>2 DEF Owns
<1>7. NothingLeft(r, T)
  BY <1>1, <1>2 DEF NothingLeft, Placewise
<1>8. Wellbehaved(u, r, O, T)
  BY <1>2, <1>3, <1>4, <1>5, <1>6, <1>7, EndsWell
<1> QED BY <1>1, <1>2, <1>8 DEF r, Grows

LEMMA ReplyKeeps ==
    ASSUME Inv, NEW u \in Uploads, Reply(u)
    PROVE  Inv'
<1> DEFINE q == up[u]
           m == Call(u, q)
           r == IF Accepts(m) \/ q.pc = "abort" THEN Answered(q) ELSE Refused(q)
<1>1. Calling(u) /\ m \in net /\ Perform(m) /\ Proceed(u, r, net \ {m})
  BY DEF Reply
<1>2. /\ q \in Put /\ q.pc \in Calls /\ q.pc # "idle" /\ q.pc \notin Ends
      /\ Coherent(u, q, session) /\ NothingLeft(q, session) /\ session \in Seq(Session)
  BY <1>1, Waiting, Kept DEF Calling
<1>3. /\ m.from = u /\ m.op = q.pc /\ m.key = q.key /\ m.id = q.id
      /\ q.pc = "part" => m.number = q.parts + 1
  BY DEF Call
<1> HIDE DEF m
<1>4. /\ Good(up, object', session', net) /\ StoreGrows(session, session')
      /\ Accepts(m) => Done(m, up[m.from], session, object', session')
      /\ m.op = "abort" => ~ session'[m.id].open
  BY <1>1, PerformKeeps
<1>5. Good(up, object', session', net \ {m})
  BY <1>4, Unheard
<1>6. session' \in Seq(Session) /\ Coherent(u, q, session')
  BY <1>2, <1>4, OwnsStays DEF StoreGrows
<1>7. Wellbehaved(u, r, object', session') /\ Grows(q, r)
  <2>1. CASE Accepts(m) /\ q.pc = "create"
    <3>1. Len(session') = Len(session) + 1 /\ session'[Len(session) + 1].by = u
      BY <1>3, <1>4, <2>1 DEF Done
    <3>2. PICK id \in Nat : id = Len(session) + 1
      BY <1>2, LenProperties
    <3>3. id \in 1..Len(session') /\ session'[id].by = u
      BY <1>2, <3>1, <3>2, LenProperties
    <3> DEFINE s == [q EXCEPT !.pc = "part", !.id = id, !.tries = 0]
    <3>4. r = s
      BY <2>1, <3>2 DEF Answered
    <3>5. Wellbehaved(u, s, object', session') /\ Grows(q, s)
      BY <1>2, <1>6, <2>1, <3>3, CreatedBehaves
    <3> QED BY <3>4, <3>5
  <2>2. CASE Accepts(m) /\ q.pc = "part"
    <3>1. q.parts + 1 \in DOMAIN session'[q.id].part
      BY <1>3, <1>4, <2>2 DEF Done
    <3> QED BY <1>2, <1>6, <2>2, <3>1, PartBehaves
  <2>3. CASE (Accepts(m) \/ q.pc = "abort") /\ q.pc \in {"put", "complete", "abort"}
    <3>1. q.pc # "abort" => object'[q.key] = Cut(u, 0, q.total)
      BY <1>3, <1>4, <2>3 DEF Done
    <3>2. q.pc # "put" => ~ session'[q.id].open
      BY <1>3, <1>4, <2>3 DEF Done
    <3> QED BY <1>2, <1>6, <2>3, <3>1, <3>2, EndBehaves
  <2>4. CASE ~ (Accepts(m) \/ q.pc = "abort")
    BY <1>2, <1>6, <2>4, RefusedBehaves
  <2> QED BY <1>2, <2>1, <2>2, <2>3, <2>4 DEF Calls
<1> HIDE DEF r
<1> QED BY <1>1, <1>5, <1>7, Proceeds

-----------------------------------------------------------------------------
LEMMA InitGood == Init => Inv
<1> SUFFICES ASSUME Init PROVE Inv
  OBVIOUS
<1>1. /\ \A u \in Uploads : up[u].pc = "idle"
      /\ \A k \in Keys : object[k] = None
      /\ session = <<>> /\ net = {} /\ Len(session) = 0
  BY EmptySeq DEF Init, NotBegun
<1>2. Typed(up, object, session, net)
  BY EmptySeq DEF Init, Typed
<1>3. SessionsHold(up, session)
  BY <1>1 DEF SessionsHold
<1>4. MessagesHold(up, session, net)
  BY <1>1 DEF MessagesHold
<1>5. ObjectsHold(up, object)
  BY <1>1 DEF ObjectsHold
<1> QED BY <1>1, <1>2, <1>3, <1>4, <1>5 DEF Inv, Good

LEMMA NextGood == Inv /\ [Next]_vars => Inv'
<1> SUFFICES ASSUME Inv, [Next]_vars PROVE Inv'
  OBVIOUS
<1>1. CASE UNCHANGED vars
  BY <1>1 DEF Inv, vars
<1>2. ASSUME NEW u \in Uploads, NEW k \in Keys, Begin(u, k) PROVE Inv'
  BY <1>2, BeginKeeps
<1>3. ASSUME NEW u \in Uploads, NEW n \in 1..MaxChunk, Chunk(u, n) PROVE Inv'
  BY <1>3, ChunkKeeps
<1>4. ASSUME NEW u \in Uploads, End(u) PROVE Inv'
  BY <1>4, EndKeeps
<1>5. ASSUME NEW u \in Uploads, Interrupt(u) PROVE Inv'
  BY <1>5, InterruptKeeps
<1>6. ASSUME NEW u \in Uploads, Crash(u) PROVE Inv'
  BY <1>6, CrashKeeps
<1>7. ASSUME NEW u \in Uploads, Reply(u) PROVE Inv'
  BY <1>7, ReplyKeeps
<1>8. ASSUME NEW u \in Uploads, Refuse(u) PROVE Inv'
  BY <1>8, RefuseKeeps
<1>9. ASSUME NEW u \in Uploads, TimeOut(u) PROVE Inv'
  BY <1>9, TimeOutKeeps
<1>10. ASSUME NEW m \in net, Unanswered(m) PROVE Inv'
  BY <1>10, UnansweredKeeps
<1> QED
  BY <1>1, <1>2, <1>3, <1>4, <1>5, <1>6, <1>7, <1>8, <1>9, <1>10 DEF Next

LEMMA AlwaysGood == Spec => []Inv
BY InitGood, NextGood, PTL DEF Spec

-----------------------------------------------------------------------------
LEMMA GoodTypes == Inv => TypeOK
<1> SUFFICES ASSUME Inv PROVE TypeOK
  OBVIOUS
<1>1. ASSUME NEW u \in Uploads, Begun(u)
      PROVE  /\ up[u].pc \in Calls \cup Ends \cup {"read"}
             /\ up[u].key \in Keys
             /\ up[u].total \in 0..MaxBytes
             /\ up[u].id \in 1..Len(session) \cup {None}
             /\ up[u].pc \in {"part", "complete", "abort"} => up[u].id # None
             /\ up[u].pc = "part" => up[u].buffer # <<>>
             /\ up[u].pc = "read" => Len(up[u].buffer) < PartSize
             /\ Len(up[u].buffer) < PartSize + MaxChunk
             /\ up[u].tries \in 0..Retries
             /\ up[u].why \in {"none", "stream", "storage", "abort"}
             /\ up[u].pc = "raised" => up[u].why # "none"
  <2>1. up[u] \in Put /\ Coherent(u, up[u], session)
    BY <1>1, Kept DEF Begun
  <2>2. Placewise(up[u]) /\ Owns(u, up[u], session)
    BY <2>1 DEF Coherent
  <2>3. Len(up[u].buffer) < PartSize + MaxChunk
    <3>1. CASE up[u].pc \in Ends
      <4>1. Len(up[u].buffer) = 0
        BY <2>2, <3>1, EmptySeq DEF Placewise
      <4> QED BY <4>1, R2MultipartAssumption
    <3>2. CASE up[u].pc \notin Ends
      BY <2>1, <3>2 DEF Coherent, Buffered
    <3> QED BY <3>1, <3>2
  <2>4. up[u].id \in 1..Len(session) \cup {None}
    BY <2>2 DEF Owns
  <2>5. /\ up[u].pc \in {"part", "complete", "abort"} => up[u].id # None
        /\ up[u].pc = "part" => up[u].buffer # <<>>
        /\ up[u].pc = "read" => Len(up[u].buffer) < PartSize
        /\ up[u].pc = "raised" => up[u].why # "none"
    BY <2>2 DEF Placewise
  <2> QED BY <2>1, <2>3, <2>4, <2>5 DEF Put, Pcs
<1>2. DOMAIN object = Keys
  BY Kept
<1>3. ASSUME NEW id \in 1..Len(session) PROVE session[id].by \in Uploads
  <2>1. session[id] \in Session
    BY Kept
  <2> QED BY <2>1 DEF Session
<1>4. \A m \in net : m.from \in Uploads /\ m.op \in Calls
  BY Kept DEF Message
<1> QED BY <1>1, <1>2, <1>3, <1>4 DEF TypeOK

LEMMA GoodObjects == Inv => WholeOrNothing
<1> SUFFICES ASSUME Inv PROVE WholeOrNothing
  OBVIOUS
<1>1. ASSUME NEW u \in Uploads, Begun(u) PROVE Whole(u) = Cut(u, 0, up[u].total)
  <2>1. up[u].total \in Nat
    BY <1>1, Kept, R2MultipartAssumption DEF Begun, Put
  <2> QED BY <2>1, BytesAreCut DEF Whole
<1>2. ASSUME NEW k \in Keys, object[k] # None
      PROVE  \E u \in Uploads : /\ Begun(u) /\ up[u].key = k /\ up[u].ended
                                /\ object[k] = Whole(u)
  BY <1>1, <1>2, Kept DEF ObjectsHold, Begun
<1>3. ASSUME NEW u \in Uploads, up[u].pc = "returned",
             \A v \in Uploads \ {u} : Begun(v) => up[v].key # up[u].key
      PROVE  object[up[u].key] = Whole(u)
  BY <1>1, <1>3, Kept DEF ObjectsHold, Begun
<1> QED BY <1>2, <1>3 DEF WholeOrNothing

LEMMA GoodParts == Inv => PartsAreFull
<1> SUFFICES ASSUME Inv, NEW id \in 1..Len(session), NEW n \in DOMAIN session[id].part
             PROVE  LET size == Len(session[id].part[n]) IN
                    /\ size <= PartSize
                    /\ n + 1 \in DOMAIN session[id].part => size = PartSize
  BY DEF PartsAreFull
<1>1. PICK u \in Uploads : u = session[id].by
  <2>1. session[id] \in Session
    BY Kept
  <2> QED BY <2>1 DEF Session
<1>2. /\ up[u] \in Put
      /\ \A i \in DOMAIN session[id].part : Placed(u, up[u], i, session[id].part[i])
  BY <1>1, Kept DEF SessionsHold
<1>3. PICK t \in Nat : t = up[u].total
  BY <1>2, R2MultipartAssumption DEF Put
<1>4. PICK k \in Nat \ {0} : k = n
  BY <1>2 DEF Placed
<1>5. PICK j \in Nat : j = k - 1
  OBVIOUS
<1>6. /\ Mark(j) < t /\ session[id].part[n] = Cut(u, Mark(j), PartEnd(k, t))
      /\ n + 1 \in DOMAIN session[id].part => Mark(k) < t
  <2>1. Placed(u, up[u], n, session[id].part[n])
    BY <1>2
  <2>2. n + 1 \in DOMAIN session[id].part => Mark((n + 1) - 1) < up[u].total
    BY <1>2 DEF Placed
  <2>3. (n + 1) - 1 = k
    BY <1>4
  <2> QED BY <1>3, <1>4, <1>5, <2>1, <2>2, <2>3 DEF Placed
<1>7. Mark(j) \in Nat /\ Mark(k) \in Nat /\ Mark(k) = Mark(j) + PartSize /\ PartSize \in Nat
  <2>1. j + 1 = k
    BY <1>5
  <2> QED BY <2>1, MarkProperties, R2MultipartAssumption
<1>8. /\ PartEnd(k, t) \in Nat /\ Mark(j) <= PartEnd(k, t)
      /\ PartEnd(k, t) - Mark(j) <= PartSize
      /\ Mark(k) < t => PartEnd(k, t) - Mark(j) = PartSize
  BY <1>6, <1>7 DEF PartEnd
<1>9. Len(session[id].part[n]) = PartEnd(k, t) - Mark(j)
  BY <1>6, <1>7, <1>8, CutProperties
<1> QED BY <1>6, <1>8, <1>9

LEMMA GoodEnds == Inv => KnownUploadsEnd
<1> SUFFICES ASSUME Inv, NEW u \in Uploads,
                    up[u].pc \in {"returned", "raised"}, Open(up[u].id)
             PROVE  up[u].stuck
  BY DEF KnownUploadsEnd
<1>1. NothingLeft(up[u], session)
  BY Kept
<1>2. up[u].id # None /\ session[up[u].id].open
  BY R2MultipartAssumption DEF Open
<1> QED BY <1>1, <1>2 DEF NothingLeft

-----------------------------------------------------------------------------
\* What put_stream holds is of its type at every point, and never more than a
\* part and a chunk (r2.py, put_stream).
THEOREM PutTypes == Spec => []TypeOK
BY AlwaysGood, GoodTypes, PTL

\* What a key holds is all of one stream that has ended, whichever calls were
\* lost, late or repeated; an upload that returned is there.
THEOREM ObjectsAreWhole == Spec => []WholeOrNothing
BY AlwaysGood, GoodObjects, PTL

\* No part but the last is short, and none is longer than a part.
THEOREM PartsKeepTheirSize == Spec => []PartsAreFull
BY AlwaysGood, GoodParts, PTL

\* A multipart upload put_stream knew of outlives it only if put_stream died or
\* its abort failed.
THEOREM UploadsEnd == Spec => []KnownUploadsEnd
BY AlwaysGood, GoodEnds, PTL
=============================================================================
