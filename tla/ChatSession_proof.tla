------------------------- MODULE ChatSession_proof -------------------------
(***************************************************************************)
(* For any conversations, questions and number of turns and tokens: the    *)
(* transcript on a page is that page's, an answer that is being written is *)
(* in the transcript for as long as it is, and the transcript of a settled *)
(* page is what the service has.                                           *)
(***************************************************************************)
EXTENDS ChatSession, Integers, SequenceTheorems, TLAPS

Log(x) == IF x = None THEN <<>> ELSE x

\* The history x is an earlier state of the history y.
Begins(x, y) ==
    /\ Len(Log(x)) <= Len(Log(y))
    /\ \A i \in 1..Len(Log(x)) : Log(x)[i] = Log(y)[i]

Streams(T, t) == T[t].here /\ T[t].stream = "open"
IsAnswer(m, t) == ~IsSaved(m) /\ m.is.role = "assistant" /\ m.is.turn = t

-----------------------------------------------------------------------------
(* The inductive invariant.  It has the state as its parameters: a step     *)
(* is taken apart into what the service, the cache and the hook make of it. *)

\* A turn is answered in a conversation the service has.
ServiceHolds(T, H) ==
    \A t \in 1..Len(T) :
      T[t].service = "answering" =>
        T[t].conversation \in Conversations /\ H[T[t].conversation] # None

\* What the cache has, and what it is about to get, was the history once.
CacheBegins(C, F, H) ==
    \A c \in Conversations :
      /\ Begins(C[c].data, H[c])
      /\ F[c] # None => Begins(F[c].answer, H[c])

\* A turn of the conversation c that has not invalidated its history yet, or
\* never will.
WillTell(T, c) ==
    \E t \in 1..Len(T) :
      T[t].conversation = c /\ ~(T[t].stream = "closed" /\ T[t].told = c)

CacheFresh(C, F, H, T) ==
    \A c \in Conversations :
      /\ C[c].data # None /\ ~C[c].stale /\ ~C[c].late => C[c].data = H[c] \/ WillTell(T, c)
      /\ F[c] # None /\ ~F[c].late => F[c].answer = H[c] \/ WillTell(T, c)

\* A message of this browser's own is of a turn that started on the page that
\* is shown, and says how that turn stands.
LocalHolds(h, T) ==
    \A i \in 1..Len(h.messages) : ~IsSaved(h.messages[i]) =>
      LET m == h.messages[i].is IN
      /\ m.turn \in 1..Len(T) /\ T[m.turn].here /\ T[m.turn].start = h.page
      /\ m.role = "user" => m.status = "complete"
      /\ m.role = "assistant" => m.tokens = T[m.turn].tokens
      /\ m.status = "streaming" => T[m.turn].stream = "open"

\* How much of the history the transcript has, if it was copied there.
ShownPart(h) == IF h.cut THEN Len(Log(h.data)) - 1 ELSE Len(Log(h.data))

SavedHolds(h, H) ==
    /\ h.page \notin Conversations => h.data = None
    /\ h.page \in Conversations => Begins(h.data, H[h.page])
    /\ \A i \in 1..Len(h.messages) :
         IsSaved(h.messages[i]) => i <= Len(Log(h.data)) /\ h.messages[i] = Log(h.data)[i]
    /\ ~h.blank => ShownPart(h) <= Len(h.messages)
    /\ ~h.blank => \A i \in 1..ShownPart(h) : h.messages[i] = Log(h.data)[i]

\* A history that lost its last message to a regeneration has one after it.
CutHolds(h) ==
    ~h.blank /\ h.cut => h.messages # <<>> /\ ~IsSaved(h.messages[Len(h.messages)])

\* At most one turn of the mounted hook streams, and its answer is shown.
OneStreams(h, T) ==
    /\ h.streaming <=> \E t \in 1..Len(T) : Streams(T, t)
    /\ \A s, t \in 1..Len(T) : Streams(T, s) /\ Streams(T, t) => s = t
    /\ \A t \in 1..Len(T) : Streams(T, t) =>
         \E i \in 1..Len(h.messages) : IsAnswer(h.messages[i], t)

Screen(h, T, H) == LocalHolds(h, T) /\ SavedHolds(h, H) /\ CutHolds(h) /\ OneStreams(h, T)

\* A hook at rest has rendered the page it is on and what is cached of it.
InStep(h, p, C) == p # Away /\ ~h.streaming => h.page = p /\ h.data = DataOf(p, C)

Gone(p, T) == p = Away => \A t \in 1..Len(T) : ~T[t].here

Inv ==
    /\ StateOK
    /\ ServiceHolds(turns, history)
    /\ CacheBegins(cache, fetch, history)
    /\ CacheFresh(cache, fetch, history, turns)
    /\ Screen(hook, turns, history)
    /\ InStep(hook, page, cache)
    /\ Gone(page, turns)

-----------------------------------------------------------------------------
(* Histories.                                                              *)

LEMMA LogType ==
    ASSUME NEW x \in Data
    PROVE  /\ Log(x) \in Seq(Stored) /\ Len(Log(x)) \in Nat
           /\ \A i \in 1..Len(Log(x)) : Log(x)[i] \in Stored
<1>1. Log(x) \in Seq(Stored)
  BY EmptySeq DEF Log, Data
<1> QED BY <1>1, LenProperties, ElementOfSeq

LEMMA BeginsItself ==
    ASSUME NEW x \in Data
    PROVE  Begins(x, x)
BY LogType DEF Begins

LEMMA BeginsOn ==
    ASSUME NEW x \in Data, NEW y \in Data, NEW z \in Data, Begins(x, y), Begins(y, z)
    PROVE  Begins(x, z)
<1>1. Len(Log(x)) \in Nat /\ Len(Log(y)) \in Nat /\ Len(Log(z)) \in Nat
  BY LogType
<1> QED BY <1>1 DEF Begins

LEMMA NoneBegins ==
    ASSUME NEW x \in Data
    PROVE  Begins(None, x)
<1>1. Log(None) = <<>> /\ Len(<<>>) = 0
  BY EmptySeq DEF Log
<1> QED BY <1>1, LogType DEF Begins

\* What the service stores goes to the end.
LEMMA Stores ==
    ASSUME NEW x \in Data, NEW m \in Stored
    PROVE  /\ Append(Log(x), m) \in Data /\ Append(Log(x), m) # None
           /\ Begins(x, Append(Log(x), m))
<1>1. Log(x) \in Seq(Stored) /\ Len(Log(x)) \in Nat
  BY LogType
<1>2. Append(Log(x), m) \in Seq(Stored)
  BY <1>1, AppendProperties
<1>3. Append(Log(x), m) # None
  BY <1>2, ChatAssumption
<1>4. Len(Append(Log(x), m)) = Len(Log(x)) + 1
  BY <1>1, AppendProperties
<1>5. \A i \in 1..Len(Log(x)) : Append(Log(x), m)[i] = Log(x)[i]
  BY <1>1, AppendProperties
<1>6. Log(Append(Log(x), m)) = Append(Log(x), m)
  BY <1>3 DEF Log
<1> QED BY <1>1, <1>2, <1>3, <1>4, <1>5, <1>6 DEF Begins, Data

LEMMA StoredIsSaved ==
    ASSUME NEW m \in Stored
    PROVE  IsSaved(m) /\ m \in Message /\ m.is.status = "complete"
BY DEF Stored, Message, MessageOf, IsSaved

LEMMA QuestionType ==
    ASSUME NEW t \in 1..MaxTurns, NEW x \in Texts
    PROVE  Saved(Question(t, x)) \in Stored /\ Local(Question(t, x)) \in Message
BY ChatAssumption DEF Saved, Local, Question, Stored, Message, MessageOf

LEMMA AnswerType ==
    ASSUME NEW t \in 1..MaxTurns, NEW n \in 0..MaxTokens
    PROVE  /\ Saved(Answer(t, n, "complete")) \in Stored
           /\ Local(Answer(t, n, "streaming")) \in Message
BY DEF Saved, Local, Answer, Stored, Message, MessageOf

-----------------------------------------------------------------------------
(* The screen.                                                             *)

Histories == [Conversations -> Data]

HookTyped(h, T, H) == h \in Hook /\ T \in Seq(Turn) /\ H \in Histories

LEMMA HookType ==
    ASSUME NEW h \in Hook
    PROVE  /\ h.data \in Data /\ h.page \in Pages
           /\ h.streaming \in BOOLEAN /\ h.blank \in BOOLEAN /\ h.cut \in BOOLEAN
           /\ h.messages \in Seq(Message) /\ Len(h.messages) \in Nat
           /\ DOMAIN h.messages = 1..Len(h.messages)
           /\ \A i \in 1..Len(h.messages) : h.messages[i] \in Message
<1>1. h.messages \in Seq(Message)
  BY DEF Hook
<1>2. \A i \in 1..Len(h.messages) : h.messages[i] \in Message
  BY <1>1, ElementOfSeq
<1> QED BY <1>1, <1>2, LenProperties DEF Hook

\* A longer history, and nothing else.
LEMMA ScreenOfLonger ==
    ASSUME NEW h \in Hook, NEW T \in Seq(Turn), NEW H \in Histories, NEW K \in Histories,
           Screen(h, T, H), \A c \in Conversations : Begins(H[c], K[c])
    PROVE  Screen(h, T, K)
<1>1. h.page \in Conversations => Begins(h.data, K[h.page])
  <2> SUFFICES ASSUME h.page \in Conversations PROVE Begins(h.data, K[h.page])
    OBVIOUS
  <2>1. h.data \in Data /\ H[h.page] \in Data /\ K[h.page] \in Data
    BY HookType DEF Histories
  <2>2. Begins(h.data, H[h.page]) /\ Begins(H[h.page], K[h.page])
    BY DEF Screen, SavedHolds
  <2> QED BY <2>1, <2>2, BeginsOn
<1> QED BY <1>1 DEF Screen, SavedHolds

\* What the transcript depends on of the turns.
Alike(T, U) ==
    /\ Len(U) = Len(T)
    /\ \A t \in 1..Len(T) :
         /\ U[t].here = T[t].here
         /\ T[t].here => /\ U[t].start = T[t].start
                         /\ U[t].stream = T[t].stream
                         /\ U[t].tokens = T[t].tokens

LEMMA ScreenOfAlike ==
    ASSUME NEW h, NEW T, NEW U, NEW H, Screen(h, T, H), Alike(T, U)
    PROVE  Screen(h, U, H)
<1>1. LocalHolds(h, U)
  BY DEF Screen, LocalHolds, Alike
<1>2. \A t \in 1..Len(T) : Streams(U, t) <=> Streams(T, t)
  BY DEF Alike, Streams
<1>3. OneStreams(h, U)
  BY <1>2 DEF Screen, OneStreams, Alike
<1> QED BY <1>1, <1>3 DEF Screen

\* The history is copied to the transcript of a hook that does not stream.
LEMMA ShownKeeps ==
    ASSUME NEW h \in Hook, NEW T \in Seq(Turn), NEW H \in Histories,
           NEW p \in Conversations \cup {New}, NEW d \in Data,
           p \notin Conversations => d = None,
           p \in Conversations => Begins(d, H[p]),
           OneStreams(h, T), ~h.streaming
    PROVE  /\ Shown(h, p, d) \in Hook /\ Screen(Shown(h, p, d), T, H)
           /\ Shown(h, p, d).page = p /\ Shown(h, p, d).data = d
           /\ ~Shown(h, p, d).streaming
<1>1. PICK g : g = Shown(h, p, d)
  OBVIOUS
<1>2. Log(d) \in Seq(Stored) /\ Len(Log(d)) \in Nat
      /\ \A i \in 1..Len(Log(d)) : Log(d)[i] \in Stored
  BY LogType
<1>3. Log(d) \in Seq(Message)
  BY <1>2, StoredIsSaved, SeqMonotonic
<1>4. /\ g.page = p /\ g.data = d /\ g.messages = Log(d) /\ g.streaming = h.streaming
      /\ g.last = h.last /\ g.blank = FALSE /\ g.cut = FALSE
  BY <1>1 DEF Shown, Hook, Log
<1>5. g \in Hook
  <2>1. g = [page |-> p, data |-> d, messages |-> Log(d), streaming |-> h.streaming,
             last |-> h.last, blank |-> FALSE, cut |-> FALSE]
    BY <1>1 DEF Shown, Hook, Log
  <2>2. p \in Pages /\ h.streaming \in BOOLEAN /\ h.last \in Texts \cup {None}
    BY DEF Pages, Hook
  <2> QED BY <2>1, <2>2, <1>3 DEF Hook
<1>6. \A i \in 1..Len(g.messages) : IsSaved(g.messages[i])
  BY <1>2, <1>4, StoredIsSaved
<1>7. LocalHolds(g, T)
  BY <1>6 DEF LocalHolds
<1>8. SavedHolds(g, H)
  BY <1>2, <1>4 DEF SavedHolds, ShownPart
<1>9. OneStreams(g, T) /\ CutHolds(g)
  BY <1>4 DEF OneStreams, CutHolds
<1>10. g.page = p /\ g.data = d /\ ~g.streaming
  BY <1>4
<1> QED BY <1>1, <1>5, <1>7, <1>8, <1>9, <1>10 DEF Screen

\* What Rendered makes of the state h.
Drawn(p, h, C) == IF p = Away THEN h ELSE Render(h, p, DataOf(p, C))

LEMMA DrawnKeeps ==
    ASSUME NEW h \in Hook, NEW T \in Seq(Turn), NEW H \in Histories, NEW p \in Pages,
           NEW C \in [Conversations -> Cached],
           \A c \in Conversations : Begins(C[c].data, H[c]),
           Screen(h, T, H)
    PROVE  /\ Drawn(p, h, C) \in Hook /\ Screen(Drawn(p, h, C), T, H)
           /\ InStep(Drawn(p, h, C), p, C)
<1>1. CASE p = Away
  BY <1>1 DEF Drawn, InStep
<1>2. CASE p # Away
  <2>1. p \in Conversations \cup {New}
    BY <1>2 DEF Pages
  <2>2. DataOf(p, C) \in Data
    BY DEF DataOf, Data, Cached
  <2>3. p \notin Conversations => DataOf(p, C) = None
    BY DEF DataOf
  <2>4. p \in Conversations => Begins(DataOf(p, C), H[p])
    BY DEF DataOf
  <2>5. CASE ~h.streaming /\ (h.page # p \/ h.data # DataOf(p, C))
    <3>1. Drawn(p, h, C) = Shown(h, p, DataOf(p, C))
      BY <1>2, <2>5 DEF Drawn, Render
    <3>2. OneStreams(h, T)
      BY DEF Screen
    <3> QED BY <2>1, <2>2, <2>3, <2>4, <2>5, <3>1, <3>2, ShownKeeps DEF InStep
  <2>6. CASE ~(~h.streaming /\ (h.page # p \/ h.data # DataOf(p, C)))
    <3>1. Drawn(p, h, C) = h
      BY <1>2, <2>6 DEF Drawn, Render
    <3> QED BY <2>6, <3>1 DEF InStep
  <2> QED BY <2>5, <2>6
<1> QED BY <1>1, <1>2

\* g is h with the answer of t changed, all else the same.
Patched(h, g, t) ==
    /\ g.page = h.page /\ g.data = h.data /\ g.blank = h.blank /\ g.cut = h.cut
    /\ Len(g.messages) = Len(h.messages)
    /\ \A i \in 1..Len(h.messages) :
         ~IsAnswer(h.messages[i], t) => g.messages[i] = h.messages[i]
    /\ \A i \in 1..Len(h.messages) :
         IsAnswer(h.messages[i], t) => IsAnswer(g.messages[i], t)

\* The answer of t has n tokens; it is not being written.
Counts(h, t, n) ==
    \A i \in 1..Len(h.messages) : IsAnswer(h.messages[i], t) => h.messages[i].is.tokens = n

Ended(h, t) ==
    \A i \in 1..Len(h.messages) :
      IsAnswer(h.messages[i], t) => h.messages[i].is.status # "streaming"

\* The answer of turn t, the one turn that differs, is brought up to date.
LEMMA PatchKeeps ==
    ASSUME NEW h \in Hook, NEW g \in Hook, NEW T \in Seq(Turn), NEW U \in Seq(Turn),
           NEW H \in Histories, NEW t \in 1..Len(T), Screen(h, T, H),
           T[t].here, U[t].here, U[t].start = T[t].start,
           Len(U) = Len(T), \A s \in 1..Len(T) \ {t} : U[s] = T[s],
           U[t].stream = "open" => T[t].stream = "open",
           Patched(h, g, t), Counts(g, t, U[t].tokens),
           U[t].stream = "open" \/ Ended(g, t),
           g.streaming <=> \E s \in 1..Len(U) : Streams(U, s)
    PROVE  Screen(g, U, H)
<1> /\ g.page = h.page /\ g.data = h.data /\ g.blank = h.blank /\ g.cut = h.cut
    /\ Len(g.messages) = Len(h.messages)
    /\ \A i \in 1..Len(h.messages) :
         ~IsAnswer(h.messages[i], t) => g.messages[i] = h.messages[i]
    /\ \A i \in 1..Len(h.messages) : IsAnswer(h.messages[i], t) => IsAnswer(g.messages[i], t)
    /\ \A i \in 1..Len(h.messages) : IsAnswer(g.messages[i], t) =>
         /\ g.messages[i].is.tokens = U[t].tokens
         /\ g.messages[i].is.status = "streaming" => U[t].stream = "open"
  BY DEF Patched, Counts, Ended
<1>1. LocalHolds(g, U)
  <2> SUFFICES ASSUME NEW i \in 1..Len(h.messages), ~IsSaved(g.messages[i])
               PROVE  LET m == g.messages[i].is IN
                      /\ m.turn \in 1..Len(U) /\ U[m.turn].here /\ U[m.turn].start = h.page
                      /\ m.role = "user" => m.status = "complete"
                      /\ m.role = "assistant" => m.tokens = U[m.turn].tokens
                      /\ m.status = "streaming" => U[m.turn].stream = "open"
    BY DEF LocalHolds
  <2>1. CASE IsAnswer(h.messages[i], t)
    <3>1. h.messages[i].is.turn = t /\ ~IsSaved(h.messages[i])
      BY <2>1 DEF IsAnswer
    <3>2. T[t].start = h.page
      BY <3>1 DEF Screen, LocalHolds
    <3>3. g.messages[i].is.turn = t /\ g.messages[i].is.role = "assistant"
      BY <2>1 DEF IsAnswer
    <3> QED BY <2>1, <3>2, <3>3
  <2>2. CASE ~IsAnswer(h.messages[i], t)
    <3>1. g.messages[i] = h.messages[i]
      BY <2>2
    <3>2. h.messages[i] \in Message
      BY HookType
    <3>3. h.messages[i].is.role \in {"user", "assistant"}
      BY <3>2 DEF Message, MessageOf
    <3>4. h.messages[i].is.turn = t => h.messages[i].is.role = "user"
      BY <2>2, <3>1, <3>3 DEF IsAnswer
    <3>5. h.messages[i].is.turn = t => h.messages[i].is.status = "complete"
      BY <3>1, <3>4 DEF Screen, LocalHolds
    <3>6. CASE h.messages[i].is.turn = t
      <4>1. T[t].start = h.page
        BY <3>1, <3>6 DEF Screen, LocalHolds
      <4> QED BY <3>1, <3>4, <3>5, <3>6, <4>1
    <3>7. CASE h.messages[i].is.turn # t
      <4>1. /\ h.messages[i].is.turn \in 1..Len(T)
            /\ T[h.messages[i].is.turn].here /\ T[h.messages[i].is.turn].start = h.page
            /\ h.messages[i].is.role = "user" => h.messages[i].is.status = "complete"
            /\ h.messages[i].is.role = "assistant" =>
                 h.messages[i].is.tokens = T[h.messages[i].is.turn].tokens
            /\ h.messages[i].is.status = "streaming" =>
                 T[h.messages[i].is.turn].stream = "open"
        BY <3>1 DEF Screen, LocalHolds
      <4>2. U[h.messages[i].is.turn] = T[h.messages[i].is.turn]
        BY <3>7, <4>1
      <4> QED BY <3>1, <4>1, <4>2
    <3> QED BY <3>6, <3>7
  <2> QED BY <2>1, <2>2
<1>2. \A i \in 1..Len(h.messages) :
        IsSaved(g.messages[i]) \/ IsSaved(h.messages[i]) => g.messages[i] = h.messages[i]
  BY DEF IsAnswer
<1>3. SavedHolds(g, H)
  <2>1. ShownPart(g) = ShownPart(h)
    BY DEF ShownPart
  <2>2. ShownPart(h) \in Int /\ Len(Log(h.data)) \in Nat /\ Len(h.messages) \in Nat
    BY HookType, LogType DEF ShownPart
  <2>3. \A i \in 1..Len(h.messages) :
          IsSaved(g.messages[i]) => i <= Len(Log(h.data)) /\ g.messages[i] = Log(h.data)[i]
    BY <1>2 DEF Screen, SavedHolds
  <2>4. \A i \in 1..Len(Log(h.data)) : IsSaved(Log(h.data)[i])
    BY HookType, LogType, StoredIsSaved
  <2>5. ~h.blank => \A i \in 1..ShownPart(h) : g.messages[i] = Log(h.data)[i]
    <3> SUFFICES ASSUME ~h.blank, NEW i \in 1..ShownPart(h) PROVE g.messages[i] = Log(h.data)[i]
      OBVIOUS
    <3>1. h.messages[i] = Log(h.data)[i] /\ ShownPart(h) <= Len(h.messages)
      BY DEF Screen, SavedHolds
    <3>2. i \in 1..Len(Log(h.data)) /\ i \in 1..Len(h.messages)
      BY <2>2, <3>1 DEF ShownPart
    <3> QED BY <1>2, <2>4, <3>1, <3>2
  <2> QED BY <2>1, <2>3, <2>5 DEF Screen, SavedHolds
<1>4. CutHolds(g)
  <2> SUFFICES ASSUME ~h.blank, h.cut
               PROVE  g.messages # <<>> /\ ~IsSaved(g.messages[Len(g.messages)])
    BY DEF CutHolds
  <2>1. h.messages # <<>> /\ ~IsSaved(h.messages[Len(h.messages)])
    BY DEF Screen, CutHolds
  <2>2. Len(h.messages) \in Nat \ {0}
    BY <2>1, HookType, EmptySeq
  <2>3. g.messages # <<>>
    BY <2>2, EmptySeq
  <2> QED BY <1>2, <2>1, <2>2, <2>3
<1>5. OneStreams(g, U)
  <2>1. \A s \in 1..Len(T) : Streams(U, s) => Streams(T, s)
    BY DEF Streams
  <2>2. \A s \in 1..Len(T) : Streams(U, s) =>
          \E i \in 1..Len(g.messages) : IsAnswer(g.messages[i], s)
    <3> SUFFICES ASSUME NEW s \in 1..Len(T), Streams(U, s)
                 PROVE  \E i \in 1..Len(g.messages) : IsAnswer(g.messages[i], s)
      OBVIOUS
    <3>1. PICK i \in 1..Len(h.messages) : IsAnswer(h.messages[i], s)
      BY <2>1 DEF Screen, OneStreams
    <3>2. CASE s = t
      BY <3>1, <3>2
    <3>3. CASE s # t
      BY <3>1, <3>3 DEF IsAnswer
    <3> QED BY <3>2, <3>3
  <2> QED BY <2>1, <2>2 DEF Screen, OneStreams
<1> QED BY <1>1, <1>3, <1>4, <1>5 DEF Screen

\* The last message goes.
Cropped(h) == [h EXCEPT !.messages = Front(@), !.cut = @ \/ IsSaved(Last(h.messages))]

LEMMA CroppedKeeps ==
    ASSUME NEW h \in Hook, NEW T \in Seq(Turn), NEW H \in Histories,
           Screen(h, T, H), h.messages # <<>>
    PROVE  /\ Cropped(h) \in Hook
           /\ Cropped(h).page = h.page /\ Cropped(h).streaming = h.streaming
           /\ LocalHolds(Cropped(h), T) /\ SavedHolds(Cropped(h), H)
<1>1. PICK g : g = Cropped(h)
  OBVIOUS
<1>2. PICK n \in Nat \ {0} : n = Len(h.messages)
  BY HookType, EmptySeq
<1>3. PICK e : e = h.messages[n]
  OBVIOUS
<1>4. Last(h.messages) = e /\ Front(h.messages) = SubSeq(h.messages, 1, n - 1)
  BY <1>2, <1>3 DEF Last, Front
<1>5. /\ Front(h.messages) \in Seq(Message) /\ Len(Front(h.messages)) = n - 1
      /\ \A i \in 1..(n - 1) : Front(h.messages)[i] = h.messages[i]
  <2>1. \A i \in 1..(n - 1) : h.messages[i] \in Message
    BY <1>2, HookType
  <2>2. /\ SubSeq(h.messages, 1, n - 1) \in Seq(Message)
        /\ Len(SubSeq(h.messages, 1, n - 1)) = IF 1 <= n - 1 THEN (n - 1) - 1 + 1 ELSE 0
        /\ \A i \in 1..((n - 1) - 1 + 1) :
             SubSeq(h.messages, 1, n - 1)[i] = h.messages[1 + i - 1]
    BY <2>1, <1>2, SubSeqProperties
  <2> QED BY <2>2, <1>2, <1>4
<1>6. g = [page |-> h.page, data |-> h.data, messages |-> Front(h.messages),
           streaming |-> h.streaming, last |-> h.last, blank |-> h.blank,
           cut |-> h.cut \/ IsSaved(e)]
  BY <1>1, <1>4 DEF Cropped, Hook
<1>7. (h.cut \/ IsSaved(e)) \in BOOLEAN
  BY HookType DEF IsSaved
<1>8. g \in Hook
  BY <1>5, <1>6, <1>7 DEF Hook
<1>9. /\ g.page = h.page /\ g.data = h.data /\ g.messages = Front(h.messages)
      /\ g.streaming = h.streaming /\ g.blank = h.blank /\ g.cut = (h.cut \/ IsSaved(e))
  BY <1>6
<1>10. LocalHolds(g, T)
  BY <1>2, <1>5, <1>9 DEF Screen, LocalHolds
<1>11. SavedHolds(g, H)
  <2>1. PICK k \in Nat : k = Len(Log(h.data))
    BY HookType, LogType
  <2>2. \A i \in 1..k : IsSaved(Log(h.data)[i])
    BY <2>1, HookType, LogType, StoredIsSaved
  <2>3. \A i \in 1..n : IsSaved(h.messages[i]) => i <= k /\ h.messages[i] = Log(h.data)[i]
    BY <1>2, <2>1 DEF Screen, SavedHolds
  <2>4. PICK m \in Int : m = ShownPart(h)
    <3>1. ShownPart(h) = k - 1 \/ ShownPart(h) = k
      BY <2>1 DEF ShownPart
    <3>2. k - 1 \in Int /\ k \in Int
      OBVIOUS
    <3> QED BY <3>1, <3>2
  <2>5. ~h.blank => m <= n /\ \A i \in 1..m : h.messages[i] = Log(h.data)[i]
    BY <1>2, <2>4 DEF Screen, SavedHolds
  <2>6. m = IF h.cut THEN k - 1 ELSE k
    BY <2>1, <2>4 DEF ShownPart
  <2>7. ~h.blank => ShownPart(g) <= n - 1 /\ ShownPart(g) <= m
    <3> SUFFICES ASSUME ~h.blank PROVE ShownPart(g) <= n - 1 /\ ShownPart(g) <= m
      OBVIOUS
    <3>1. ShownPart(g) = IF h.cut \/ IsSaved(e) THEN k - 1 ELSE k
      BY <1>9, <2>1 DEF ShownPart
    <3>2. CASE IsSaved(e)
      <4>1. ~h.cut
        BY <1>2, <1>3, <3>2 DEF Screen, CutHolds
      <4>2. n <= k
        BY <1>3, <2>3, <3>2
      <4> QED BY <2>5, <2>6, <3>1, <3>2, <4>1, <4>2
    <3>3. CASE ~IsSaved(e)
      <4>1. ShownPart(g) = m /\ m <= k
        BY <2>6, <3>1, <3>3
      <4>2. m # n
        <5> SUFFICES ASSUME m = n PROVE FALSE
          OBVIOUS
        <5>1. n \in 1..m /\ n \in 1..k
          BY <4>1
        <5> QED BY <5>1, <1>3, <2>2, <2>5, <3>3
      <4> QED BY <2>5, <4>1, <4>2
    <3> QED BY <3>2, <3>3
  <2>8. ShownPart(g) \in Int
    BY <1>9, <2>1 DEF ShownPart
  <2>9. ~g.blank => /\ ShownPart(g) <= Len(g.messages)
                    /\ \A i \in 1..ShownPart(g) : g.messages[i] = Log(g.data)[i]
    BY <1>5, <1>9, <2>5, <2>7, <2>8
  <2>10. \A i \in 1..Len(g.messages) :
           IsSaved(g.messages[i]) => i <= Len(Log(g.data)) /\ g.messages[i] = Log(g.data)[i]
    BY <1>5, <1>9, <2>1, <2>3
  <2>11. /\ g.page \notin Conversations => g.data = None
         /\ g.page \in Conversations => Begins(g.data, H[g.page])
    BY <1>9 DEF Screen, SavedHolds
  <2> QED BY <2>9, <2>10, <2>11 DEF SavedHolds
<1> QED BY <1>1, <1>8, <1>9, <1>10, <1>11

-----------------------------------------------------------------------------
\* A turn that begins, and what the hook shows of it.
NewTurn(p, x) ==
    [start |-> p, text |-> x, here |-> TRUE, stream |-> "open", service |-> "asked",
     conversation |-> IF p = New THEN None ELSE p,
     told |-> IF p = New THEN None ELSE p, tokens |-> 0]

WithTurn(messages, t, x) ==
    messages \o <<Local(Question(t, x)), Local(Answer(t, 0, "streaming"))>>

Asked(h, t, x) ==
    [h EXCEPT !.messages = WithTurn(h.messages, t, x), !.streaming = TRUE, !.last = x]

LEMMA NewTurnType ==
    ASSUME NEW p \in Conversations \cup {New}, NEW x \in Texts
    PROVE  NewTurn(p, x) \in Turn
BY ChatAssumption DEF NewTurn, Turn

LEMMA AskedMessages ==
    ASSUME NEW h \in Hook, NEW t \in 1..MaxTurns, NEW x \in Texts, NEW n \in Nat,
           n = Len(h.messages)
    PROVE  /\ Asked(h, t, x) \in Hook
           /\ Asked(h, t, x).page = h.page /\ Asked(h, t, x).data = h.data
           /\ Asked(h, t, x).blank = h.blank /\ Asked(h, t, x).cut = h.cut
           /\ Asked(h, t, x).streaming
           /\ Len(Asked(h, t, x).messages) = n + 2
           /\ \A i \in 1..n : Asked(h, t, x).messages[i] = h.messages[i]
           /\ Asked(h, t, x).messages[n + 1] = Local(Question(t, x))
           /\ Asked(h, t, x).messages[n + 2] = Local(Answer(t, 0, "streaming"))
<1>1. PICK a \in Message : a = Local(Question(t, x))
  BY QuestionType
<1>2. PICK b \in Message : b = Local(Answer(t, 0, "streaming"))
  BY AnswerType, ChatAssumption
<1>3. <<a, b>> \in Seq(Message) /\ Len(<<a, b>>) = 2 /\ <<a, b>>[1] = a /\ <<a, b>>[2] = b
  OBVIOUS
<1>4. PICK s : s = h.messages \o <<a, b>>
  OBVIOUS
<1>5. /\ s \in Seq(Message) /\ Len(s) = n + 2
      /\ \A i \in 1..(n + 2) : s[i] = IF i <= n THEN h.messages[i] ELSE <<a, b>>[i - n]
  BY <1>3, <1>4, HookType, ConcatProperties
<1>6. /\ \A i \in 1..n : s[i] = h.messages[i]
      /\ s[n + 1] = a /\ s[n + 2] = b
  <2>1. \A i \in 1..n : s[i] = h.messages[i]
    BY <1>5
  <2>2. n + 1 \in 1..(n + 2) /\ ~(n + 1 <= n) /\ (n + 1) - n = 1
        /\ n + 2 \in 1..(n + 2) /\ ~(n + 2 <= n) /\ (n + 2) - n = 2
    OBVIOUS
  <2> QED BY <1>3, <1>5, <2>1, <2>2
<1>7. Asked(h, t, x) =
        [page |-> h.page, data |-> h.data, messages |-> s, streaming |-> TRUE,
         last |-> x, blank |-> h.blank, cut |-> h.cut]
  <2>1. WithTurn(h.messages, t, x) = s
    BY <1>1, <1>2, <1>4 DEF WithTurn
  <2>2. PICK g : g = Asked(h, t, x)
    OBVIOUS
  <2>3. g = [page |-> h.page, data |-> h.data, messages |-> s, streaming |-> TRUE,
             last |-> x, blank |-> h.blank, cut |-> h.cut]
    BY <2>1, <2>2 DEF Asked, Hook
  <2> QED BY <2>2, <2>3
<1>8. Asked(h, t, x) \in Hook
  BY <1>5, <1>7 DEF Hook
<1> QED BY <1>1, <1>2, <1>5, <1>6, <1>7, <1>8

LEMMA AskedKeeps ==
    ASSUME NEW h \in Hook, NEW T \in Seq(Turn), NEW H \in Histories, NEW x \in Texts,
           Len(T) + 1 <= MaxTurns, h.page \in Conversations \cup {New},
           \A s \in 1..Len(T) : ~Streams(T, s), LocalHolds(h, T), SavedHolds(h, H)
    PROVE  Screen(Asked(h, Len(T) + 1, x), Append(T, NewTurn(h.page, x)), H)
<1>1. PICK t \in 1..MaxTurns : t = Len(T) + 1 /\ t - 1 = Len(T)
  <2>1. Len(T) \in Nat
    BY LenProperties
  <2> QED BY <2>1, ChatAssumption
<1>2. PICK n \in Nat : n = Len(h.messages)
  BY HookType
<1>3. PICK g : g = Asked(h, t, x)
  OBVIOUS
<1>4. PICK U : U = Append(T, NewTurn(h.page, x))
  OBVIOUS
<1>5. /\ g.page = h.page /\ g.data = h.data /\ g.blank = h.blank /\ g.cut = h.cut
      /\ g.streaming /\ Len(g.messages) = n + 2
      /\ \A i \in 1..n : g.messages[i] = h.messages[i]
      /\ g.messages[n + 1] = Local(Question(t, x))
      /\ g.messages[n + 2] = Local(Answer(t, 0, "streaming"))
  BY <1>2, <1>3, AskedMessages
<1>6. /\ Len(U) = t /\ U[t] = NewTurn(h.page, x)
      /\ \A s \in 1..(t - 1) : U[s] = T[s]
  BY <1>1, <1>4, NewTurnType, AppendProperties
<1>7. /\ U[t].start = h.page /\ U[t].here /\ U[t].stream = "open" /\ U[t].tokens = 0
  BY <1>6 DEF NewTurn
<1>8. /\ ~IsSaved(g.messages[n + 1]) /\ ~IsSaved(g.messages[n + 2])
      /\ g.messages[n + 1].is.role = "user" /\ g.messages[n + 1].is.turn = t
      /\ g.messages[n + 1].is.status = "complete"
      /\ g.messages[n + 2].is.role = "assistant" /\ g.messages[n + 2].is.turn = t
      /\ g.messages[n + 2].is.tokens = 0
  BY <1>5 DEF Local, Question, Answer, IsSaved
<1>9. \A i \in 1..(n + 2) : i \in 1..n \/ i = n + 1 \/ i = n + 2
  OBVIOUS
<1>10. LocalHolds(g, U)
  <2>1. \A i \in 1..n : ~IsSaved(g.messages[i]) =>
          LET m == g.messages[i].is IN
          /\ m.turn \in 1..t /\ U[m.turn].here /\ U[m.turn].start = h.page
          /\ m.role = "user" => m.status = "complete"
          /\ m.role = "assistant" => m.tokens = U[m.turn].tokens
          /\ m.status = "streaming" => U[m.turn].stream = "open"
    <3> SUFFICES ASSUME NEW i \in 1..n, ~IsSaved(g.messages[i])
                 PROVE  LET m == g.messages[i].is IN
                        /\ m.turn \in 1..t /\ U[m.turn].here /\ U[m.turn].start = h.page
                        /\ m.role = "user" => m.status = "complete"
                        /\ m.role = "assistant" => m.tokens = U[m.turn].tokens
                        /\ m.status = "streaming" => U[m.turn].stream = "open"
      OBVIOUS
    <3>1. g.messages[i] = h.messages[i]
      BY <1>5
    <3>2. PICK m : m = h.messages[i].is
      OBVIOUS
    <3>3. /\ m.turn \in 1..(t - 1) /\ T[m.turn].here /\ T[m.turn].start = h.page
          /\ m.role = "user" => m.status = "complete"
          /\ m.role = "assistant" => m.tokens = T[m.turn].tokens
          /\ m.status = "streaming" => T[m.turn].stream = "open"
      BY <1>1, <1>2, <3>1, <3>2 DEF LocalHolds
    <3>4. U[m.turn] = T[m.turn] /\ m.turn \in 1..t
      BY <1>6, <3>3
    <3> QED BY <3>1, <3>2, <3>3, <3>4
  <2>2. t \in 1..t
    BY <1>1
  <2>3. LET m == g.messages[n + 1].is IN
          /\ m.turn \in 1..t /\ U[m.turn].here /\ U[m.turn].start = h.page
          /\ m.role = "user" => m.status = "complete"
          /\ m.role = "assistant" => m.tokens = U[m.turn].tokens
          /\ m.status = "streaming" => U[m.turn].stream = "open"
    BY <1>7, <1>8, <2>2
  <2>4. LET m == g.messages[n + 2].is IN
          /\ m.turn \in 1..t /\ U[m.turn].here /\ U[m.turn].start = h.page
          /\ m.role = "user" => m.status = "complete"
          /\ m.role = "assistant" => m.tokens = U[m.turn].tokens
          /\ m.status = "streaming" => U[m.turn].stream = "open"
    BY <1>7, <1>8, <2>2
  <2> QED BY <1>5, <1>6, <1>9, <2>1, <2>3, <2>4 DEF LocalHolds
<1>11. SavedHolds(g, H)
  <2>1. ShownPart(g) = ShownPart(h) /\ ShownPart(h) \in Int
    BY <1>5, HookType, LogType DEF ShownPart
  <2>2. \A i \in 1..(n + 2) :
          IsSaved(g.messages[i]) => i <= Len(Log(h.data)) /\ g.messages[i] = Log(h.data)[i]
    <3>1. \A i \in 1..n :
            IsSaved(h.messages[i]) => i <= Len(Log(h.data)) /\ h.messages[i] = Log(h.data)[i]
      BY <1>2 DEF SavedHolds
    <3> QED BY <1>5, <1>8, <1>9, <3>1
  <2>3. ~h.blank => ShownPart(h) <= n + 2
    BY <1>2, <2>1 DEF SavedHolds
  <2>4. ~h.blank => \A i \in 1..ShownPart(h) : g.messages[i] = Log(h.data)[i]
    BY <1>2, <1>5, <2>1 DEF SavedHolds
  <2> QED BY <1>5, <2>1, <2>2, <2>3, <2>4 DEF SavedHolds
<1>12. CutHolds(g)
  <2>1. g.messages # <<>>
    BY <1>5, EmptySeq
  <2> QED BY <1>5, <1>8, <2>1 DEF CutHolds
<1>13. OneStreams(g, U)
  <2>1. Streams(U, t)
    BY <1>7 DEF Streams
  <2>2. \A s \in 1..t : Streams(U, s) => s = t
    BY <1>1, <1>6 DEF Streams
  <2>3. IsAnswer(g.messages[n + 2], t)
    BY <1>8 DEF IsAnswer
  <2>4. n + 2 \in 1..Len(g.messages)
    BY <1>5
  <2> QED BY <1>5, <1>6, <2>1, <2>2, <2>3, <2>4 DEF OneStreams
<1> QED BY <1>1, <1>3, <1>4, <1>10, <1>11, <1>12, <1>13 DEF Screen

-----------------------------------------------------------------------------
(* The answer of a turn in the transcript, brought up to date.             *)

\* Any transcript of the same length makes a hook.
LEMMA OtherMessages ==
    ASSUME NEW h \in Hook, NEW f, DOMAIN f = DOMAIN h.messages,
           \A i \in 1..Len(h.messages) : f[i] \in Message,
           f = [i \in DOMAIN f |-> f[i]]
    PROVE  /\ [h EXCEPT !.messages = f] \in Hook
           /\ [h EXCEPT !.messages = f].page = h.page
           /\ [h EXCEPT !.messages = f].data = h.data
           /\ [h EXCEPT !.messages = f].blank = h.blank
           /\ [h EXCEPT !.messages = f].cut = h.cut
           /\ [h EXCEPT !.messages = f].streaming = h.streaming
           /\ [h EXCEPT !.messages = f].messages = f
           /\ Len(f) = Len(h.messages)
<1>1. PICK n \in Nat : n = Len(h.messages) /\ DOMAIN f = 1..n
  BY HookType
<1>2. f \in [1..n -> Message]
  BY <1>1
<1>3. f \in Seq(Message)
  BY <1>2, SeqDef
<1>4. Len(f) = n
  BY <1>1, <1>2, <1>3, LenProperties
<1>5. PICK g : g = [h EXCEPT !.messages = f]
  OBVIOUS
<1>6. g = [page |-> h.page, data |-> h.data, messages |-> f, streaming |-> h.streaming,
           last |-> h.last, blank |-> h.blank, cut |-> h.cut]
  BY <1>5 DEF Hook
<1>7. g \in Hook
  BY <1>3, <1>6 DEF Hook
<1> QED BY <1>1, <1>4, <1>5, <1>6, <1>7

Tokened(h, t) == Patch(h, t, LAMBDA m : [m EXCEPT !.tokens = @ + 1])
Failed(h, t) == Patch(h, t, LAMBDA m : [m EXCEPT !.status = "error"])
Finished(h, t, failed) ==
    Patch([h EXCEPT !.streaming = FALSE], t, LAMBDA m : Settle(m, failed))

LEMMA TokenedIs ==
    ASSUME NEW h \in Hook, NEW t \in Nat, NEW k \in Nat, NEW n \in 0..MaxTokens, n = k + 1,
           Counts(h, t, k)
    PROVE  /\ Tokened(h, t) \in Hook /\ Patched(h, Tokened(h, t), t)
           /\ Tokened(h, t).streaming = h.streaming
           /\ Counts(Tokened(h, t), t, n)
<1>1. PICK f : f = [i \in DOMAIN h.messages |->
         IF h.messages[i].id = "local" /\ h.messages[i].is.role = "assistant"
              /\ h.messages[i].is.turn = t
         THEN Local([h.messages[i].is EXCEPT !.tokens = @ + 1]) ELSE h.messages[i]]
  OBVIOUS
<1>2. Tokened(h, t) = [h EXCEPT !.messages = f]
  BY <1>1 DEF Tokened, Patch
<1>3. DOMAIN f = DOMAIN h.messages /\ f = [i \in DOMAIN f |-> f[i]]
      /\ DOMAIN h.messages = 1..Len(h.messages)
  BY <1>1, HookType
<1>4. \A i \in 1..Len(h.messages) :
        /\ ~IsAnswer(h.messages[i], t) => f[i] = h.messages[i]
        /\ IsAnswer(h.messages[i], t) =>
             f[i] = Local([h.messages[i].is EXCEPT !.tokens = @ + 1])
  <2> SUFFICES ASSUME NEW i \in 1..Len(h.messages)
               PROVE  /\ ~IsAnswer(h.messages[i], t) => f[i] = h.messages[i]
                      /\ IsAnswer(h.messages[i], t) =>
                           f[i] = Local([h.messages[i].is EXCEPT !.tokens = @ + 1])
    OBVIOUS
  <2>1. h.messages[i].id \in {"local", "saved"}
    BY HookType DEF Message, MessageOf
  <2> QED BY <1>1, <1>3, <2>1 DEF IsAnswer, IsSaved
<1>5. \A i \in 1..Len(h.messages) :
        IsAnswer(h.messages[i], t) =>
          f[i] \in Message /\ IsAnswer(f[i], t) /\ f[i].is.tokens = n
  <2> SUFFICES ASSUME NEW i \in 1..Len(h.messages), IsAnswer(h.messages[i], t)
               PROVE  f[i] \in Message /\ IsAnswer(f[i], t) /\ f[i].is.tokens = n
    OBVIOUS
  <2>1. PICK m : m = h.messages[i].is
    OBVIOUS
  <2>2. /\ m \in [role : {"user", "assistant"}, turn : 1..MaxTurns, text : Texts \cup {None},
                  tokens : 0..MaxTokens, status : {"complete", "streaming", "error"}]
        /\ m.role = "assistant" /\ m.turn = t /\ m.tokens + 1 = n
    BY <2>1, HookType DEF Message, MessageOf, IsAnswer, Counts
  <2>3. PICK l : l = [m EXCEPT !.tokens = @ + 1]
    OBVIOUS
  <2>4. /\ l \in [role : {"user", "assistant"}, turn : 1..MaxTurns, text : Texts \cup {None},
                  tokens : 0..MaxTokens, status : {"complete", "streaming", "error"}]
        /\ l.role = "assistant" /\ l.turn = t /\ l.tokens = n
    BY <2>2, <2>3
  <2>5. f[i] = [id |-> "local", is |-> l]
    BY <1>4, <2>1, <2>3 DEF Local
  <2> QED BY <2>1, <2>4, <2>5 DEF Message, MessageOf, IsAnswer, IsSaved
<1>6. \A i \in 1..Len(h.messages) : f[i] \in Message
  BY <1>4, <1>5, HookType
<1> HIDE DEF Tokened
<1>7. /\ Tokened(h, t) \in Hook /\ Tokened(h, t).messages = f /\ Len(f) = Len(h.messages)
      /\ Tokened(h, t).page = h.page /\ Tokened(h, t).data = h.data
      /\ Tokened(h, t).blank = h.blank /\ Tokened(h, t).cut = h.cut
      /\ Tokened(h, t).streaming = h.streaming
  BY <1>2, <1>3, <1>6, OtherMessages
<1>8. Counts(Tokened(h, t), t, n)
  BY <1>4, <1>5, <1>7 DEF Counts
<1> QED BY <1>4, <1>5, <1>7, <1>8 DEF Patched


\* The answer of t with the status s.
Marked(h, t, s) ==
    [h EXCEPT !.messages = [i \in DOMAIN h.messages |->
       IF h.messages[i].id = "local" /\ h.messages[i].is.role = "assistant"
            /\ h.messages[i].is.turn = t
       THEN Local([h.messages[i].is EXCEPT !.status = s]) ELSE h.messages[i]]]

LEMMA MarkedIs ==
    ASSUME NEW h \in Hook, NEW t \in Nat, NEW n, NEW s \in {"complete", "error"},
           Counts(h, t, n)
    PROVE  /\ Marked(h, t, s) \in Hook /\ Patched(h, Marked(h, t, s), t)
           /\ Marked(h, t, s).streaming = h.streaming
           /\ Counts(Marked(h, t, s), t, n) /\ Ended(Marked(h, t, s), t)
<1>1. PICK f : f = [i \in DOMAIN h.messages |->
         IF h.messages[i].id = "local" /\ h.messages[i].is.role = "assistant"
              /\ h.messages[i].is.turn = t
         THEN Local([h.messages[i].is EXCEPT !.status = s]) ELSE h.messages[i]]
  OBVIOUS
<1>2. Marked(h, t, s) = [h EXCEPT !.messages = f]
  BY <1>1 DEF Marked
<1>3. DOMAIN f = DOMAIN h.messages /\ f = [i \in DOMAIN f |-> f[i]]
      /\ DOMAIN h.messages = 1..Len(h.messages)
  BY <1>1, HookType
<1>4. \A i \in 1..Len(h.messages) :
        /\ ~IsAnswer(h.messages[i], t) => f[i] = h.messages[i]
        /\ IsAnswer(h.messages[i], t) => f[i] = Local([h.messages[i].is EXCEPT !.status = s])
  <2> SUFFICES ASSUME NEW i \in 1..Len(h.messages)
               PROVE  /\ ~IsAnswer(h.messages[i], t) => f[i] = h.messages[i]
                      /\ IsAnswer(h.messages[i], t) =>
                           f[i] = Local([h.messages[i].is EXCEPT !.status = s])
    OBVIOUS
  <2>1. h.messages[i].id \in {"local", "saved"}
    BY HookType DEF Message, MessageOf
  <2> QED BY <1>1, <1>3, <2>1 DEF IsAnswer, IsSaved
<1>5. \A i \in 1..Len(h.messages) :
        IsAnswer(h.messages[i], t) =>
          /\ f[i] \in Message /\ IsAnswer(f[i], t)
          /\ f[i].is.tokens = h.messages[i].is.tokens /\ f[i].is.status = s
  <2> SUFFICES ASSUME NEW i \in 1..Len(h.messages), IsAnswer(h.messages[i], t)
               PROVE  /\ f[i] \in Message /\ IsAnswer(f[i], t)
                      /\ f[i].is.tokens = h.messages[i].is.tokens /\ f[i].is.status = s
    OBVIOUS
  <2>1. PICK m : m = h.messages[i].is
    OBVIOUS
  <2>2. /\ m \in [role : {"user", "assistant"}, turn : 1..MaxTurns, text : Texts \cup {None},
                  tokens : 0..MaxTokens, status : {"complete", "streaming", "error"}]
        /\ m.role = "assistant" /\ m.turn = t
    BY <2>1, HookType DEF Message, MessageOf, IsAnswer
  <2>3. PICK l : l = [m EXCEPT !.status = s]
    OBVIOUS
  <2>4. /\ l \in [role : {"user", "assistant"}, turn : 1..MaxTurns, text : Texts \cup {None},
                  tokens : 0..MaxTokens, status : {"complete", "streaming", "error"}]
        /\ l.role = "assistant" /\ l.turn = t /\ l.tokens = m.tokens /\ l.status = s
    BY <2>2, <2>3
  <2>5. f[i] = [id |-> "local", is |-> l]
    BY <1>4, <2>1, <2>3 DEF Local
  <2> QED BY <2>1, <2>4, <2>5 DEF Message, MessageOf, IsAnswer, IsSaved
<1>6. \A i \in 1..Len(h.messages) : f[i] \in Message
  BY <1>4, <1>5, HookType
<1>7. /\ Marked(h, t, s) \in Hook /\ Marked(h, t, s).messages = f
      /\ Len(f) = Len(h.messages)
      /\ Marked(h, t, s).page = h.page /\ Marked(h, t, s).data = h.data
      /\ Marked(h, t, s).blank = h.blank /\ Marked(h, t, s).cut = h.cut
      /\ Marked(h, t, s).streaming = h.streaming
  BY <1>2, <1>3, <1>6, OtherMessages
<1>8. Counts(Marked(h, t, s), t, n) /\ Ended(Marked(h, t, s), t)
  BY <1>4, <1>5, <1>7 DEF Counts, Ended
<1> QED BY <1>4, <1>5, <1>7, <1>8 DEF Patched

\* The hook after its stream.
LEMMA Quiet ==
    ASSUME NEW h \in Hook
    PROVE  /\ [h EXCEPT !.streaming = FALSE] \in Hook
           /\ [h EXCEPT !.streaming = FALSE].page = h.page
           /\ [h EXCEPT !.streaming = FALSE].data = h.data
           /\ [h EXCEPT !.streaming = FALSE].blank = h.blank
           /\ [h EXCEPT !.streaming = FALSE].cut = h.cut
           /\ [h EXCEPT !.streaming = FALSE].messages = h.messages
           /\ [h EXCEPT !.streaming = FALSE].streaming = FALSE
<1>1. PICK g : g = [h EXCEPT !.streaming = FALSE]
  OBVIOUS
<1>2. g = [page |-> h.page, data |-> h.data, messages |-> h.messages, streaming |-> FALSE,
           last |-> h.last, blank |-> h.blank, cut |-> h.cut]
  BY <1>1 DEF Hook
<1>3. g \in Hook
  BY <1>2, HookType DEF Hook
<1> QED BY <1>1, <1>2, <1>3

LEMMA FailedIs ==
    ASSUME NEW h \in Hook, NEW t \in Nat, NEW n, Counts(h, t, n)
    PROVE  /\ Failed(h, t) \in Hook /\ Patched(h, Failed(h, t), t)
           /\ Failed(h, t).streaming = h.streaming
           /\ Counts(Failed(h, t), t, n)
<1>1. Failed(h, t) = Marked(h, t, "error")
  BY DEF Failed, Marked, Patch
<1> QED BY <1>1, MarkedIs

LEMMA FinishedIs ==
    ASSUME NEW h \in Hook, NEW t \in Nat, NEW n, NEW failed \in BOOLEAN, Counts(h, t, n)
    PROVE  /\ Finished(h, t, failed) \in Hook /\ Patched(h, Finished(h, t, failed), t)
           /\ ~Finished(h, t, failed).streaming
           /\ Counts(Finished(h, t, failed), t, n) /\ Ended(Finished(h, t, failed), t)
<1>1. PICK s \in {"complete", "error"} : s = IF failed THEN "error" ELSE "complete"
  OBVIOUS
<1>2. PICK g : g = [h EXCEPT !.streaming = FALSE]
  OBVIOUS
<1>3. Finished(h, t, failed) = Marked(g, t, s)
  BY <1>1, <1>2 DEF Finished, Marked, Patch, Settle
<1>4. /\ g \in Hook /\ g.page = h.page /\ g.data = h.data /\ g.blank = h.blank /\ g.cut = h.cut
      /\ g.messages = h.messages /\ g.streaming = FALSE
  BY <1>2, Quiet
<1>5. Counts(g, t, n)
  BY <1>4 DEF Counts
<1>6. /\ Marked(g, t, s) \in Hook /\ Patched(g, Marked(g, t, s), t)
      /\ Marked(g, t, s).streaming = g.streaming
      /\ Counts(Marked(g, t, s), t, n) /\ Ended(Marked(g, t, s), t)
  BY <1>4, <1>5, MarkedIs
<1>7. Patched(h, Marked(g, t, s), t)
  BY <1>4, <1>6 DEF Patched
<1> QED BY <1>3, <1>4, <1>6, <1>7

LEMMA AnswersCount ==
    ASSUME NEW h, NEW T, NEW H, NEW t, Screen(h, T, H)
    PROVE  Counts(h, t, T[t].tokens)
BY DEF Screen, LocalHolds, Counts, IsAnswer

-----------------------------------------------------------------------------
(* Steps of a turn.                                                        *)

\* The hook has nothing to render.
LEMMA AtRest ==
    ASSUME Inv
    PROVE  hook = Drawn(page, hook, cache)
BY DEF Inv, InStep, Drawn, Render

\* Turn t is now r.
LEMMA TurnMoves ==
    ASSUME NEW T \in Seq(Turn), NEW t \in 1..Len(T), NEW r \in Turn
    PROVE  /\ [T EXCEPT ![t] = r] \in Seq(Turn) /\ Len([T EXCEPT ![t] = r]) = Len(T)
           /\ [T EXCEPT ![t] = r][t] = r
           /\ \A s \in 1..Len(T) \ {t} : [T EXCEPT ![t] = r][s] = T[s]
BY ExceptSeq

LEMMA WillTellMoves ==
    ASSUME NEW T, NEW U, NEW t, NEW c, WillTell(T, c),
           Len(U) = Len(T), \A s \in 1..Len(T) \ {t} : U[s] = T[s],
           T[t].conversation = c =>
             /\ U[t].conversation = c
             /\ U[t].stream = "closed" /\ U[t].told = c =>
                  T[t].stream = "closed" /\ T[t].told = c
    PROVE  WillTell(U, c)
<1>1. PICK s \in 1..Len(T) : T[s].conversation = c /\ ~(T[s].stream = "closed" /\ T[s].told = c)
  BY DEF WillTell
<1>2. CASE s = t
  BY <1>1, <1>2 DEF WillTell
<1>3. CASE s # t
  BY <1>1, <1>3 DEF WillTell
<1> QED BY <1>2, <1>3

Caches == [Conversations -> Cached]
Fetches == [Conversations -> Request \cup {None}]

\* A turn moves, the hook is brought up to date, and the cache told or not.
LEMMA TurnStep ==
    ASSUME Inv, NEW t \in 1..Len(turns), NEW r \in Turn, turns' = [turns EXCEPT ![t] = r],
           r.told \in {None, r.conversation}, r.here = turns[t].here,
           r.service = "answering" =>
             turns[t].service = "answering" /\ r.conversation = turns[t].conversation,
           page' = page, history' = history, heading' \in Conversations \cup {None},
           cache' \in Caches, fetch' \in Fetches,
           CacheBegins(cache', fetch', history), CacheFresh(cache', fetch', history, turns'),
           NEW h \in Hook, Screen(h, turns', history), hook' = Drawn(page, h, cache')
    PROVE  Inv'
<1>1. PICK U : U = turns'
  OBVIOUS
<1>2. /\ page \in Pages /\ turns \in Seq(Turn) /\ Len(turns) <= MaxTurns
      /\ \A s \in 1..Len(turns) : turns[s].told \in {None, turns[s].conversation}
      /\ history \in Histories
  BY DEF Inv, StateOK, Turns, Histories
<1>3. /\ U \in Seq(Turn) /\ Len(U) = Len(turns) /\ U[t] = r
      /\ \A s \in 1..Len(turns) \ {t} : U[s] = turns[s]
  BY <1>1, <1>2, TurnMoves
<1>4. \A c \in Conversations : Begins(cache'[c].data, history[c])
  BY DEF CacheBegins
<1>5. /\ Drawn(page, h, cache') \in Hook /\ Screen(Drawn(page, h, cache'), U, history)
      /\ InStep(Drawn(page, h, cache'), page, cache')
  BY <1>1, <1>2, <1>3, <1>4, DrawnKeeps DEF Caches
<1>6. StateOK'
  <2>1. \A s \in 1..Len(U) : U[s].told \in {None, U[s].conversation}
    BY <1>2, <1>3
  <2> QED BY <1>1, <1>2, <1>3, <1>5, <2>1 DEF StateOK, Turns, Histories, Caches, Fetches
<1>7. ServiceHolds(U, history)
  BY <1>3 DEF Inv, ServiceHolds
<1>8. Gone(page, U)
  BY <1>3 DEF Inv, Gone
<1> QED BY <1>1, <1>5, <1>6, <1>7, <1>8 DEF Inv

\* A turn that moves and leaves the cache alone.
LEMMA CacheStays ==
    ASSUME Inv, NEW t \in 1..Len(turns), NEW r \in Turn, turns' = [turns EXCEPT ![t] = r],
           r.conversation = turns[t].conversation, r.stream = turns[t].stream,
           r.told = turns[t].told \/ r.stream = "open",
           cache' = cache, fetch' = fetch
    PROVE  /\ cache' \in Caches /\ fetch' \in Fetches
           /\ CacheBegins(cache', fetch', history)
           /\ CacheFresh(cache', fetch', history, turns')
<1>1. PICK U : U = turns'
  OBVIOUS
<1>2. turns \in Seq(Turn)
  BY DEF Inv, StateOK
<1>3. /\ Len(U) = Len(turns) /\ U[t] = r
      /\ \A s \in 1..Len(turns) \ {t} : U[s] = turns[s]
  BY <1>1, <1>2, TurnMoves
<1>4. \A c \in Conversations : WillTell(turns, c) => WillTell(U, c)
  BY <1>3, WillTellMoves
<1>5. CacheFresh(cache, fetch, history, U)
  BY <1>4 DEF Inv, CacheFresh
<1>6. cache \in Caches /\ fetch \in Fetches /\ CacheBegins(cache, fetch, history)
  BY DEF Inv, StateOK, Caches, Fetches
<1> QED BY <1>1, <1>5, <1>6

LEMMA DropStep ==
    ASSUME Inv, NEW t \in Turns, Drop(t)
    PROVE  Inv'
<1> t \in 1..Len(turns)
  BY DEF Turns
<1>1. PICK R \in Turn : R = turns[t]
  BY ElementOfSeq DEF Inv, StateOK
<1>2. PICK r : r = [R EXCEPT !.service = "over"]
  OBVIOUS
<1>3. /\ r \in Turn /\ r.service = "over" /\ r.conversation = R.conversation /\ r.told = R.told
      /\ r.here = R.here /\ r.stream = R.stream /\ r.start = R.start /\ r.tokens = R.tokens
  BY <1>2 DEF Turn
<1>4. turns' = [turns EXCEPT ![t] = r]
  BY <1>1, <1>2 DEF Drop
<1>5. UNCHANGED <<page, heading, hook, history, cache, fetch>>
  BY DEF Drop
<1>6. /\ cache' \in Caches /\ fetch' \in Fetches
      /\ CacheBegins(cache', fetch', history) /\ CacheFresh(cache', fetch', history, turns')
  BY <1>1, <1>3, <1>4, <1>5, CacheStays
<1>7. hook \in Hook /\ heading \in Conversations \cup {None} /\ turns \in Seq(Turn)
      /\ R.told \in {None, R.conversation} /\ Screen(hook, turns, history)
  BY <1>1 DEF Inv, StateOK, Turns
<1>8. Alike(turns, turns')
  <2>1. PICK U : U = turns'
    OBVIOUS
  <2>2. /\ Len(U) = Len(turns) /\ U[t] = r
        /\ \A s \in 1..Len(turns) \ {t} : U[s] = turns[s]
    BY <1>3, <1>4, <1>7, <2>1, TurnMoves
  <2>3. Alike(turns, U)
    BY <1>1, <1>3, <2>2 DEF Alike
  <2> QED BY <2>1, <2>3
<1>9. Screen(hook, turns', history)
  BY <1>7, <1>8, ScreenOfAlike
<1>10. hook' = Drawn(page, hook, cache')
  BY <1>5, AtRest
<1> QED BY <1>1, <1>3, <1>4, <1>5, <1>6, <1>7, <1>9, <1>10, TurnStep

LEMMA TellStep ==
    ASSUME Inv, NEW t \in Turns, Tell(t)
    PROVE  Inv'
<1> t \in 1..Len(turns)
  BY DEF Turns
<1>1. PICK R \in Turn : R = turns[t]
  BY ElementOfSeq DEF Inv, StateOK
<1>2. PICK r : r = [R EXCEPT !.told = R.conversation]
  OBVIOUS
<1>3. /\ r \in Turn /\ r.service = R.service /\ r.conversation = R.conversation
      /\ r.told = R.conversation
      /\ r.here = R.here /\ r.stream = R.stream /\ r.start = R.start /\ r.tokens = R.tokens
  BY <1>2 DEF Turn
<1>4. turns' = [turns EXCEPT ![t] = r] /\ R.stream = "open"
  BY <1>1, <1>2 DEF Tell
<1>5. UNCHANGED <<page, heading, hook, history, cache, fetch>>
  BY DEF Tell
<1>6. /\ cache' \in Caches /\ fetch' \in Fetches
      /\ CacheBegins(cache', fetch', history) /\ CacheFresh(cache', fetch', history, turns')
  BY <1>1, <1>3, <1>4, <1>5, CacheStays
<1>7. hook \in Hook /\ heading \in Conversations \cup {None} /\ turns \in Seq(Turn)
      /\ Screen(hook, turns, history)
  BY <1>1 DEF Inv, StateOK, Turns
<1>8. Alike(turns, turns')
  <2>1. PICK U : U = turns'
    OBVIOUS
  <2>2. /\ Len(U) = Len(turns) /\ U[t] = r
        /\ \A s \in 1..Len(turns) \ {t} : U[s] = turns[s]
    BY <1>3, <1>4, <1>7, <2>1, TurnMoves
  <2>3. Alike(turns, U)
    BY <1>1, <1>3, <2>2 DEF Alike
  <2> QED BY <2>1, <2>3
<1>9. Screen(hook, turns', history)
  BY <1>7, <1>8, ScreenOfAlike
<1>10. hook' = Drawn(page, hook, cache')
  BY <1>5, AtRest
<1> QED BY <1>1, <1>3, <1>4, <1>5, <1>6, <1>7, <1>9, <1>10, TurnStep

\* The answer in the transcript, if it is there, follows its turn.
LEMMA Follows ==
    ASSUME Inv, NEW t \in 1..Len(turns), NEW r \in Turn, turns' = [turns EXCEPT ![t] = r],
           turns[t].stream = "open", r.here = turns[t].here, r.start = turns[t].start,
           NEW g \in Hook,
           turns[t].here =>
             /\ Patched(hook, g, t) /\ Counts(g, t, r.tokens)
             /\ r.stream = "open" => g.streaming = hook.streaming
             /\ r.stream # "open" => ~g.streaming /\ Ended(g, t)
    PROVE  Screen(IF turns[t].here THEN g ELSE hook, turns', history)
<1>1. PICK U : U = turns'
  OBVIOUS
<1>2. /\ turns \in Seq(Turn) /\ history \in Histories /\ hook \in Hook
      /\ Screen(hook, turns, history)
  BY DEF Inv, StateOK, Histories
<1>3. /\ U \in Seq(Turn) /\ Len(U) = Len(turns) /\ U[t] = r
      /\ \A s \in 1..Len(turns) \ {t} : U[s] = turns[s]
  BY <1>1, <1>2, TurnMoves
<1>4. CASE turns[t].here
  <2>1. Streams(turns, t)
    BY <1>4 DEF Streams
  <2>2. hook.streaming /\ \A s \in 1..Len(turns) : Streams(turns, s) => s = t
    BY <1>2, <2>1 DEF Screen, OneStreams
  <2>3. g.streaming <=> \E s \in 1..Len(U) : Streams(U, s)
    <3>1. CASE r.stream = "open"
      <4>1. Streams(U, t)
        BY <1>3, <1>4, <3>1 DEF Streams
      <4> QED BY <1>3, <1>4, <2>2, <3>1, <4>1
    <3>2. CASE r.stream # "open"
      <4>1. ~Streams(U, t)
        BY <1>3, <3>2 DEF Streams
      <4>2. \A s \in 1..Len(turns) \ {t} : Streams(U, s) <=> Streams(turns, s)
        BY <1>3 DEF Streams
      <4> QED BY <1>3, <1>4, <2>2, <3>2, <4>1, <4>2
    <3> QED BY <3>1, <3>2
  <2>4. Screen(g, U, history)
    BY <1>2, <1>3, <1>4, <2>3, PatchKeeps
  <2> QED BY <1>1, <1>4, <2>4
<1>5. CASE ~turns[t].here
  <2>1. Alike(turns, U)
    BY <1>3, <1>5 DEF Alike
  <2> QED BY <1>1, <1>2, <1>5, <2>1, ScreenOfAlike
<1> QED BY <1>4, <1>5

LEMMA TokenStep ==
    ASSUME Inv, NEW t \in Turns, Token(t)
    PROVE  Inv'
<1> t \in 1..Len(turns) /\ t \in Nat
  BY DEF Turns
<1>1. PICK R \in Turn : R = turns[t]
  BY ElementOfSeq DEF Inv, StateOK
<1>2. PICK r : r = [R EXCEPT !.tokens = R.tokens + 1]
  OBVIOUS
<1>3. /\ R.stream = "open" /\ R.tokens < MaxTokens /\ R.tokens \in Nat
      /\ R.tokens + 1 \in 0..MaxTokens
  <2>1. R.tokens \in 0..MaxTokens /\ MaxTokens \in Nat
    BY ChatAssumption DEF Turn
  <2> QED BY <1>1, <2>1 DEF Token
<1>4. /\ r \in Turn /\ r.service = R.service /\ r.conversation = R.conversation
      /\ r.told = R.told
      /\ r.here = R.here /\ r.stream = R.stream /\ r.start = R.start /\ r.tokens = R.tokens + 1
  BY <1>2, <1>3 DEF Turn
<1>5. turns' = [turns EXCEPT ![t] = r]
  BY <1>1, <1>2 DEF Token
<1>6. UNCHANGED <<page, heading, history, cache, fetch>>
  BY DEF Token
<1>7. /\ cache' \in Caches /\ fetch' \in Fetches
      /\ CacheBegins(cache', fetch', history) /\ CacheFresh(cache', fetch', history, turns')
  BY <1>1, <1>4, <1>5, <1>6, CacheStays
<1>8. /\ hook \in Hook /\ heading \in Conversations \cup {None} /\ turns \in Seq(Turn)
      /\ R.told \in {None, R.conversation} /\ Screen(hook, turns, history)
  BY <1>1 DEF Inv, StateOK, Turns
<1>9. /\ Tokened(hook, t) \in Hook /\ Patched(hook, Tokened(hook, t), t)
      /\ Tokened(hook, t).streaming = hook.streaming
      /\ Counts(Tokened(hook, t), t, r.tokens)
  <2>1. Counts(hook, t, R.tokens)
    BY <1>1, <1>8, AnswersCount
  <2> QED BY <1>3, <1>4, <1>8, <2>1, TokenedIs
<1>10. PICK h : h = IF R.here THEN Tokened(hook, t) ELSE hook
  OBVIOUS
<1>11. h \in Hook /\ Screen(h, turns', history)
  BY <1>1, <1>3, <1>4, <1>5, <1>8, <1>9, <1>10, Follows
<1>12. hook' = Drawn(page, h, cache')
  BY <1>1, <1>10 DEF Token, Rendered, Drawn, Tokened, Here
<1> QED BY <1>1, <1>4, <1>5, <1>6, <1>7, <1>8, <1>11, <1>12, TurnStep

LEMMA ErrorStep ==
    ASSUME Inv, NEW t \in Turns, ErrorEvent(t)
    PROVE  Inv'
<1> t \in 1..Len(turns) /\ t \in Nat
  BY DEF Turns
<1>1. PICK R \in Turn : R = turns[t]
  BY ElementOfSeq DEF Inv, StateOK
<1>2. PICK r : r = [R EXCEPT !.service = "over"]
  OBVIOUS
<1>3. R.stream = "open"
  BY <1>1 DEF ErrorEvent
<1>4. /\ r \in Turn /\ r.service = "over" /\ r.conversation = R.conversation
      /\ r.told = R.told
      /\ r.here = R.here /\ r.stream = R.stream /\ r.start = R.start /\ r.tokens = R.tokens
  BY <1>2 DEF Turn
<1>5. turns' = [turns EXCEPT ![t] = r]
  BY <1>1, <1>2 DEF ErrorEvent
<1>6. UNCHANGED <<page, heading, history, cache, fetch>>
  BY DEF ErrorEvent
<1>7. /\ cache' \in Caches /\ fetch' \in Fetches
      /\ CacheBegins(cache', fetch', history) /\ CacheFresh(cache', fetch', history, turns')
  BY <1>1, <1>4, <1>5, <1>6, CacheStays
<1>8. /\ hook \in Hook /\ heading \in Conversations \cup {None} /\ turns \in Seq(Turn)
      /\ R.told \in {None, R.conversation} /\ Screen(hook, turns, history)
  BY <1>1 DEF Inv, StateOK, Turns
<1>9. /\ Failed(hook, t) \in Hook /\ Patched(hook, Failed(hook, t), t)
      /\ Failed(hook, t).streaming = hook.streaming
      /\ Counts(Failed(hook, t), t, r.tokens)
  <2>1. Counts(hook, t, R.tokens)
    BY <1>1, <1>8, AnswersCount
  <2> QED BY <1>4, <1>8, <2>1, FailedIs
<1>10. PICK h : h = IF R.here THEN Failed(hook, t) ELSE hook
  OBVIOUS
<1>11. h \in Hook /\ Screen(h, turns', history)
  BY <1>1, <1>3, <1>4, <1>5, <1>8, <1>9, <1>10, Follows
<1>12. hook' = Drawn(page, h, cache')
  BY <1>1, <1>10 DEF ErrorEvent, Rendered, Drawn, Failed, Here
<1> QED BY <1>1, <1>4, <1>5, <1>6, <1>7, <1>8, <1>11, <1>12, TurnStep

-----------------------------------------------------------------------------
(* The end of a turn.                                                      *)

\* What is cached of c no longer counts as fresh, and what is on its way is
\* either known to be late or asked for now.
LEMMA InvalidateKeeps ==
    ASSUME Inv, NEW c \in Conversations \cup {None}, Invalidate(c)
    PROVE  /\ cache' \in Caches /\ fetch' \in Fetches
           /\ CacheBegins(cache', fetch', history)
           /\ \A d \in Conversations \ {c} : cache'[d] = cache[d] /\ fetch'[d] = fetch[d]
           /\ c # None => /\ cache'[c].data = None \/ cache'[c].stale
                          /\ fetch'[c] # None /\ ~fetch'[c].late => fetch'[c].answer = history[c]
<1>1. /\ cache \in Caches /\ fetch \in Fetches /\ history \in Histories
      /\ CacheBegins(cache, fetch, history)
  BY DEF Inv, StateOK, Caches, Fetches, Histories
<1>2. CASE c = None
  BY <1>1, <1>2 DEF Invalidate
<1>3. CASE c # None
  <2> c \in Conversations
    BY <1>3
  <2>1. PICK X \in Cached : X = cache[c]
    BY <1>1 DEF Caches
  <2>2. PICK Y \in Cached : Y = [data |-> X.data, stale |-> X.stale \/ X.data # None,
                                 late |-> X.late]
    BY DEF Cached
  <2>3. cache' = [cache EXCEPT ![c] = Y]
    <3>1. cache' = [cache EXCEPT ![c].stale = @ \/ cache[c].data # None]
      BY <1>3 DEF Invalidate
    <3>2. PICK Z : Z = [X EXCEPT !.stale = @ \/ X.data # None]
      OBVIOUS
    <3>3. Z = Y
      BY <2>2, <3>2 DEF Cached
    <3>4. cache' = [cache EXCEPT ![c] = Z]
      BY <2>1, <3>1, <3>2
    <3> QED BY <3>3, <3>4
  <2>4. cache' \in Caches /\ cache'[c] = Y /\ \A d \in Conversations \ {c} : cache'[d] = cache[d]
    BY <1>1, <2>3 DEF Caches
  <2>5. PICK again : again = (page = c /\ (cache[c].data # None \/ ~(fetch[c] # None)))
    OBVIOUS
  <2>6. PICK F \in Request \cup {None} :
          /\ fetch' = [fetch EXCEPT ![c] = F]
          /\ F # None => \/ F.answer = history[c] /\ ~F.late
                         \/ fetch[c] # None /\ F.answer = fetch[c].answer /\ F.late
    <3>1. fetch' = [fetch EXCEPT ![c] =
                      CASE again -> [answer |-> history[c], late |-> FALSE]
                        [] ~again /\ fetch[c] # None -> [fetch[c] EXCEPT !.late = TRUE]
                        [] OTHER -> None]
      BY <1>3, <2>5 DEF Invalidate
    <3>2. history[c] \in Data
      BY <1>1 DEF Histories
    <3>3. CASE again
      <4>1. PICK F \in Request : F = [answer |-> history[c], late |-> FALSE]
        BY <3>2 DEF Request
      <4>2. fetch' = [fetch EXCEPT ![c] = F]
        BY <3>1, <3>3, <4>1
      <4>3. F.answer = history[c] /\ ~F.late
        BY <4>1
      <4> QED BY <4>2, <4>3
    <3>4. CASE ~again /\ fetch[c] # None
      <4>1. PICK G \in Request : G = fetch[c]
        BY <1>1, <3>4 DEF Fetches
      <4>2. PICK F : F = [G EXCEPT !.late = TRUE]
        OBVIOUS
      <4>3. F \in Request /\ F.answer = G.answer /\ F.late
        BY <4>2 DEF Request
      <4>4. fetch' = [fetch EXCEPT ![c] = F]
        BY <3>1, <3>4, <4>1, <4>2
      <4> QED BY <3>4, <4>1, <4>3, <4>4
    <3>5. CASE ~again /\ fetch[c] = None
      <4>1. fetch' = [fetch EXCEPT ![c] = None]
        BY <3>1, <3>5
      <4> QED BY <4>1
    <3> QED BY <3>3, <3>4, <3>5
  <2>7. /\ fetch' \in Fetches /\ fetch'[c] = F
        /\ \A d \in Conversations \ {c} : fetch'[d] = fetch[d]
    BY <1>1, <2>6 DEF Fetches
  <2>8. F # None => Begins(F.answer, history[c])
    <3>1. Begins(history[c], history[c])
      BY <1>1, BeginsItself DEF Histories
    <3>2. fetch[c] # None => Begins(fetch[c].answer, history[c])
      BY <1>1 DEF CacheBegins
    <3> QED BY <2>6, <3>1, <3>2
  <2>9. CacheBegins(cache', fetch', history)
    <3>1. Y.data = X.data
      BY <2>2
    <3>2. Begins(cache'[c].data, history[c])
          /\ (fetch'[c] # None => Begins(fetch'[c].answer, history[c]))
      BY <1>1, <2>1, <2>4, <2>7, <2>8, <3>1 DEF CacheBegins
    <3>3. \A d \in Conversations \ {c} :
            /\ Begins(cache'[d].data, history[d])
            /\ fetch'[d] # None => Begins(fetch'[d].answer, history[d])
      BY <1>1, <2>4, <2>7 DEF CacheBegins
    <3> QED BY <3>2, <3>3 DEF CacheBegins
  <2>10. Y.data = None \/ Y.stale
    BY <2>2
  <2> QED BY <2>4, <2>6, <2>7, <2>9, <2>10
<1> QED BY <1>2, <1>3

LEMMA FinishStep ==
    ASSUME Inv, NEW t \in 1..Len(turns), NEW r \in Turn, turns' = [turns EXCEPT ![t] = r],
           turns[t].stream = "open", r.stream = "closed",
           r.conversation = turns[t].conversation, r.told = turns[t].told,
           r.here = turns[t].here, r.start = turns[t].start, r.tokens = turns[t].tokens,
           r.service \in {turns[t].service, "over"},
           page' = page, history' = history,
           NEW failed \in BOOLEAN, Finish(t, failed)
    PROVE  Inv'
<1> t \in Nat
  OBVIOUS
<1>1. PICK R \in Turn : R = turns[t]
  BY ElementOfSeq DEF Inv, StateOK
<1>2. PICK U : U = turns'
  OBVIOUS
<1>3. /\ hook \in Hook /\ heading \in Conversations \cup {None} /\ turns \in Seq(Turn)
      /\ R.told \in {None, R.conversation} /\ Screen(hook, turns, history)
  BY <1>1 DEF Inv, StateOK, Turns
<1>4. R.told \in Conversations \cup {None}
  BY DEF Turn
<1>5. heading' \in Conversations \cup {None}
  BY <1>1, <1>3, <1>4 DEF Finish
<1>6. /\ Len(U) = Len(turns) /\ U[t] = r
      /\ \A s \in 1..Len(turns) \ {t} : U[s] = turns[s]
  BY <1>2, <1>3, TurnMoves
<1>7. /\ cache' \in Caches /\ fetch' \in Fetches
      /\ CacheBegins(cache', fetch', history)
      /\ \A d \in Conversations \ {R.told} : cache'[d] = cache[d] /\ fetch'[d] = fetch[d]
      /\ R.told # None =>
           /\ cache'[R.told].data = None \/ cache'[R.told].stale
           /\ fetch'[R.told] # None /\ ~fetch'[R.told].late =>
                fetch'[R.told].answer = history[R.told]
  <2>1. Invalidate(R.told)
    BY <1>1 DEF Finish
  <2> QED BY <1>4, <2>1, InvalidateKeeps
<1>8. CacheFresh(cache', fetch', history, U)
  <2> SUFFICES ASSUME NEW d \in Conversations
               PROVE  /\ cache'[d].data # None /\ ~cache'[d].stale /\ ~cache'[d].late =>
                           cache'[d].data = history[d] \/ WillTell(U, d)
                      /\ fetch'[d] # None /\ ~fetch'[d].late =>
                           fetch'[d].answer = history[d] \/ WillTell(U, d)
    BY DEF CacheFresh
  <2>1. CASE d = R.told
    <3>1. R.told # None
      BY <2>1, ChatAssumption
    <3> QED BY <1>7, <2>1, <3>1
  <2>2. CASE d # R.told
    <3>1. cache'[d] = cache[d] /\ fetch'[d] = fetch[d]
      BY <1>7, <2>2
    <3>2. WillTell(turns, d) => WillTell(U, d)
      BY <1>1, <1>6, <2>2, WillTellMoves
    <3>3. /\ cache[d].data # None /\ ~cache[d].stale /\ ~cache[d].late =>
               cache[d].data = history[d] \/ WillTell(turns, d)
          /\ fetch[d] # None /\ ~fetch[d].late =>
               fetch[d].answer = history[d] \/ WillTell(turns, d)
      BY DEF Inv, CacheFresh
    <3> QED BY <3>1, <3>2, <3>3
  <2> QED BY <2>1, <2>2
<1>9. /\ Finished(hook, t, failed) \in Hook /\ Patched(hook, Finished(hook, t, failed), t)
      /\ ~Finished(hook, t, failed).streaming
      /\ Counts(Finished(hook, t, failed), t, r.tokens) /\ Ended(Finished(hook, t, failed), t)
  <2>1. Counts(hook, t, r.tokens)
    BY <1>3, AnswersCount
  <2> QED BY <1>3, <2>1, FinishedIs
<1>10. PICK h : h = IF R.here THEN Finished(hook, t, failed) ELSE hook
  OBVIOUS
<1>11. h \in Hook /\ Screen(h, turns', history)
  BY <1>1, <1>3, <1>9, <1>10, Follows
<1>12. hook' = Drawn(page, h, cache')
  BY <1>1, <1>10 DEF Finish, Rendered, Drawn, Finished, Here
<1>13. r.service = "answering" => turns[t].service = "answering"
  OBVIOUS
<1> QED BY <1>1, <1>2, <1>3, <1>5, <1>7, <1>8, <1>11, <1>12, <1>13, TurnStep

LEMMA CloseStep ==
    ASSUME Inv, NEW t \in Turns, Close(t)
    PROVE  Inv'
<1> t \in 1..Len(turns)
  BY DEF Turns
<1>1. PICK R \in Turn : R = turns[t]
  BY ElementOfSeq DEF Inv, StateOK
<1>2. PICK r : r = [R EXCEPT !.stream = "closed"]
  OBVIOUS
<1>3. /\ r \in Turn /\ r.service = R.service /\ r.conversation = R.conversation
      /\ r.told = R.told /\ r.stream = "closed"
      /\ r.here = R.here /\ r.start = R.start /\ r.tokens = R.tokens
  BY <1>2 DEF Turn
<1>4. turns' = [turns EXCEPT ![t] = r]
  BY <1>1, <1>2 DEF Close
<1>5. R.stream = "open" /\ Finish(t, R.service = "over") /\ page' = page /\ history' = history
  BY <1>1 DEF Close
<1> QED BY <1>1, <1>3, <1>4, <1>5, FinishStep

LEMMA RejectStep ==
    ASSUME Inv, NEW t \in Turns, Reject(t)
    PROVE  Inv'
<1> t \in 1..Len(turns)
  BY DEF Turns
<1>1. PICK R \in Turn : R = turns[t]
  BY ElementOfSeq DEF Inv, StateOK
<1>2. PICK r : r = [R EXCEPT !.stream = "closed", !.service = "over"]
  OBVIOUS
<1>3. /\ r \in Turn /\ r.service = "over" /\ r.conversation = R.conversation
      /\ r.told = R.told /\ r.stream = "closed"
      /\ r.here = R.here /\ r.start = R.start /\ r.tokens = R.tokens
  BY <1>2 DEF Turn
<1>4. turns' = [turns EXCEPT ![t] = r]
  BY <1>1, <1>2 DEF Reject
<1>5. R.stream = "open" /\ Finish(t, TRUE) /\ page' = page /\ history' = history
  BY <1>1 DEF Reject
<1> QED BY <1>1, <1>3, <1>4, <1>5, FinishStep

LEMMA BreakStep ==
    ASSUME Inv, NEW t \in Turns, Break(t)
    PROVE  Inv'
<1> t \in 1..Len(turns)
  BY DEF Turns
<1>1. PICK R \in Turn : R = turns[t]
  BY ElementOfSeq DEF Inv, StateOK
<1>2. PICK r : r = [R EXCEPT !.stream = "closed"]
  OBVIOUS
<1>3. /\ r \in Turn /\ r.service = R.service /\ r.conversation = R.conversation
      /\ r.told = R.told /\ r.stream = "closed"
      /\ r.here = R.here /\ r.start = R.start /\ r.tokens = R.tokens
  BY <1>2 DEF Turn
<1>4. turns' = [turns EXCEPT ![t] = r]
  BY <1>1, <1>2 DEF Break
<1>5. R.stream = "open" /\ Finish(t, TRUE) /\ page' = page /\ history' = history
  BY <1>1 DEF Break
<1> QED BY <1>1, <1>3, <1>4, <1>5, FinishStep

-----------------------------------------------------------------------------
(* What the service stores.                                                *)

\* An answer that lacks what was just stored, if nobody will say so.
Aged(x, b) == [x EXCEPT !.late = @ \/ b]

LEMMA AgedIs ==
    ASSUME NEW b \in BOOLEAN
    PROVE  /\ \A x \in Cached :
                /\ Aged(x, b) \in Cached /\ Aged(x, b).data = x.data
                /\ (Aged(x, b).late <=> x.late \/ b)
           /\ \A x \in Request \cup {None} :
                /\ Belated(x, b) \in Request \cup {None}
                /\ Belated(x, b) # None =>
                     /\ x # None /\ Belated(x, b).answer = x.answer
                     /\ Belated(x, b).late <=> x.late \/ b
<1>1. ASSUME NEW x \in Cached
      PROVE  /\ Aged(x, b) \in Cached /\ Aged(x, b).data = x.data
             /\ (Aged(x, b).late <=> x.late \/ b)
  <2>1. PICK y : y = Aged(x, b)
    OBVIOUS
  <2>2. y \in Cached
    BY <2>1 DEF Aged, Cached
  <2>3. y.data = x.data /\ (y.late <=> x.late \/ b)
    BY <2>1 DEF Aged, Cached
  <2> QED BY <2>1, <2>2, <2>3
<1>2. ASSUME NEW x \in Request
      PROVE  /\ Aged(x, b) \in Request /\ Aged(x, b).answer = x.answer
             /\ (Aged(x, b).late <=> x.late \/ b)
  <2>1. PICK y : y = Aged(x, b)
    OBVIOUS
  <2>2. y \in Request
    BY <2>1 DEF Aged, Request
  <2>3. y.answer = x.answer /\ (y.late <=> x.late \/ b)
    BY <2>1 DEF Aged, Request
  <2> QED BY <2>1, <2>2, <2>3
<1>3. \A x : Belated(x, b) = IF x = None THEN None ELSE Aged(x, b)
  BY DEF Belated, Aged
<1> QED BY <1>1, <1>2, <1>3

\* The service stores m in the conversation c, for a turn that is now r.
LEMMA StoreStep ==
    ASSUME Inv, NEW t \in 1..Len(turns), NEW r \in Turn, turns' = [turns EXCEPT ![t] = r],
           NEW c \in Conversations, turns[t].conversation \in {None, c}, r.conversation = c,
           r.told = turns[t].told, r.stream = turns[t].stream,
           r.here = turns[t].here, r.start = turns[t].start, r.tokens = turns[t].tokens,
           NEW m \in Stored, history' = [history EXCEPT ![c] = Append(Log(history[c]), m)],
           NEW b \in BOOLEAN, b <=> turns[t].stream = "closed",
           cache' = [cache EXCEPT ![c] = Aged(cache[c], b)],
           fetch' = [fetch EXCEPT ![c] = Belated(fetch[c], b)],
           page' = page, heading' = heading, hook' = hook
    PROVE  Inv'
<1>1. PICK R \in Turn : R = turns[t]
  BY ElementOfSeq DEF Inv, StateOK
<1>2. PICK U : U = turns'
  OBVIOUS
<1>3. PICK K : K = history'
  OBVIOUS
<1>4. /\ hook \in Hook /\ turns \in Seq(Turn) /\ Len(turns) <= MaxTurns
      /\ history \in Histories /\ cache \in Caches /\ fetch \in Fetches
      /\ page \in Pages /\ heading \in Conversations \cup {None}
      /\ \A s \in 1..Len(turns) : turns[s].told \in {None, turns[s].conversation}
      /\ Screen(hook, turns, history)
      /\ CacheBegins(cache, fetch, history) /\ CacheFresh(cache, fetch, history, turns)
  BY DEF Inv, StateOK, Turns, Histories, Caches, Fetches
<1>5. /\ U \in Seq(Turn) /\ Len(U) = Len(turns) /\ U[t] = r
      /\ \A s \in 1..Len(turns) \ {t} : U[s] = turns[s]
  BY <1>2, <1>4, TurnMoves
<1>6. /\ K \in Histories /\ K[c] # None /\ Begins(history[c], K[c])
      /\ \A d \in Conversations \ {c} : K[d] = history[d]
  <2>1. PICK l \in Data : l = Append(Log(history[c]), m) /\ l # None /\ Begins(history[c], l)
    BY <1>4, Stores DEF Histories
  <2>2. K = [history EXCEPT ![c] = l]
    BY <1>3, <2>1
  <2> QED BY <1>4, <2>1, <2>2 DEF Histories
<1>7. \A d \in Conversations : Begins(history[d], K[d])
  BY <1>4, <1>6, BeginsItself DEF Histories
<1>8. /\ cache' \in Caches /\ \A d \in Conversations \ {c} : cache'[d] = cache[d]
      /\ cache'[c].data = cache[c].data
      /\ cache'[c].late <=> cache[c].late \/ R.stream = "closed"
  <2>1. PICK x \in Cached : x = cache[c]
    BY <1>4 DEF Caches
  <2>2. PICK y \in Cached : y = Aged(x, b) /\ y.data = x.data /\ (y.late <=> x.late \/ b)
    BY AgedIs
  <2>3. cache' = [cache EXCEPT ![c] = y]
    BY <2>1, <2>2
  <2>4. /\ cache' \in Caches /\ cache'[c] = y
        /\ \A d \in Conversations \ {c} : cache'[d] = cache[d]
    BY <1>4, <2>3 DEF Caches
  <2> QED BY <1>1, <2>1, <2>2, <2>4
<1>9. /\ fetch' \in Fetches /\ \A d \in Conversations \ {c} : fetch'[d] = fetch[d]
      /\ fetch'[c] # None =>
           /\ fetch[c] # None /\ fetch'[c].answer = fetch[c].answer
           /\ fetch'[c].late <=> fetch[c].late \/ R.stream = "closed"
  <2>1. PICK x \in Request \cup {None} : x = fetch[c]
    BY <1>4 DEF Fetches
  <2>2. PICK y \in Request \cup {None} :
          /\ y = Belated(x, b)
          /\ y # None => x # None /\ y.answer = x.answer /\ (y.late <=> x.late \/ b)
    BY AgedIs
  <2>3. fetch' = [fetch EXCEPT ![c] = y]
    BY <2>1, <2>2
  <2>4. /\ fetch' \in Fetches /\ fetch'[c] = y
        /\ \A d \in Conversations \ {c} : fetch'[d] = fetch[d]
    BY <1>4, <2>3 DEF Fetches
  <2> QED BY <1>1, <2>1, <2>2, <2>4
<1>10. ServiceHolds(U, K)
  <2>1. \A d \in Conversations : history[d] # None => K[d] # None
    BY <1>6
  <2> QED BY <1>5, <1>6, <2>1 DEF Inv, ServiceHolds
<1>11. CacheBegins(cache', fetch', K)
  <2> SUFFICES ASSUME NEW d \in Conversations
               PROVE  /\ Begins(cache'[d].data, K[d])
                      /\ fetch'[d] # None => Begins(fetch'[d].answer, K[d])
    BY DEF CacheBegins
  <2>1. cache'[d].data = cache[d].data
        /\ (fetch'[d] # None => fetch[d] # None /\ fetch'[d].answer = fetch[d].answer)
    BY <1>8, <1>9
  <2>2. Begins(cache[d].data, history[d])
        /\ (fetch[d] # None => Begins(fetch[d].answer, history[d]))
    BY <1>4 DEF CacheBegins
  <2>3. cache[d].data \in Data /\ history[d] \in Data /\ K[d] \in Data
    BY <1>4, <1>6 DEF Caches, Cached, Histories
  <2>4. fetch[d] # None => fetch[d].answer \in Data
    BY <1>4 DEF Fetches, Request
  <2> QED BY <1>7, <2>1, <2>2, <2>3, <2>4, BeginsOn
<1>12. CacheFresh(cache', fetch', K, U)
  <2> SUFFICES ASSUME NEW d \in Conversations
               PROVE  /\ cache'[d].data # None /\ ~cache'[d].stale /\ ~cache'[d].late =>
                           cache'[d].data = K[d] \/ WillTell(U, d)
                      /\ fetch'[d] # None /\ ~fetch'[d].late =>
                           fetch'[d].answer = K[d] \/ WillTell(U, d)
    BY DEF CacheFresh
  <2>1. CASE d = c
    <3>1. R.stream # "closed" => WillTell(U, d)
      BY <1>1, <1>5, <2>1 DEF WillTell
    <3> QED BY <1>8, <1>9, <2>1, <3>1
  <2>2. CASE d # c
    <3>1. cache'[d] = cache[d] /\ fetch'[d] = fetch[d] /\ K[d] = history[d]
      BY <1>6, <1>8, <1>9, <2>2
    <3>2. WillTell(turns, d) => WillTell(U, d)
      <4>1. turns[t].conversation # d
        BY <2>2, ChatAssumption
      <4> QED BY <1>5, <4>1, WillTellMoves
    <3>3. /\ cache[d].data # None /\ ~cache[d].stale /\ ~cache[d].late =>
               cache[d].data = history[d] \/ WillTell(turns, d)
          /\ fetch[d] # None /\ ~fetch[d].late =>
               fetch[d].answer = history[d] \/ WillTell(turns, d)
      BY <1>4 DEF CacheFresh
    <3> QED BY <3>1, <3>2, <3>3
  <2> QED BY <2>1, <2>2
<1>13. Screen(hook, U, K)
  <2>1. Alike(turns, U)
    BY <1>5 DEF Alike
  <2> QED BY <1>4, <1>6, <1>7, <2>1, ScreenOfLonger, ScreenOfAlike
<1>14. InStep(hook, page, cache')
  <2>1. DataOf(page, cache') = DataOf(page, cache)
    BY <1>8 DEF DataOf
  <2> QED BY <2>1 DEF Inv, InStep
<1>15. Gone(page, U)
  BY <1>5 DEF Inv, Gone
<1>16. StateOK'
  <2>1. \A s \in 1..Len(U) : U[s].told \in {None, U[s].conversation}
    <3>1. turns[t].told \in {None, c}
      BY <1>4
    <3> QED BY <1>4, <1>5, <3>1
  <2> QED BY <1>2, <1>3, <1>4, <1>5, <1>6, <1>8, <1>9, <2>1
          DEF StateOK, Turns, Histories, Caches, Fetches
<1> QED BY <1>2, <1>3, <1>10, <1>11, <1>12, <1>13, <1>14, <1>15, <1>16 DEF Inv

LEMMA AcceptStep ==
    ASSUME Inv, NEW t \in Turns, Accept(t)
    PROVE  Inv'
<1> t \in 1..Len(turns)
  BY DEF Turns
<1>1. PICK R \in Turn : R = turns[t]
  BY ElementOfSeq DEF Inv, StateOK
<1>2. PICK c \in Conversations :
        /\ R.conversation \in {None, c}
        /\ history' = [history EXCEPT ![c] =
             Append(IF @ = None THEN <<>> ELSE @, Saved(Question(t, R.text)))]
        /\ turns' = [turns EXCEPT ![t].service = "answering", ![t].conversation = c]
        /\ cache' = [cache EXCEPT ![c].late = @ \/ R.stream = "closed"]
        /\ fetch' = [fetch EXCEPT ![c] = Belated(@, R.stream = "closed")]
  BY <1>1 DEF Accept
<1>3. PICK r : r = [R EXCEPT !.service = "answering", !.conversation = c]
  OBVIOUS
<1>4. /\ r \in Turn /\ r.conversation = c /\ r.told = R.told /\ r.stream = R.stream
      /\ r.here = R.here /\ r.start = R.start /\ r.tokens = R.tokens
  BY <1>3 DEF Turn
<1>5. turns' = [turns EXCEPT ![t] = r]
  BY <1>1, <1>2, <1>3
<1>6. PICK m \in Stored : m = Saved(Question(t, R.text))
  <2>1. t \in 1..MaxTurns
    BY ChatAssumption, LenProperties DEF Inv, StateOK
  <2>2. R.text \in Texts
    BY DEF Turn
  <2> QED BY <2>1, <2>2, QuestionType
<1>7. history' = [history EXCEPT ![c] = Append(Log(history[c]), m)]
  BY <1>2, <1>6 DEF Log
<1>8. page' = page /\ heading' = heading /\ hook' = hook
  BY DEF Accept
<1>9. PICK b \in BOOLEAN : b = (R.stream = "closed")
  OBVIOUS
<1>10. cache' = [cache EXCEPT ![c] = Aged(cache[c], b)]
  BY <1>2, <1>9 DEF Aged
<1>11. fetch' = [fetch EXCEPT ![c] = Belated(fetch[c], b)]
  BY <1>2, <1>9
<1>12. turns[t].conversation \in {None, c} /\ (b <=> turns[t].stream = "closed")
  BY <1>1, <1>2, <1>9
<1> QED BY <1>1, <1>4, <1>5, <1>7, <1>8, <1>10, <1>11, <1>12, StoreStep

LEMMA SaveStep ==
    ASSUME Inv, NEW t \in Turns, Save(t)
    PROVE  Inv'
<1> t \in 1..Len(turns)
  BY DEF Turns
<1>1. PICK R \in Turn : R = turns[t]
  BY ElementOfSeq DEF Inv, StateOK
<1>2. PICK c \in Conversations : c = R.conversation /\ history[c] # None
  BY <1>1 DEF Inv, ServiceHolds, Save
<1>3. PICK r : r = [R EXCEPT !.service = "saved"]
  OBVIOUS
<1>4. /\ r \in Turn /\ r.conversation = c /\ r.told = R.told /\ r.stream = R.stream
      /\ r.here = R.here /\ r.start = R.start /\ r.tokens = R.tokens
  BY <1>2, <1>3 DEF Turn
<1>5. turns' = [turns EXCEPT ![t] = r]
  BY <1>1, <1>3 DEF Save
<1>6. PICK m \in Stored : m = Saved(Answer(t, R.tokens, "complete"))
  <2>1. t \in 1..MaxTurns
    BY ChatAssumption, LenProperties DEF Inv, StateOK
  <2>2. R.tokens \in 0..MaxTokens
    BY DEF Turn
  <2> QED BY <2>1, <2>2, AnswerType
<1>7. history' = [history EXCEPT ![c] = Append(Log(history[c]), m)]
  <2>1. history' = [history EXCEPT ![c] = Append(@, m)]
    BY <1>1, <1>2, <1>6 DEF Save
  <2>2. Log(history[c]) = history[c]
    BY <1>2 DEF Log
  <2> QED BY <2>1, <2>2
<1>8. PICK b \in BOOLEAN : b = (R.stream = "closed")
  OBVIOUS
<1>9. cache' = [cache EXCEPT ![c] = Aged(cache[c], b)]
  BY <1>1, <1>2, <1>8 DEF Save, Aged
<1>10. fetch' = [fetch EXCEPT ![c] = Belated(fetch[c], b)]
  BY <1>1, <1>2, <1>8 DEF Save
<1>11. turns[t].conversation \in {None, c} /\ (b <=> turns[t].stream = "closed")
       /\ page' = page /\ heading' = heading /\ hook' = hook
  BY <1>1, <1>2, <1>8 DEF Save
<1> QED BY <1>1, <1>4, <1>5, <1>7, <1>9, <1>10, <1>11, StoreStep

-----------------------------------------------------------------------------
(* A turn begins.                                                          *)

LEMMA AskStep ==
    ASSUME Inv, page # Away, ~hook.streaming, NEW x \in Texts, NEW h \in Hook,
           h.page = hook.page, LocalHolds(h, turns), SavedHolds(h, history), Run(h, x)
    PROVE  Inv'
<1>1. PICK t : t = Len(turns) + 1
  OBVIOUS
<1>2. /\ page \in Conversations \cup {New} /\ hook.page = page
      /\ turns \in Seq(Turn) /\ Len(turns) \in Nat /\ Len(turns) <= MaxTurns
      /\ history \in Histories
      /\ \A s \in 1..Len(turns) : turns[s].told \in {None, turns[s].conversation}
  BY LenProperties DEF Inv, StateOK, Turns, Pages, Histories, InStep
<1>3. PICK r \in Turn : r = NewTurn(page, x)
  BY <1>2, NewTurnType
<1>4. /\ t <= MaxTurns /\ turns' = Append(turns, r) /\ hook' = Asked(h, t, x)
      /\ UNCHANGED <<page, heading, history, cache, fetch>>
  BY <1>1, <1>3 DEF Run, NewTurn, Asked, WithTurn
<1>5. PICK U : U = turns'
  OBVIOUS
<1>6. /\ U \in Seq(Turn) /\ Len(U) = t /\ U[t] = r
      /\ \A s \in 1..Len(turns) : U[s] = turns[s]
  BY <1>1, <1>2, <1>4, <1>5, AppendProperties
<1>7. \A s \in 1..t : s \in 1..Len(turns) \/ s = t
  BY <1>1, <1>2
<1>8. \A s \in 1..Len(turns) : s \in 1..t
  BY <1>1, <1>2
<1>9. r.service = "asked" /\ r.told = r.conversation
  BY <1>3 DEF NewTurn
<1>10. Screen(hook', U, history)
  <2>1. \A s \in 1..Len(turns) : ~Streams(turns, s)
    BY DEF Inv, Screen, OneStreams
  <2> QED BY <1>1, <1>2, <1>3, <1>4, <1>5, <2>1, AskedKeeps
<1>11. hook' \in Hook /\ hook'.streaming
  <2>1. t \in 1..MaxTurns
    BY <1>1, <1>2, <1>4, ChatAssumption
  <2>2. Len(h.messages) \in Nat
    BY HookType
  <2> QED BY <1>4, <2>1, <2>2, AskedMessages
<1>12. ServiceHolds(U, history)
  <2>1. \A s \in 1..Len(turns) : turns[s].service = "answering" =>
          turns[s].conversation \in Conversations /\ history[turns[s].conversation] # None
    BY DEF Inv, ServiceHolds
  <2> QED BY <1>6, <1>7, <1>9, <2>1 DEF ServiceHolds
<1>13. CacheFresh(cache, fetch, history, U)
  <2>1. \A c \in Conversations : WillTell(turns, c) => WillTell(U, c)
    BY <1>6, <1>8 DEF WillTell
  <2> QED BY <2>1 DEF Inv, CacheFresh
<1>14. StateOK'
  <2>1. \A s \in 1..t : U[s].told \in {None, U[s].conversation}
    BY <1>2, <1>6, <1>7, <1>9
  <2> QED BY <1>4, <1>5, <1>6, <1>11, <2>1 DEF Inv, StateOK, Turns
<1>15. InStep(hook', page, cache) /\ Gone(page, U)
  BY <1>11 DEF InStep, Gone
<1>16. CacheBegins(cache, fetch, history)
  BY DEF Inv
<1> QED BY <1>4, <1>5, <1>10, <1>12, <1>13, <1>14, <1>15, <1>16 DEF Inv

LEMMA SendStep ==
    ASSUME Inv, NEW x \in Texts, Send(x)
    PROVE  Inv'
<1>1. page # Away /\ ~hook.streaming /\ Run(hook, x)
  BY DEF Send, Mounted
<1>2. hook \in Hook /\ LocalHolds(hook, turns) /\ SavedHolds(hook, history)
  BY DEF Inv, StateOK, Screen
<1> QED BY <1>1, <1>2, AskStep

LEMMA RegenerateStep ==
    ASSUME Inv, Regenerate
    PROVE  Inv'
<1>1. page # Away /\ ~hook.streaming /\ Run(Cropped(hook), hook.last)
  BY DEF Regenerate, CanRegenerate, Listed, Mounted, Cropped
<1>2. hook.last \in Texts
  BY DEF Inv, StateOK, Hook, Regenerate
<1>3. hook.messages # <<>>
  <2>1. \E i \in 1..Len(hook.messages) : TRUE
    BY HookType DEF Inv, StateOK, Regenerate, CanRegenerate
  <2> QED BY <2>1, EmptySeq
<1>4. hook \in Hook /\ turns \in Seq(Turn) /\ history \in Histories /\ Screen(hook, turns, history)
  BY DEF Inv, StateOK, Histories
<1>5. /\ Cropped(hook) \in Hook /\ Cropped(hook).page = hook.page
      /\ LocalHolds(Cropped(hook), turns) /\ SavedHolds(Cropped(hook), history)
  BY <1>3, <1>4, CroppedKeeps
<1> QED BY <1>1, <1>2, <1>5, AskStep

-----------------------------------------------------------------------------
(* The user, and the cache.                                                *)

\* A hook that is mounted when no turn is anybody's.
LEMMA MountKeeps ==
    ASSUME NEW T \in Seq(Turn), NEW H \in Histories, NEW p \in Pages, NEW d \in Data,
           \A t \in 1..Len(T) : ~T[t].here,
           p \notin Conversations => d = None,
           p \in Conversations => Begins(d, H[p])
    PROVE  /\ Mount(p, d) \in Hook /\ Screen(Mount(p, d), T, H)
           /\ Mount(p, d).page = p /\ Mount(p, d).data = d
<1>1. PICK g : g = Mount(p, d)
  OBVIOUS
<1>2. /\ g.page = p /\ g.data = d /\ g.messages = <<>> /\ g.streaming = FALSE
      /\ g.blank = (d # None) /\ g.cut = FALSE
  BY <1>1 DEF Mount
<1>3. g \in Hook
  <2>1. <<>> \in Seq(Message) /\ (d # None) \in BOOLEAN
    BY EmptySeq
  <2> QED BY <1>1, <2>1 DEF Mount, Hook
<1>4. Len(g.messages) = 0
  BY <1>2, EmptySeq
<1>5. LocalHolds(g, T) /\ CutHolds(g)
  BY <1>2, <1>4 DEF LocalHolds, CutHolds
<1>6. OneStreams(g, T)
  BY <1>2 DEF OneStreams, Streams
<1>7. SavedHolds(g, H)
  <2>1. ~g.blank => ShownPart(g) = 0
    BY <1>2, EmptySeq DEF ShownPart, Log
  <2> QED BY <1>2, <1>4, <2>1 DEF SavedHolds
<1> QED BY <1>1, <1>2, <1>3, <1>5, <1>6, <1>7 DEF Screen

LEMMA VisitStep ==
    ASSUME Inv, NEW p \in Pages, Visit(p)
    PROVE  Inv'
<1>1. page' = p /\ heading' = None /\ UNCHANGED <<history, cache, fetch>>
  BY DEF Visit
<1>2. /\ hook \in Hook /\ turns \in Seq(Turn) /\ Len(turns) <= MaxTurns
      /\ \A s \in 1..Len(turns) : turns[s].told \in {None, turns[s].conversation}
      /\ history \in Histories /\ cache \in Caches /\ fetch \in Fetches
      /\ Screen(hook, turns, history)
      /\ \A c \in Conversations : Begins(cache[c].data, history[c])
  BY DEF Inv, StateOK, Turns, Histories, Caches, Fetches, CacheBegins
<1>3. /\ DataOf(p, cache) \in Data
      /\ p \notin Conversations => DataOf(p, cache) = None
      /\ p \in Conversations => Begins(DataOf(p, cache), history[p])
  BY <1>2 DEF DataOf, Caches, Cached, Data
<1>4. CASE Mounted /\ p # Away
  <2>1. hook' = Drawn(p, hook, cache) /\ turns' = turns
    BY <1>1, <1>4 DEF Visit, Rendered, Drawn
  <2>2. /\ hook' \in Hook /\ Screen(hook', turns, history) /\ InStep(hook', p, cache)
    BY <1>2, <2>1, DrawnKeeps DEF Caches
  <2>3. Gone(p, turns)
    BY <1>4 DEF Gone
  <2>4. StateOK'
    BY <1>1, <2>1, <2>2 DEF Inv, StateOK, Turns
  <2> QED BY <1>1, <2>1, <2>2, <2>3, <2>4 DEF Inv
<1>5. CASE Mounted /\ p = Away
  <2>1. hook' = Mount(Away, None) /\ turns' = [t \in Turns |-> [turns[t] EXCEPT !.here = FALSE]]
    BY <1>5 DEF Visit
  <2>2. PICK U : U = turns'
    OBVIOUS
  <2>3. PICK n \in Nat : n = Len(turns)
    BY <1>2, LenProperties
  <2>4. \A t \in 1..n : /\ U[t] \in Turn /\ ~U[t].here
                        /\ U[t].conversation = turns[t].conversation
                        /\ U[t].stream = turns[t].stream /\ U[t].told = turns[t].told
                        /\ U[t].service = turns[t].service
    <3> SUFFICES ASSUME NEW t \in 1..n
                 PROVE  /\ U[t] \in Turn /\ ~U[t].here
                        /\ U[t].conversation = turns[t].conversation
                        /\ U[t].stream = turns[t].stream /\ U[t].told = turns[t].told
                        /\ U[t].service = turns[t].service
      OBVIOUS
    <3>1. PICK R \in Turn : R = turns[t]
      BY <1>2, <2>3, ElementOfSeq
    <3>2. PICK r : r = [R EXCEPT !.here = FALSE]
      OBVIOUS
    <3>3. /\ r \in Turn /\ ~r.here /\ r.conversation = R.conversation /\ r.stream = R.stream
          /\ r.told = R.told /\ r.service = R.service
      BY <3>2 DEF Turn
    <3>4. U[t] = r
      BY <2>1, <2>2, <2>3, <3>1, <3>2 DEF Turns
    <3> QED BY <3>1, <3>3, <3>4
  <2>5. U \in Seq(Turn) /\ Len(U) = n
    <3>1. U \in [1..n -> Turn]
      BY <2>1, <2>2, <2>3, <2>4 DEF Turns
    <3>2. U \in Seq(Turn)
      BY <3>1, SeqDef
    <3> QED BY <3>1, <3>2, LenProperties
  <2>6. hook' \in Hook /\ Screen(hook', U, history)
    <3>1. Away \notin Conversations /\ Away \in Pages /\ None \in Data
      BY ChatAssumption DEF Pages, Data
    <3> QED BY <1>2, <2>1, <2>4, <2>5, <3>1, MountKeeps
  <2>7. ServiceHolds(U, history)
    BY <2>3, <2>4, <2>5 DEF Inv, ServiceHolds
  <2>8. CacheFresh(cache, fetch, history, U)
    <3>1. \A c \in Conversations : WillTell(turns, c) => WillTell(U, c)
      BY <2>3, <2>4, <2>5 DEF WillTell
    <3> QED BY <3>1 DEF Inv, CacheFresh
  <2>9. InStep(hook', p, cache) /\ Gone(p, U)
    BY <1>5, <2>4, <2>5 DEF InStep, Gone
  <2>10. StateOK'
    <3>1. \A t \in 1..Len(U) : U[t].told \in {None, U[t].conversation}
      BY <1>2, <2>3, <2>4, <2>5
    <3> QED BY <1>1, <1>2, <2>2, <2>3, <2>5, <2>6, <3>1 DEF Inv, StateOK, Turns
  <2> QED BY <1>1, <2>2, <2>6, <2>7, <2>8, <2>9, <2>10 DEF Inv
<1>6. CASE ~Mounted
  <2>1. hook' = Mount(p, DataOf(p, cache)) /\ turns' = turns
    BY <1>6 DEF Visit
  <2>2. \A t \in 1..Len(turns) : ~turns[t].here
    BY <1>6 DEF Mounted, Inv, Gone
  <2>3. /\ hook' \in Hook /\ Screen(hook', turns, history)
        /\ hook'.page = p /\ hook'.data = DataOf(p, cache)
    BY <1>2, <1>3, <2>1, <2>2, MountKeeps
  <2>4. InStep(hook', p, cache) /\ Gone(p, turns)
    BY <2>2, <2>3 DEF InStep, Gone
  <2>5. StateOK'
    BY <1>1, <2>1, <2>3 DEF Inv, StateOK, Turns
  <2> QED BY <1>1, <2>1, <2>3, <2>4, <2>5 DEF Inv
<1> QED BY <1>4, <1>5, <1>6

\* The cache moves, and a mounted hook renders what has come.
LEMMA CacheStep ==
    ASSUME Inv, UNCHANGED <<page, heading, turns, history>>,
           cache' \in Caches, fetch' \in Fetches,
           CacheBegins(cache', fetch', history), CacheFresh(cache', fetch', history, turns),
           hook' = Drawn(page, hook, cache')
    PROVE  Inv'
<1>1. /\ hook \in Hook /\ turns \in Seq(Turn) /\ history \in Histories /\ page \in Pages
      /\ Screen(hook, turns, history)
  BY DEF Inv, StateOK, Histories
<1>2. \A c \in Conversations : Begins(cache'[c].data, history[c])
  BY DEF CacheBegins
<1>3. hook' \in Hook /\ Screen(hook', turns, history) /\ InStep(hook', page, cache')
  BY <1>1, <1>2, DrawnKeeps DEF Caches
<1>4. StateOK'
  BY <1>3 DEF Inv, StateOK, Turns, Caches, Fetches
<1> QED BY <1>3, <1>4 DEF Inv

LEMMA StartFetchStep ==
    ASSUME Inv, NEW c \in Conversations, StartFetch(c)
    PROVE  Inv'
<1>1. UNCHANGED <<page, heading, hook, turns, history, cache>>
  BY DEF StartFetch
<1>2. /\ history[c] \in Data /\ cache \in Caches /\ fetch \in Fetches
      /\ CacheBegins(cache, fetch, history) /\ CacheFresh(cache, fetch, history, turns)
  BY DEF Inv, StateOK, Caches, Fetches
<1>3. PICK F \in Request : F = [answer |-> history[c], late |-> FALSE]
  BY <1>2 DEF Request
<1>4. fetch' = [fetch EXCEPT ![c] = F] /\ F.answer = history[c]
  BY <1>3 DEF StartFetch
<1>5. /\ fetch' \in Fetches /\ fetch'[c] = F
      /\ \A d \in Conversations \ {c} : fetch'[d] = fetch[d]
  BY <1>2, <1>4 DEF Fetches
<1>6. CacheBegins(cache, fetch', history)
  BY <1>2, <1>4, <1>5, BeginsItself DEF CacheBegins
<1>7. CacheFresh(cache, fetch', history, turns)
  BY <1>2, <1>4, <1>5 DEF CacheFresh
<1>8. hook' = Drawn(page, hook, cache')
  BY <1>1, AtRest
<1> QED BY <1>1, <1>2, <1>5, <1>6, <1>7, <1>8, CacheStep

LEMMA EndFetchStep ==
    ASSUME Inv, NEW c \in Conversations, EndFetch(c)
    PROVE  Inv'
<1>1. UNCHANGED <<page, heading, turns, history>> /\ fetch[c] # None
  BY DEF EndFetch
<1>2. /\ cache \in Caches /\ fetch \in Fetches
      /\ CacheBegins(cache, fetch, history) /\ CacheFresh(cache, fetch, history, turns)
  BY DEF Inv, StateOK, Caches, Fetches
<1>3. PICK F \in Request : F = fetch[c]
  BY <1>1, <1>2 DEF Fetches
<1>4. PICK X \in Cached : /\ X = [data |-> F.answer, stale |-> FALSE, late |-> F.late]
                          /\ X.data = F.answer /\ (X.late <=> F.late)
  <2>1. PICK X : X = [data |-> F.answer, stale |-> FALSE, late |-> F.late]
    OBVIOUS
  <2>2. F.answer \in Data /\ F.late \in BOOLEAN
    BY DEF Request
  <2>3. X \in Cached
    BY <2>1, <2>2 DEF Cached
  <2>4. X.data = F.answer /\ (X.late <=> F.late)
    BY <2>1, <2>2
  <2> QED BY <2>1, <2>3, <2>4
<1>5. cache' = [cache EXCEPT ![c] = X] /\ fetch' = [fetch EXCEPT ![c] = None]
  BY <1>3, <1>4 DEF EndFetch
<1>6. /\ cache' \in Caches /\ cache'[c] = X
      /\ \A d \in Conversations \ {c} : cache'[d] = cache[d]
  BY <1>2, <1>5 DEF Caches
<1>7. /\ fetch' \in Fetches /\ fetch'[c] = None
      /\ \A d \in Conversations \ {c} : fetch'[d] = fetch[d]
  BY <1>2, <1>5 DEF Fetches
<1>8. CacheBegins(cache', fetch', history)
  BY <1>1, <1>2, <1>3, <1>4, <1>6, <1>7 DEF CacheBegins
<1>9. CacheFresh(cache', fetch', history, turns)
  BY <1>1, <1>2, <1>3, <1>4, <1>6, <1>7 DEF CacheFresh
<1>10. hook' = Drawn(page, hook, cache')
  BY <1>1 DEF EndFetch, Rendered, Drawn
<1> QED BY <1>1, <1>6, <1>7, <1>8, <1>9, <1>10, CacheStep

LEMMA FailFetchStep ==
    ASSUME Inv, NEW c \in Conversations, FailFetch(c)
    PROVE  Inv'
<1>1. /\ UNCHANGED <<page, heading, hook, turns, history, cache>>
      /\ fetch' = [fetch EXCEPT ![c] = None]
  BY DEF FailFetch
<1>2. /\ cache \in Caches /\ fetch \in Fetches
      /\ CacheBegins(cache, fetch, history) /\ CacheFresh(cache, fetch, history, turns)
  BY DEF Inv, StateOK, Caches, Fetches
<1>3. /\ fetch' \in Fetches /\ fetch'[c] = None
      /\ \A d \in Conversations \ {c} : fetch'[d] = fetch[d]
  BY <1>1, <1>2 DEF Fetches
<1>4. CacheBegins(cache, fetch', history) /\ CacheFresh(cache, fetch', history, turns)
  BY <1>2, <1>3 DEF CacheBegins, CacheFresh
<1>5. hook' = Drawn(page, hook, cache')
  BY <1>1, AtRest
<1> QED BY <1>1, <1>2, <1>3, <1>4, <1>5, CacheStep

-----------------------------------------------------------------------------
(* Every step, and what follows.                                           *)

LEMMA InitHolds ==
    ASSUME Init
    PROVE  Inv
<1>1. /\ page = New /\ heading = None /\ hook = Mount(New, None) /\ turns = <<>>
      /\ history = [c \in Conversations |-> None]
      /\ cache = [c \in Conversations |-> Uncached]
      /\ fetch = [c \in Conversations |-> None]
  BY DEF Init
<1>2. /\ turns \in Seq(Turn) /\ Len(turns) = 0 /\ history \in Histories
      /\ cache \in Caches /\ fetch \in Fetches
  <2>1. None \in Data /\ Uncached \in Cached
    BY DEF Data, Uncached, Cached
  <2> QED BY <1>1, <2>1, EmptySeq DEF Histories, Caches, Fetches
<1>3. hook \in Hook /\ Screen(hook, turns, history) /\ hook.page = New /\ hook.data = None
  <2>1. New \in Pages /\ None \in Data /\ New \notin Conversations
    BY ChatAssumption DEF Pages, Data
  <2>2. \A t \in 1..Len(turns) : ~turns[t].here
    BY <1>2
  <2>3. /\ Mount(New, None) \in Hook /\ Screen(Mount(New, None), turns, history)
        /\ Mount(New, None).page = New /\ Mount(New, None).data = None
    BY <1>2, <2>1, <2>2, MountKeeps
  <2> QED BY <1>1, <2>3
<1>4. InStep(hook, page, cache)
  BY <1>1, <1>3, ChatAssumption DEF InStep, DataOf
<1>5. StateOK
  BY <1>1, <1>2, <1>3, ChatAssumption DEF StateOK, Turns, Pages, Histories, Caches, Fetches
<1>6. CacheBegins(cache, fetch, history)
  BY <1>1, <1>2, NoneBegins DEF CacheBegins, Uncached, Histories
<1>7. CacheFresh(cache, fetch, history, turns)
  BY <1>1 DEF CacheFresh, Uncached
<1>8. ServiceHolds(turns, history) /\ Gone(page, turns)
  BY <1>2 DEF ServiceHolds, Gone
<1> QED BY <1>3, <1>4, <1>5, <1>6, <1>7, <1>8 DEF Inv

LEMMA NextKeeps ==
    ASSUME Inv, [Next]_vars
    PROVE  Inv'
<1>1. CASE \E x \in Texts : Send(x)
  BY <1>1, SendStep
<1>2. CASE Regenerate
  BY <1>2, RegenerateStep
<1>3. CASE \E t \in Turns : Accept(t) \/ Save(t) \/ Drop(t)
  BY <1>3, AcceptStep, SaveStep, DropStep
<1>4. CASE \E t \in Turns : Tell(t) \/ Token(t) \/ ErrorEvent(t)
  BY <1>4, TellStep, TokenStep, ErrorStep
<1>5. CASE \E t \in Turns : Close(t) \/ Reject(t) \/ Break(t) \/ Stop(t)
  BY <1>5, CloseStep, RejectStep, BreakStep DEF Stop
<1>6. CASE \E p \in Conversations \cup {New, Away} : Go(p)
  BY <1>6, VisitStep DEF Go, Pages
<1>7. CASE Arrive
  <2>1. heading \in Pages
    BY <1>7 DEF Inv, StateOK, Arrive, Pages
  <2> QED BY <1>7, <2>1, VisitStep DEF Arrive
<1>8. CASE \E c \in Conversations : StartFetch(c) \/ EndFetch(c) \/ FailFetch(c)
  BY <1>8, StartFetchStep, EndFetchStep, FailFetchStep
<1>9. CASE UNCHANGED vars
  <2>1. UNCHANGED <<page, heading, hook, turns, history, cache, fetch>>
    BY <1>9 DEF vars
  <2>2. StateOK'
    BY <2>1 DEF Inv, StateOK, Turns
  <2> QED BY <2>1, <2>2 DEF Inv
<1> QED BY <1>1, <1>2, <1>3, <1>4, <1>5, <1>6, <1>7, <1>8, <1>9 DEF Next

LEMMA Invariance == Spec => []Inv
<1>1. Init => Inv
  BY InitHolds
<1>2. Inv /\ [Next]_vars => Inv'
  BY NextKeeps
<1> QED BY <1>1, <1>2, PTL DEF Spec

\* Only what is a conversation fails to load.
FailingOK == failing \in SUBSET Conversations

LEMMA FailingKeeps ==
    ASSUME FailingOK, [Next]_vars
    PROVE  FailingOK'
<1>1. CASE (\E x \in Texts : Send(x)) \/ Regenerate
  BY <1>1 DEF Send, Regenerate, Run, FailingOK
<1>2. CASE \E t \in Turns : Accept(t) \/ Save(t) \/ Drop(t)
  BY <1>2 DEF Accept, Save, Drop, FailingOK
<1>3. CASE \E t \in Turns : Tell(t) \/ Token(t) \/ ErrorEvent(t)
  BY <1>3 DEF Tell, Token, ErrorEvent, FailingOK
<1>4. CASE \E t \in Turns : Close(t) \/ Reject(t) \/ Break(t) \/ Stop(t)
  <2>1. PICK c : Invalidate(c)
    BY <1>4 DEF Close, Reject, Break, Stop, Finish
  <2> QED BY <2>1 DEF Invalidate, Retried, FailingOK
<1>5. CASE (\E p \in Conversations \cup {New, Away} : Go(p)) \/ Arrive
  BY <1>5 DEF Go, Arrive, Visit, Retried, FailingOK
<1>6. CASE \E c \in Conversations : StartFetch(c) \/ EndFetch(c) \/ FailFetch(c)
  BY <1>6 DEF StartFetch, EndFetch, FailFetch, Retried, FailingOK
<1>7. CASE UNCHANGED vars
  BY <1>7 DEF vars, FailingOK
<1> QED BY <1>1, <1>2, <1>3, <1>4, <1>5, <1>6, <1>7 DEF Next

\* Every variable of the browser stays in its type: no turn and no token past
\* the bound, and a regeneration only of a question that was sent.
THEOREM TypesHold == Spec => []TypeOK
<1>1. Inv => StateOK
  BY DEF Inv
<1>2. Init => FailingOK
  BY DEF Init, FailingOK
<1>3. FailingOK /\ [Next]_vars => FailingOK'
  BY FailingKeeps DEF FailingOK
<1>4. StateOK /\ FailingOK => TypeOK
  BY DEF TypeOK, FailingOK
<1> QED BY <1>1, <1>2, <1>3, <1>4, Invariance, PTL DEF Spec

\* What useChatConversation leaves in the transcript when nothing streams is of the
\* conversation the page shows, wherever the user went while it streamed.
THEOREM TranscriptIsOwn == Spec => []OwnTranscript
<1>1. Inv => OwnTranscript
  <2> SUFFICES ASSUME Inv, Mounted, ~hook.streaming, NEW i \in DOMAIN hook.messages
               PROVE  IF IsSaved(hook.messages[i])
                      THEN page \in Conversations /\ Contains(history[page], hook.messages[i])
                      ELSE turns[hook.messages[i].is.turn].start = page
    BY DEF OwnTranscript
  <2>1. hook \in Hook /\ history \in Histories /\ Screen(hook, turns, history)
        /\ hook.page = page
    BY DEF Inv, StateOK, Histories, InStep, Mounted
  <2>2. i \in 1..Len(hook.messages)
    BY <2>1, HookType
  <2>3. CASE ~IsSaved(hook.messages[i])
    BY <2>1, <2>2, <2>3 DEF Screen, LocalHolds
  <2>4. CASE IsSaved(hook.messages[i])
    <3>1. /\ i <= Len(Log(hook.data)) /\ hook.messages[i] = Log(hook.data)[i]
          /\ page \notin Conversations => hook.data = None
          /\ page \in Conversations => Begins(hook.data, history[page])
      BY <2>1, <2>2, <2>4 DEF Screen, SavedHolds
    <3>2. PICK n \in Nat : n = Len(Log(hook.data))
      BY <2>1, HookType, LogType
    <3>3. i \in 1..n
      BY <2>1, <2>2, <3>1, <3>2, HookType
    <3>4. hook.data # None
      BY <3>2, <3>3, EmptySeq DEF Log
    <3>5. page \in Conversations
      BY <3>1, <3>4
    <3>6. PICK x \in Data : x = history[page]
      BY <2>1, <3>5 DEF Histories
    <3>7. n <= Len(Log(x)) /\ Log(hook.data)[i] = Log(x)[i]
      BY <3>1, <3>2, <3>3, <3>5, <3>6 DEF Begins
    <3>8. i \in 1..Len(Log(x))
      BY <3>3, <3>7, LogType
    <3>9. x # None
      BY <3>8, EmptySeq DEF Log
    <3>10. Log(x) = x
      BY <3>9 DEF Log
    <3>11. i \in 1..Len(x) /\ hook.messages[i] = x[i]
      BY <3>1, <3>7, <3>8, <3>10
    <3>12. Contains(x, hook.messages[i])
      BY <3>11 DEF Contains
    <3> QED BY <2>4, <3>5, <3>6, <3>12
  <2> QED BY <2>3, <2>4
<1> QED BY <1>1, Invariance, PTL

\* The hook streams when one turn of its own does, and no message goes on
\* looking unfinished after its turn was closed, rejected, broken or stopped.
THEOREM NoGhosts == Spec => []NoGhostAnswer
<1>1. Inv => NoGhostAnswer
  <2> SUFFICES ASSUME Inv, Mounted
               PROVE  /\ hook.streaming <=> \E t \in Turns : Here(t) /\ turns[t].stream = "open"
                      /\ \A i \in DOMAIN hook.messages :
                           hook.messages[i].is.status = "streaming" =>
                             turns[hook.messages[i].is.turn].stream = "open"
    BY DEF NoGhostAnswer
  <2>1. hook \in Hook /\ history \in Histories /\ Screen(hook, turns, history)
    BY DEF Inv, StateOK, Histories
  <2>2. hook.streaming <=> \E t \in Turns : Here(t) /\ turns[t].stream = "open"
    BY <2>1 DEF Screen, OneStreams, Streams, Turns, Here
  <2>3. ASSUME NEW i \in DOMAIN hook.messages, hook.messages[i].is.status = "streaming"
        PROVE  turns[hook.messages[i].is.turn].stream = "open"
    <3>1. i \in 1..Len(hook.messages)
      BY <2>1, HookType
    <3>2. CASE ~IsSaved(hook.messages[i])
      BY <2>1, <2>3, <3>1, <3>2 DEF Screen, LocalHolds
    <3>3. CASE IsSaved(hook.messages[i])
      <4>1. i \in 1..Len(Log(hook.data)) /\ hook.messages[i] = Log(hook.data)[i]
        <5>1. i <= Len(Log(hook.data)) /\ hook.messages[i] = Log(hook.data)[i]
          BY <2>1, <3>1, <3>3 DEF Screen, SavedHolds
        <5> QED BY <2>1, <3>1, <5>1, HookType, LogType
      <4>2. hook.messages[i].is.status = "complete"
        BY <2>1, <4>1, HookType, LogType, StoredIsSaved
      <4> QED BY <2>3, <4>2
    <3> QED BY <3>2, <3>3
  <2> QED BY <2>2, <2>3
<1> QED BY <1>1, Invariance, PTL

\* When every turn of the conversation is over and the cache counts as fresh,
\* the page shows the history of the service, in order and whole.
THEOREM HistoryIsShown == Spec => []SettledShowsHistory
<1>1. Inv => SettledShowsHistory
  <2> SUFFICES ASSUME Inv, Settled, ~cache[page].late, ~hook.blank
               PROVE  \/ Shows(hook.messages, history[page])
                      \/ hook.cut /\ Shows(hook.messages, Front(history[page]))
    BY DEF SettledShowsHistory
  <2>1. /\ page \in Conversations /\ ~hook.streaming
        /\ cache[page].data # None /\ ~cache[page].stale
        /\ \A t \in 1..Len(turns) : turns[t].conversation = page =>
             turns[t].stream = "closed" /\ turns[t].told = page
    BY DEF Settled, Turns
  <2>2. /\ hook \in Hook /\ history \in Histories /\ Screen(hook, turns, history)
        /\ CacheFresh(cache, fetch, history, turns) /\ InStep(hook, page, cache)
    BY DEF Inv, StateOK, Histories
  <2>3. ~WillTell(turns, page)
    BY <2>1 DEF WillTell
  <2>4. cache[page].data = history[page]
    BY <2>1, <2>2, <2>3 DEF CacheFresh
  <2>5. page # Away
    BY <2>1, ChatAssumption
  <2>6. hook.data = history[page] /\ hook.page = page
    BY <2>1, <2>2, <2>4, <2>5 DEF InStep, DataOf
  <2>7. PICK x \in Seq(Stored) : x = history[page] /\ Log(hook.data) = x
    BY <2>1, <2>2, <2>4, <2>6 DEF Histories, Data, Log
  <2>8. PICK n \in Nat : n = Len(x)
    BY LenProperties
  <2>9. PICK k \in Nat : k = Len(hook.messages)
    BY <2>2, HookType
  <2>10. /\ \A i \in 1..k : IsSaved(hook.messages[i]) => i <= n /\ hook.messages[i] = x[i]
         /\ ShownPart(hook) <= k
         /\ \A i \in 1..ShownPart(hook) : hook.messages[i] = x[i]
    BY <2>2, <2>7, <2>8, <2>9 DEF Screen, SavedHolds
  <2>11. DOMAIN hook.messages = 1..k /\ DOMAIN x = 1..n
    BY <2>2, <2>8, <2>9, HookType, LenProperties
  <2>12. CASE ~hook.cut
    <3>1. ShownPart(hook) = n
      BY <2>7, <2>8, <2>12 DEF ShownPart
    <3> QED BY <2>7, <2>10, <2>11, <3>1 DEF Shows
  <2>13. CASE hook.cut
    <3>1. ShownPart(hook) = n - 1
      BY <2>7, <2>8, <2>13 DEF ShownPart
    <3>2. CASE n = 0 \/ (n <= k /\ IsSaved(hook.messages[n]))
      <4>1. n # 0 => hook.messages[n] = x[n]
        BY <2>10, <3>2
      <4>2. \A i \in 1..n : i \in 1..k /\ hook.messages[i] = x[i]
        BY <2>10, <3>1, <3>2, <4>1
      <4>3. Shows(hook.messages, x)
        BY <2>10, <2>11, <4>2 DEF Shows
      <4> QED BY <2>7, <4>3
    <3>3. CASE ~(n = 0 \/ (n <= k /\ IsSaved(hook.messages[n])))
      <4>1. \A i \in 1..n : x[i] \in Stored
        BY <2>8, ElementOfSeq
      <4>2. Front(x) = SubSeq(x, 1, n - 1)
        BY <2>8 DEF Front
      <4>3. /\ Len(SubSeq(x, 1, n - 1)) = IF 1 <= n - 1 THEN (n - 1) - 1 + 1 ELSE 0
            /\ SubSeq(x, 1, n - 1) \in Seq(Stored)
            /\ \A i \in 1..((n - 1) - 1 + 1) : SubSeq(x, 1, n - 1)[i] = x[1 + i - 1]
        BY <3>3, <4>1, SubSeqProperties
      <4>4. PICK y \in Seq(Stored) : /\ y = Front(x) /\ Len(y) = n - 1
                                     /\ \A i \in 1..(n - 1) : y[i] = x[i]
        <5>1. PICK y : y = SubSeq(x, 1, n - 1)
          OBVIOUS
        <5>2. y \in Seq(Stored) /\ Len(y) = n - 1
          BY <3>3, <4>3, <5>1
        <5>3. \A i \in 1..(n - 1) : y[i] = x[i]
          BY <3>3, <4>3, <5>1
        <5> QED BY <4>2, <5>1, <5>2, <5>3
      <4>5. DOMAIN y = 1..(n - 1)
        BY <4>4, LenProperties
      <4>6. \A i \in 1..k : IsSaved(hook.messages[i]) => i \in 1..(n - 1)
        BY <2>10, <3>3
      <4>7. \A i \in 1..(n - 1) : i \in 1..k /\ hook.messages[i] = y[i]
        BY <2>10, <3>1, <4>4
      <4>8. Shows(hook.messages, y)
        BY <2>11, <4>5, <4>6, <4>7 DEF Shows
      <4> QED BY <2>7, <2>13, <4>4, <4>8
    <3> QED BY <3>2, <3>3
  <2> QED BY <2>12, <2>13
<1> QED BY <1>1, Invariance, PTL

\* No turn is forgotten.
LEMMA TurnsRemain ==
    ASSUME Inv, Inv', [Next]_vars
    PROVE  Turns \subseteq Turns'
<1>1. /\ turns \in Seq(Turn) /\ turns' \in Seq(Turn) /\ Len(turns) \in Nat
      /\ DOMAIN turns = 1..Len(turns) /\ DOMAIN turns' = 1..Len(turns')
  BY LenProperties DEF Inv, StateOK
<1>2. DOMAIN turns \subseteq DOMAIN turns'
  <2>1. ASSUME NEW r, turns' = Append(turns, r)
        PROVE  DOMAIN turns \subseteq DOMAIN turns'
    <3>1. DOMAIN Append(turns, r) = 1..(Len(turns) + 1)
      BY <1>1 DEF Append
    <3> QED BY <1>1, <2>1, <3>1
  <2>2. CASE (\E x \in Texts : Send(x)) \/ Regenerate
    BY <2>1, <2>2 DEF Send, Regenerate, Run
  <2>3. CASE \E t \in Turns : Accept(t) \/ Save(t) \/ Drop(t)
    BY <2>3 DEF Accept, Save, Drop
  <2>4. CASE \E t \in Turns : Tell(t) \/ Token(t) \/ ErrorEvent(t)
    BY <2>4 DEF Tell, Token, ErrorEvent
  <2>5. CASE \E t \in Turns : Close(t) \/ Reject(t) \/ Break(t) \/ Stop(t)
    BY <2>5 DEF Close, Reject, Break, Stop
  <2>6. ASSUME NEW p \in Pages, Visit(p)
        PROVE  DOMAIN turns \subseteq DOMAIN turns'
    <3>1. CASE Mounted /\ p = Away
      BY <1>1, <2>6, <3>1 DEF Visit, Turns
    <3>2. CASE ~(Mounted /\ p = Away)
      BY <2>6, <3>2 DEF Visit
    <3> QED BY <3>1, <3>2
  <2>7. CASE \E p \in Conversations \cup {New, Away} : Go(p)
    BY <2>6, <2>7 DEF Go, Pages
  <2>8. CASE Arrive
    BY <2>6, <2>8 DEF Inv, StateOK, Arrive, Pages
  <2>9. CASE \E c \in Conversations : StartFetch(c) \/ EndFetch(c) \/ FailFetch(c)
    BY <2>9 DEF StartFetch, EndFetch, FailFetch
  <2>10. CASE UNCHANGED vars
    BY <2>10 DEF vars
  <2> QED BY <2>2, <2>3, <2>4, <2>5, <2>7, <2>8, <2>9, <2>10 DEF Next
<1> QED BY <1>1, <1>2 DEF Turns

\* No step of the service, the cache, the router or the user takes from the
\* hook's transcript what has arrived of an answer that is still being written:
\* whenever ChatPage lists the messages of a mounted hook, they are among them.
THEOREM TokensStay == Spec => TokensSurvive
<1>1. Inv /\ Inv' /\ [Next]_vars =>
        [\A t \in Turns :
           Here(t) /\ Here(t)' /\ turns'[t].stream = "open" =>
             \E i \in DOMAIN hook'.messages :
               /\ hook'.messages[i].is.turn = t
               /\ hook'.messages[i].is.role = "assistant"
               /\ hook'.messages[i].is.tokens = turns'[t].tokens]_vars
  <2> SUFFICES ASSUME Inv, Inv', [Next]_vars,
                      NEW t \in Turns, Here(t)', turns'[t].stream = "open"
               PROVE  \E i \in DOMAIN hook'.messages :
                        /\ hook'.messages[i].is.turn = t
                        /\ hook'.messages[i].is.role = "assistant"
                        /\ hook'.messages[i].is.tokens = turns'[t].tokens
    OBVIOUS
  <2>1. PICK h : h = hook'
    OBVIOUS
  <2>2. PICK T : T = turns'
    OBVIOUS
  <2>3. h \in Hook /\ LocalHolds(h, T) /\ OneStreams(h, T)
    BY <2>1, <2>2 DEF Inv, StateOK, Screen
  <2>4. t \in 1..Len(T)
    BY <2>2, TurnsRemain DEF Turns
  <2>5. Streams(T, t)
    BY <2>2 DEF Here, Streams
  <2>6. PICK i \in 1..Len(h.messages) : IsAnswer(h.messages[i], t)
    BY <2>3, <2>4, <2>5 DEF OneStreams
  <2>7. /\ h.messages[i].is.turn = t /\ h.messages[i].is.role = "assistant"
        /\ h.messages[i].is.tokens = T[t].tokens
    BY <2>3, <2>6 DEF LocalHolds, IsAnswer
  <2>8. i \in DOMAIN h.messages
    BY <2>3, <2>6, HookType
  <2> QED BY <2>1, <2>2, <2>7, <2>8
<1> QED BY <1>1, Invariance, PTL DEF Spec, TokensSurvive
=============================================================================
