---------------------------- MODULE ChatSession ----------------------------
(***************************************************************************)
(* useChatConversation and streamChatMessage: the transcript on the page   *)
(* of one browser, between a stream of tokens, the cached history of each  *)
(* conversation and a user who sends, regenerates, stops and walks away.   *)
(*                                                                         *)
(* A question and its answer are a turn.  The hook keeps the transcript in *)
(* state of its own, copies the history into it whenever it renders with   *)
(* another conversation or other data, and leaves it alone while a turn    *)
(* streams.  A turn outlives the page it was started from.  ChatPage shows *)
(* something else in its place while a first history is on its way and     *)
(* after a request for it has failed.                                      *)
(*                                                                         *)
(* The chat service and the query cache (TanStack) are not part of the     *)
(* repository; they are modelled from what hooks.ts asks of them.          *)
(***************************************************************************)
EXTENDS Naturals, Sequences, FiniteSets, SequencesExt

CONSTANTS
    Conversations,  \* ids the service gives out
    Texts,          \* what a user can ask
    MaxTurns,       \* bound on the turns of a session
    MaxTokens,      \* bound on the tokens of an answer
    MaxFailing,     \* bound on the conversations that show an error at once
    New,            \* the page /chat, without a conversation
    Away,           \* any page that is no chat
    None            \* no data, no conversation, no text

Pages == Conversations \cup {New, Away}

\* A question and an answer, in the transcript or at the service.
MessageOf(ids, statuses) ==
    [id : ids,
     is : [role : {"user", "assistant"}, turn : 1..MaxTurns, text : Texts \cup {None},
           tokens : 0..MaxTokens, status : statuses]]

Message == MessageOf({"local", "saved"}, {"complete", "streaming", "error"})
Stored == MessageOf({"saved"}, {"complete"})

\* A history, or none.
Data == Seq(Stored) \cup {None}

\* A request for a history: the answer it will get, and whether that is known
\* to lack what the service has by now.
Request == [answer : Data, late : BOOLEAN]

ASSUME ChatAssumption ==
    /\ New \notin Conversations /\ Away \notin Conversations \cup {New}
    /\ None \notin Conversations \cup Seq(Stored) \cup Request
    /\ MaxTurns \in Nat /\ MaxTokens \in Nat /\ MaxFailing \in Nat

VARIABLES
    page,     \* where the router is
    heading,  \* where a navigation that has not taken place yet leads
    hook,     \* the state and the refs of the mounted hook
    turns,    \* every turn: its stream and what the service made of it
    history,  \* what the service has, by conversation
    cache,    \* what the query cache has, by conversation
    fetch,    \* the history requests under way, by conversation
    failing   \* the conversations whose last history request failed, as far as shown

vars == <<page, heading, hook, turns, history, cache, fetch, failing>>

Mounted == page # Away
Turns == 1..Len(turns)

\* The hook of a page that is mounted now: an empty transcript, and what is
\* cached counts as shown.
Mount(p, data) ==
    [page |-> p, data |-> data, messages |-> <<>>, streaming |-> FALSE,
     last |-> None, blank |-> data # None, cut |-> FALSE]

Uncached == [data |-> None, stale |-> FALSE, late |-> FALSE]

Question(t, x) == [role |-> "user", turn |-> t, text |-> x, tokens |-> 0, status |-> "complete"]
Answer(t, n, s) == [role |-> "assistant", turn |-> t, text |-> None, tokens |-> n, status |-> s]

\* Messages carry other ids here and at the service.
Local(m) == [id |-> "local", is |-> m]
Saved(m) == [id |-> "saved", is |-> m]

IsSaved(m) == m.id = "saved"

DataOf(p, cached) == IF p \in Conversations THEN cached[p].data ELSE None

-----------------------------------------------------------------------------
Shown(h, p, data) ==
    [h EXCEPT !.page = p, !.data = data, !.messages = IF data = None THEN <<>> ELSE data,
              !.blank = FALSE, !.cut = FALSE]

\* A render that shows whatever the cache has.
RenderAlways(h, p, data) ==
    IF h.page # p \/ h.data # data THEN Shown(h, p, data) ELSE h

\* A render that looks at the data alone.
RenderByData(h, p, data) ==
    IF ~h.streaming /\ h.data # data THEN Shown(h, p, data) ELSE h

\* What a render does to the state: unless a turn streams, another conversation
\* or other data replace the transcript.
Render(h, p, data) ==
    IF ~h.streaming /\ (h.page # p \/ h.data # data) THEN Shown(h, p, data) ELSE h

Rendered(p, h) == hook' = IF p = Away THEN h ELSE Render(h, p, DataOf(p, cache'))

\* The hook that started turn t is still mounted.
Here(t) == turns[t].here

\* The answer of turn t changed by Op, if it is in the transcript at all.
Patch(h, t, Op(_)) ==
    [h EXCEPT !.messages = [i \in DOMAIN @ |->
       IF @[i].id = "local" /\ @[i].is.role = "assistant" /\ @[i].is.turn = t
       THEN Local(Op(@[i].is)) ELSE @[i]]]

-----------------------------------------------------------------------------
Init ==
    /\ page = New
    /\ heading = None
    /\ hook = Mount(New, None)
    /\ turns = <<>>
    /\ history = [c \in Conversations |-> None]
    /\ cache = [c \in Conversations |-> Uncached]
    /\ fetch = [c \in Conversations |-> None]
    /\ failing = {}

\* runStream: two messages in the transcript, and a request.
Run(h, x) ==
    LET t == Len(turns) + 1 IN
    /\ t <= MaxTurns
    /\ turns' = Append(turns,
         [start |-> page, text |-> x, here |-> TRUE, stream |-> "open",
          service |-> "asked", conversation |-> IF page = New THEN None ELSE page,
          told |-> IF page = New THEN None ELSE page, tokens |-> 0])
    /\ hook' = [h EXCEPT !.messages = @ \o <<Local(Question(t, x)), Local(Answer(t, 0, "streaming"))>>,
                         !.streaming = TRUE, !.last = x]
    /\ UNCHANGED <<page, heading, history, cache, fetch, failing>>

Send(x) ==
    /\ Mounted /\ ~hook.streaming
    /\ Run(hook, x)

\* ChatPage shows the transcript, not a skeleton (isLoadingHistory: a request is
\* under way and there are no data) nor the error of the last request
\* (isHistoryError, with data or without).
Listed ==
    /\ Mounted
    /\ page \in Conversations =>
         /\ page \notin failing
         /\ fetch[page] = None \/ cache[page].data # None

\* The button is on the last answer of the transcript, if there is one and the
\* transcript is shown.
CanRegenerate ==
    /\ Listed /\ ~hook.streaming
    /\ \E i \in DOMAIN hook.messages : hook.messages[i].is.role = "assistant"

\* The last message goes, whichever it is, and the last question this hook
\* sent is sent again.
RegenerateUnasked ==
    /\ CanRegenerate
    /\ Run([hook EXCEPT !.messages = Front(@), !.cut = @ \/ IsSaved(Last(hook.messages))],
           hook.last)

Regenerate ==
    /\ CanRegenerate /\ hook.last # None
    /\ Run([hook EXCEPT !.messages = Front(@), !.cut = @ \/ IsSaved(Last(hook.messages))],
           hook.last)

-----------------------------------------------------------------------------
\* The request will lack what is stored now, and nobody is left to say so.
Belated(request, gone) ==
    IF request = None THEN None ELSE [request EXCEPT !.late = @ \/ gone]

\* The service takes the question, in a new conversation if it names none, or
\* gives up on it.
Accept(t) ==
    LET T == turns[t] IN
    /\ T.service = "asked"
    /\ \E c \in Conversations :
         /\ IF T.conversation = None THEN history[c] = None ELSE c = T.conversation
         /\ history' = [history EXCEPT ![c] =
              Append(IF @ = None THEN <<>> ELSE @, Saved(Question(t, T.text)))]
         /\ turns' = [turns EXCEPT ![t].service = "answering", ![t].conversation = c]
         /\ cache' = [cache EXCEPT ![c].late = @ \/ T.stream = "closed"]
         /\ fetch' = [fetch EXCEPT ![c] = Belated(@, T.stream = "closed")]
    /\ UNCHANGED <<page, heading, hook, failing>>

\* The answer is complete and stored, whether or not anyone listens.
Save(t) ==
    LET T == turns[t] IN
    /\ T.service = "answering"
    /\ history' = [history EXCEPT ![T.conversation] =
                     Append(@, Saved(Answer(t, T.tokens, "complete")))]
    /\ turns' = [turns EXCEPT ![t].service = "saved"]
    /\ cache' = [cache EXCEPT ![T.conversation].late = @ \/ T.stream = "closed"]
    /\ fetch' = [fetch EXCEPT ![T.conversation] = Belated(@, T.stream = "closed")]
    /\ UNCHANGED <<page, heading, hook, failing>>

\* Nobody listens, and the service drops the turn.
Drop(t) ==
    /\ turns[t].service \in {"asked", "answering"} /\ turns[t].stream = "closed"
    /\ turns' = [turns EXCEPT ![t].service = "over"]
    /\ UNCHANGED <<page, heading, hook, history, cache, fetch, failing>>

\* The event "conversation".
Tell(t) ==
    LET T == turns[t] IN
    /\ T.stream = "open" /\ T.service \in {"answering", "saved"} /\ T.told = None
    /\ turns' = [turns EXCEPT ![t].told = T.conversation]
    /\ UNCHANGED <<page, heading, hook, history, cache, fetch, failing>>

\* The event "token".
Token(t) ==
    LET T == turns[t] IN
    /\ T.stream = "open" /\ T.service = "answering" /\ T.told # None
    /\ T.tokens < MaxTokens
    /\ turns' = [turns EXCEPT ![t].tokens = @ + 1]
    /\ UNCHANGED <<page, heading, history, cache, fetch, failing>>
    /\ Rendered(page, IF Here(t) THEN Patch(hook, t, LAMBDA m : [m EXCEPT !.tokens = @ + 1]) ELSE hook)

\* The event "error"; the stream goes on until it is closed.
ErrorEvent(t) ==
    LET T == turns[t] IN
    /\ T.stream = "open" /\ T.service = "answering" /\ T.told # None
    /\ turns' = [turns EXCEPT ![t].service = "over"]
    /\ UNCHANGED <<page, heading, history, cache, fetch, failing>>
    /\ Rendered(page, IF Here(t) THEN Patch(hook, t, LAMBDA m : [m EXCEPT !.status = "error"]) ELSE hook)

-----------------------------------------------------------------------------
\* A request for the history of c begins: an error shown in place of data makes
\* way for it, an error shown in spite of data stays until there are new ones.
Retried(c) == IF cache[c].data = None THEN failing \ {c} ELSE failing

\* Nothing is invalidated.
InvalidateNothing(c) == UNCHANGED <<cache, fetch, failing>>

\* invalidateQueries: what is cached is stale.  A page that shows it asks
\* again at once, which overrules a request under way only if there are data.
Invalidate(c) ==
    IF c = None THEN UNCHANGED <<cache, fetch, failing>>
    ELSE LET running == fetch[c] # None
             again == page = c /\ (cache[c].data # None \/ ~running)
         IN  /\ cache' = [cache EXCEPT ![c].stale = @ \/ cache[c].data # None]
             /\ fetch' = [fetch EXCEPT ![c] =
                  CASE again -> [answer |-> history[c], late |-> FALSE]
                    [] ~again /\ running -> [@ EXCEPT !.late = TRUE]
                    [] OTHER -> None]
             /\ failing' = IF again THEN Retried(c) ELSE failing

Settle(m, failed) ==
    [m EXCEPT !.status = IF failed THEN "error" ELSE "complete"]

\* The end of a turn that leaves the answer as it is.
FinishUnmarked(t, failed) ==
    LET T == turns[t] IN
    /\ heading' = IF T.told # None /\ T.told # T.start THEN T.told ELSE heading
    /\ Invalidate(T.told)
    /\ Rendered(page, IF ~Here(t) THEN hook ELSE [hook EXCEPT !.streaming = FALSE])

\* The catch and finally of runStream: the answer gets its last status, the page
\* moves to a conversation that is new, and the cache is told.
Finish(t, failed) ==
    LET T == turns[t] IN
    /\ heading' = IF T.told # None /\ T.told # T.start THEN T.told ELSE heading
    /\ Invalidate(T.told)
    /\ Rendered(page, IF ~Here(t) THEN hook
                ELSE Patch([hook EXCEPT !.streaming = FALSE], t, LAMBDA m : Settle(m, failed)))

\* The stream is closed by the service.  If the turn is over and nobody had left,
\* there was an event "error".
Close(t) ==
    LET T == turns[t] IN
    /\ T.stream = "open" /\ T.service \in {"saved", "over"} /\ T.told # None
    /\ turns' = [turns EXCEPT ![t].stream = "closed"]
    /\ Finish(t, T.service = "over")
    /\ UNCHANGED <<page, history>>

\* An answer that is not ok: an error event, and the end.
Reject(t) ==
    /\ turns[t].stream = "open" /\ turns[t].service = "asked"
    /\ turns' = [turns EXCEPT ![t].stream = "closed", ![t].service = "over"]
    /\ Finish(t, TRUE)
    /\ UNCHANGED <<page, history>>

\* The connection is lost.
Break(t) ==
    /\ turns[t].stream = "open"
    /\ turns' = [turns EXCEPT ![t].stream = "closed"]
    /\ Finish(t, TRUE)
    /\ UNCHANGED <<page, history>>

\* stop: the same, by the user's hand.
Stop(t) == Here(t) /\ hook.streaming /\ Break(t)

-----------------------------------------------------------------------------
\* The user goes to p, or the navigation a turn asked for takes place.  Leaving
\* the chat unmounts the hook; what streams, streams on.  An error without data
\* does not outlive the page, as the next visit asks again.
Visit(p) ==
    /\ page' = p
    /\ heading' = None
    /\ failing' = IF p = page THEN failing ELSE {c \in failing : cache[c].data # None}
    /\ UNCHANGED <<history, cache, fetch>>
    /\ CASE Mounted /\ p # Away -> Rendered(p, hook) /\ UNCHANGED turns
         [] Mounted /\ p = Away -> /\ hook' = Mount(Away, None)
                                  /\ turns' = [t \in Turns |-> [turns[t] EXCEPT !.here = FALSE]]
         [] ~Mounted -> hook' = Mount(p, DataOf(p, cache)) /\ UNCHANGED turns

Go(p) ==
    /\ p # page
    /\ p \in Conversations => history[p] # None
    /\ Visit(p)

Arrive ==
    /\ heading # None
    /\ Visit(heading)

\* The page asks for the history it shows (first visit, stale, window focused).
StartFetch(c) ==
    /\ page = c /\ fetch[c] = None
    /\ fetch' = [fetch EXCEPT ![c] = [answer |-> history[c], late |-> FALSE]]
    /\ failing' = Retried(c)
    /\ UNCHANGED <<page, heading, hook, turns, history, cache>>

EndFetch(c) ==
    /\ fetch[c] # None
    /\ cache' = [cache EXCEPT ![c] = [data |-> fetch[c].answer, stale |-> FALSE,
                                      late |-> fetch[c].late]]
    /\ fetch' = [fetch EXCEPT ![c] = None]
    /\ failing' = failing \ {c}
    /\ UNCHANGED <<page, heading, turns, history>>
    /\ Rendered(page, hook)

FailFetch(c) ==
    /\ fetch[c] # None
    /\ fetch' = [fetch EXCEPT ![c] = None]
    /\ failing' = IF page = c \/ cache[c].data # None THEN failing \cup {c} ELSE failing
    /\ Cardinality(failing') <= MaxFailing
    /\ UNCHANGED <<page, heading, hook, turns, history, cache>>

Next ==
    \/ \E x \in Texts : Send(x)
    \/ Regenerate
    \/ \E t \in Turns :
         \/ Accept(t) \/ Save(t) \/ Drop(t)
         \/ Tell(t) \/ Token(t) \/ ErrorEvent(t)
         \/ Close(t) \/ Reject(t) \/ Break(t) \/ Stop(t)
    \/ \E p \in Conversations \cup {New, Away} : Go(p)
    \/ Arrive
    \/ \E c \in Conversations : StartFetch(c) \/ EndFetch(c) \/ FailFetch(c)

Spec == Init /\ [][Next]_vars

-----------------------------------------------------------------------------
Hook ==
    [page : Pages, data : Data, messages : Seq(Message), streaming : BOOLEAN,
     last : Texts \cup {None}, blank : BOOLEAN, cut : BOOLEAN]

Turn ==
    [start : Conversations \cup {New}, text : Texts, here : BOOLEAN,
     stream : {"open", "closed"}, service : {"asked", "answering", "saved", "over"},
     conversation : Conversations \cup {None}, told : Conversations \cup {None},
     tokens : 0..MaxTokens]

Cached ==
    {x \in [data : Data, stale : BOOLEAN, late : BOOLEAN] : x.stale => x.data # None}

StateOK ==
    /\ page \in Pages
    /\ heading \in Conversations \cup {None}
    /\ hook \in Hook
    /\ turns \in Seq(Turn)
    /\ Len(turns) <= MaxTurns
    /\ \A t \in Turns : turns[t].told \in {None, turns[t].conversation}
    /\ history \in [Conversations -> Data]
    /\ cache \in [Conversations -> Cached]
    /\ fetch \in [Conversations -> Request \cup {None}]

TypeOK == StateOK /\ failing \in SUBSET Conversations

\* The transcript of one conversation is never left on the page of another:
\* once nothing streams, each message is of this page's conversation, however
\* the user moved about while it did.
OwnTranscript ==
    Mounted /\ ~hook.streaming =>
      \A i \in DOMAIN hook.messages :
        LET m == hook.messages[i] IN
        IF IsSaved(m) THEN page \in Conversations /\ Contains(history[page], m)
                      ELSE turns[m.is.turn].start = page

\* A message that shows it is being written is being written, by the one turn
\* of this hook that streams.
NoGhostAnswer ==
    Mounted =>
      /\ hook.streaming <=> \E t \in Turns : Here(t) /\ turns[t].stream = "open"
      /\ \A i \in DOMAIN hook.messages :
           hook.messages[i].is.status = "streaming" =>
             turns[hook.messages[i].is.turn].stream = "open"

\* "So a background refetch can't clobber in-flight tokens" (hooks.ts:62): what
\* has arrived of an answer stays in the transcript of the hook while its turn
\* streams, whatever history comes in and wherever in the chat the user goes.
\* It says nothing of what ChatPage shows in place of the transcript (Listed).
TokensSurvive ==
    [][\A t \in Turns :
         Here(t) /\ Here(t)' /\ turns'[t].stream = "open" =>
           \E i \in DOMAIN hook'.messages :
             /\ hook'.messages[i].is.turn = t
             /\ hook'.messages[i].is.role = "assistant"
             /\ hook'.messages[i].is.tokens = turns'[t].tokens]_vars

\* Nothing streams on this page, each turn of its conversation is over and knew
\* which it was, and what is cached of it counts as fresh.
Settled ==
    /\ page \in Conversations /\ ~hook.streaming
    /\ cache[page].data # None /\ ~cache[page].stale
    /\ \A t \in Turns : turns[t].conversation = page =>
         /\ turns[t].stream = "closed" /\ turns[t].service \in {"saved", "over"}
         /\ turns[t].told = page

\* The messages begin with the saved ones, and what follows is this page's own.
Shows(messages, saved) ==
    /\ \A i \in DOMAIN saved : i \in DOMAIN messages /\ messages[i] = saved[i]
    /\ \A i \in DOMAIN messages : IsSaved(messages[i]) => i \in DOMAIN saved

\* The transcript of a settled page is what the service has, in its order.
\* Excepted are
\*   - answers the service stored, and requests for history that were begun,
\*     when the turn or the page they belong to was gone (late),
\*   - a page mounted over cached history (blank),
\*   - the message a failed regeneration took away (cut).
SettledShowsHistory ==
    Settled /\ ~cache[page].late /\ ~hook.blank =>
      \/ Shows(hook.messages, history[page])
      \/ hook.cut /\ Shows(hook.messages, Front(history[page]))

\* An answer that is being written can be seen by who stays on its page: a
\* history request behind a transcript that is shown does not take it away.
TokensStayOnScreen ==
    [][Listed /\ DataOf(page, cache) # None /\ page' = page
       /\ hook.streaming /\ hook'.streaming => Listed']_vars

\* "Message history is TanStack Query state (server truth)" (hooks.ts:39): what
\* is cached is on the screen.
HistoryIsOnScreen ==
    Listed /\ ~hook.streaming /\ DataOf(page, cache) # None =>
      Shows(hook.messages, cache[page].data)

\* "Regenerate response" (MessageBubble.tsx:84) asks the question that the
\* answer on the screen answers.
RegenerateRepeats ==
    [][Len(turns') > Len(turns) /\ Len(hook'.messages) = Len(hook.messages) + 1 =>
         LET asked == {i \in DOMAIN hook.messages : hook.messages[i].is.role = "user"}
         IN  \E i \in asked : /\ \A j \in asked : j <= i
                              /\ hook.messages[i].is.text = turns'[Len(turns')].text]_vars

\* The hook "owns the message list + streaming lifecycle for one conversation"
\* (hooks.ts:38): its turns from one page go to one conversation.
OneConversation ==
    \A s, t \in Turns :
      /\ Here(s) /\ Here(t) /\ turns[s].start = New /\ turns[t].start = New
      /\ turns[s].told # None /\ turns[t].told # None /\ s < t
      /\ \A r \in s..t : turns[r].start = New
      => turns[s].told = turns[t].told
=============================================================================
