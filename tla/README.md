# Neurex, specified

TLA+ modules, TLC configurations and TLAPS proofs about Neurex: who may act in
an organization, what becomes of uploaded documents, when a session is over
(`src/backend`), and what a user sees of a streaming chat (`src/frontend`).  Run everything from this directory:
`tlc -config X.cfg M` checks a model, `tlapm M_proof.tla` checks proofs.

## The system

Neurex is a FastAPI application of several stateless processes over PostgreSQL
(one `AsyncSession` per request, READ COMMITTED), Redis and an S3-compatible
object store, with a React frontend that still runs on mock data for the most
part.  Everything that is hard comes from one pattern: a request *reads,
awaits, and writes*, and other requests, failures and the clock do what they
like during the await.

| component | state | operations | talks to |
|---|---|---|---|
| admin-count trigger, CHECK constraints (`migrations/.../d569445357ca`, `models/organization.py`) | `organizations.active_admin_count`, `max_admins`, `is_active` | fires on every write of a membership row | row locks of PostgreSQL |
| `MembershipService` | `memberships` rows | invite, accept, change_role, suspend, remove, leave, reinstate | trigger at commit, cache after it |
| `OrganizationService` | `organizations` rows | create, update (ceiling), deactivate | trigger, CHECK |
| `MembershipCache`, `get_org_context` | `membership:{user}:{org}` in Redis, with a TTL | get, set, invalidate; resolving a request's context | `memberships`, `organizations` |
| `DocumentService` | `documents`, `document_versions` rows, objects | upload, add_version, delete, rename, list, versions, download | validation, storage, database, in that order |
| `R2Storage` | objects, unfinished multipart uploads | put_stream, open_stream, delete | the object store |
| `AuthService`, `RevocationStore`, JWT | tokens in the clients' hands; `revoked:jti:*`, `revoked:user:*` in Redis | register, login, refresh, logout, logout_everywhere; the check of every request | Redis, the clock |
| RBAC, permissions (`rbac.py`, `permissions.py`) | tables that are fixed at start | `require`, the default-deny guard of every organization-scoped router | the context |
| org-scoped repositories (`org_scoped.py`, `repositories/documents.py`) | rows stamped with an organization | scoped queries, create, update with its ownership check; reads across organizations that leave an audit row | database, in the caller's transaction |
| file validation, size limit (`file_validation.py`, `document_errors.py`, `_Meter` of `document_service.py`) | one request's head, size and digest | `enforce_content_length`, allowlist, declared type, sniffers, counting and hashing while streaming | the request body, `put_stream` |
| audit log | `audit_log` rows | written with the change, or the read, they record | the caller's transaction |
| frontend: `useChatConversation`, `streamChatMessage` | transcript, refs, the query cache | send, regenerate, stop, navigate; the events of a stream | the chat service, TanStack Query, the router |
| frontend: session bootstrap, upload dialog, stores | stores in the browser | | the API |

What makes each correct:

* **Admin range.** An active organization has at least one and at most
  `max_admins` active admins, whatever requests race; the counter is the count;
  a refusal is a 409.
* **Memberships.** Nobody joins without accepting; a suspension lasts until a
  reinstatement; a personal workspace stays its owner's.
* **Cache.** A role that is acted on was held; a change takes effect on the
  next request; whatever goes wrong is bounded by the TTL.
* **Documents.** Versions are numbered without gaps, immutable, and have their
  objects; failed uploads leave no rows; the same bytes are not stored twice.
* **Tenants.** No organization sees, counts, deduplicates against or writes
  another's rows; no route runs without a declared permission; a concurrent
  write is not undone by a request that loaded the row before it.
* **Intake.** What is stored, hashed and counted is the file, whole; the size
  limit is exact; no valid text is refused for where the sample cuts it.
* **Object store.** An object is a whole stream or nothing; no unfinished
  upload is left behind; memory stays within a part.
* **Chat.** Nothing of the transcript is lost while it streams, nothing stands
  under the wrong conversation, and the transcript in the end is what the
  service has.
* **Sessions.** A token that was logged out, traded or cut off stays refused
  until it expires; a refresh token is traded once; logging out everywhere is
  complete.

`PROJECT.json` lists each place where one of these can go wrong ("hazards")
with the properties aimed at it.

## Modules

    AdminRange            what is promised of the admins (abstract)
      ^          ^
    AdminRangeTx |        rows, locks, transactions, trigger
                 |
    Membership -----------> AdminTrigger   the database's rules as operators
                            (AdminRangeTx uses them too)

    MembershipCache       the cache against commits and resolutions; that
                          Membership is such a writer is a theorem

    DocumentHistory       what is promised of versions (abstract)
      ^        ^
    Documents  |          uploads over storage and database
               |
             Tenancy      every organization's rows, query by query; to each
               |          of them a DocumentHistory
               v
             Rbac         permissions, matrix and guards as operators

    Intake                the bytes of one upload

    R2Multipart           put_stream over an unreliable object store

    Sessions              token pairs, deny-list, clock

    ChatSession           the chat page: stream, history cache, navigation

Each `MC*` module adds symmetry sets (and three statements of the repository,
in `MCMembership`); each `*_proof` module holds the theorems of its component.
Definitions that are a mutated form of the code (`CountedByRole`,
`FreeAlways`, `DiscardNothing`, ...) stand right before what they mutate; no
specification uses them.  They show that each property can fail.

### AdminTrigger, AdminRangeTx, AdminRange

`AdminTrigger` has the two functions of the migration and the two CHECKs as
operators: `Counted`, `Delta`, `RangeCheck`, `FloorCheck`, `Verdict`.

`AdminRangeTx` shows why a commit can be thought of as one step.  A
transaction writes one membership row (insert, update, delete, even a move to
another organization, which the trigger provides for and no service uses) or
one organization row; the trigger's `UPDATE` takes the organization's row lock
(`Free`), finds the committed row or the transaction's own (`Latest`), and
refuses outside of the range (`Adjust`).  A waiting or refused transaction can
only be rolled back.  `ImplementsAdminRange` maps the committed rows of every
organization to `AdminRange`.

`AdminRange` is the promise: a set of admins, a ceiling, open or closed.  There
is no counter in it.

All three begin with an empty database.  The migration's backfill, which counts
the admins of organizations that are older than the trigger, runs once and is
not modelled: it gives such an organization its count and its CHECKs, and not
the floor, so that one without admins stays without until somebody is promoted.
That the trigger says nothing of an organization that is being deleted
(`IF NOT FOUND`) is left out of `FloorCheck`, since no code deletes one.

### Membership

One organization, its membership rows by user, and requests in flight.  A
request reads the rows it decides on (`Invite`, `Accept`, `ChangeRole`,
`Deactivate`, `Reinstate`, `UpdateOrganization`, `DeactivateOrganization`),
runs `_guard_admin_range` if the number of admins would move, and
commits (`CommitMembership`, `CommitOrganization`), or goes away at any point
(`Abandon`).  The commit writes only the columns the request changed over the
row *as it is then*, as SQLAlchemy's UPDATE does, runs `Verdict`, and
translates it.  The guard is two queries: `ReadCeiling` reads `max_admins`, and
`Guard` counts the admins and holds their number against the ceiling read
before, whatever it is by then.  suspend, remove and leave are one action, `Deactivate`: they
differ in the audit row only.

Left out: `account_type`, names and slugs (nothing branches on them), the audit
row, and who is entitled to ask.  `raced` is history: the requests in flight for
which somebody else has written the organization, or the row they are about,
since they began.  `OnlyRacesAreRefused` says what these are excepted from: the
checks that a request makes one query after the other, and the database's at
its commit, come to the same.

### MembershipCache

One member of one organization: the row, the cache entry with the seconds it
has left, resolving requests (`Get`, `Purge`, `Read`, `Set`) and writers
(`Commit`, then `Invalidate` or, if the server or Redis fails,
`LoseInvalidation`).  The row begins as nobody's or as the founder's
(`FirstRows`), and `Commit` writes what `Rewrites` allows it to; that
`Membership` moves a row in no other way is `CommitsAreTheWrites`.  The
variable `hist` is history only: no guard reads it.  Names that `Membership`
has as well begin with `Cache` or `cache`, since the two stand in one proof.

### Documents, DocumentHistory

Document ids, version rows, objects by key, and requests that go through
`store -> compare -> commit -> refresh` or `discard`, with a step per await.
`Faults` says what may fail: `storage` (a failing delete, a lost answer to a
completed upload), `database` (a failing query, a failing commit, a commit
whose answer is lost), `crash` (the process dies).  A failing `put_stream`
leaves no object and is always possible (the size limit is one).  `endangered`
and `forsaken` are history: the keys two requests or a failure after the commit
got at, and the objects whose cleanup failed or whose process died.  With
`forsaken`, `NoOrphans` can be checked under all faults: an object has a row, or
a request that is still to decide about it, or is one of those.

Which of several versions with the same bytes `find_by_hash` finds is open
(`Duplicate`): it takes the one with the least `created_at`, the start of the
transaction, which the order of commits need not follow.

`DocumentHistory` is the promise: sequences of contents that only grow, and a
set of live documents.  `Documents` implements it, for all its documents at once
and under all faults; `Tenancy` implements it once for each organization.

`DocumentService` is seen from three sides.  Here storage and its failures
matter, and reads and `rename` are left out; `Tenancy` has every operation and
no storage; `Intake` has the bytes.

### Tenancy, Rbac

`Rbac` is the permission catalogue, the role matrix and what the routes of
`documents.py` declare, as functions; `Unlocked` is
`enforce_declared_permission`, `Required` is `require`, and `Roles(e)` are the
roles that get to the handler of `e`, without which a request does not begin.
These are tables that no step changes, and no property is about them.

`Tenancy` has the rows of `documents`, `document_versions` and `audit_log` of
several organizations, and requests that carry the organization of their path.
A request begins with its first query (`Find`, `List`, `Upload`), goes on with
one query per step (`MatchLive`, `Number`, `Compare`, `Answer`) and writes in
one transaction (`WriteUpload`, `WriteUpdate`).  `row` is the SQLAlchemy object
it loaded; `Updated` writes back only the columns that were assigned a value
other than the loaded one, which is what the UPDATE of a flush does.  Every
query is an operator over the rows it reads, so that `AnswersStayInside` can ask
it again over one organization's rows alone.

A listing is two queries, `List` and `Answer`; its page is any of the documents
there are (limit and offset cut it), and `TotalMissesOnlyDeleted` says by how
much the total can disagree with it.

`PromiseTo(o)` is `DocumentHistory` over what organization `o` can see: the
revisions of a document are what `o` downloads of it, version by version
(`Downloads`, by `get_version`'s queries), and none if it is another's; the live
documents are those `o` is listed.  `EachHasItsHistory` says that every step of
`Tenancy` is, to every organization, a step of its history or none at all.  It
is stated with one `[][...]_vars` and not as `\A o : PromiseTo(o)!Spec`, a form
TLC does not take; steps that leave the rows alone are excepted first, which
spares TLC the comparison.

`ReadAcross` and `ListAcross` are the reads of a platform operator
(`get_across_tenants`, `list_across_tenants`).  Nothing in `src` calls them yet;
the caller is modelled as anything it can be: it commits (`CommitHeld`), ends
without a commit (`CloseHeld`), or passes what it read to the scoped update of
an organization (`UpdateHeld`).  That the operator is one is assumed.

A request stands for a member with any of the roles that pass the guards: they
are fixed before the handler, and `MembershipCache` says how old they may be.
Left out: `OWNERSHIP_SCOPED` (no route uses it), the order of a page, and
`open_stream`.  A new document takes an id nobody has (`uuid4`), and a title of
white space only is a title like another.

### Intake

One upload, from the Content-Length header to the stored object.  A byte is
modelled by its class: a plain character, an HTML tag or a signature (each
counted as one byte, as neither has a NUL and both are valid text), NUL, a
continuation byte, and leading bytes of two, three or four.  An overlong or
surrogate encoding counts as a leading byte without its rest, as the decoder
treats it.  `ErrorStart` is `UnicodeDecodeError.start`; `IsText` is the
four-byte tolerance; `Consume` is one turn of the generator `_chunks` with
`_Meter`, and stops before it hashes or yields.

`ContentLength` may be absent (a chunked body) and is otherwise the file and the
multipart envelope: a server that frames requests does not let it lie.  The
form is parsed before the guard runs; that costs a temporary file and is not
modelled.  File names are abstracted to their extension, although
`_safe_filename` can cut the extension off a name of more than 512 characters
(after it was checked).  `BeginsText` is the reference definition of "text, as
far as one can see", written without recursion.

### R2Multipart

`R2Storage.put_stream` with its buffer, its parts and its upload id, one step
per await, and a store to which every call is a message in `net`.  A call may
be carried out and answered (`Reply`), turned down (`Refuse`), carried out
without an answer (`Unanswered`), or given no answer in time (`TimeOut`), after
which botocore repeats it, up to `Retries` times, while the first may still be
under way.  The stream may raise and the request may be cancelled at every
await, the abort's included (`Interrupt`).  Bytes are numbered, so that
`WholeOrNothing` can tell which stream, and how much of it, an object is made
of.

`Documents` takes `put_stream` for one step.  The two agree on what
`Documents` asks of it: all of the stream, nothing of it, or all of it with the
answer lost.  They differ in when: here a put or a completion that nobody waits
for any more can take effect later, while in `Documents` it takes effect within
the request that sent it.

### ChatSession

One browser: the page the router is on, the state of the mounted hook, the
turns (a question and its answer) with their streams, the service's history,
and TanStack's cache and requests of it.  `Render` is the assignment during
render that copies the history into the transcript, and every action that
changes what it looks at ends in it.  A turn belongs to the hook that started
it: when the page is left, its stream goes on and its `finally` still
invalidates and navigates (`Finish`, `Arrive`), but patches nothing.  `/chat`
and `/chat/:id` are one mounted page, as the router renders the same component
in the same place.  A page that shows history has it in front and its own turns
behind (`Shows`).

`ChatPage` does not always show the transcript: while a conversation's first
history is on its way it shows a skeleton, and after a request for it has
failed an error, even while a turn streams and data are there (`failing`,
`Listed`).  The hook knows nothing of it, so that the transcript is the same
whether it is shown or not; but the button *Regenerate* is in it.  The
properties of this module speak of the transcript.  Between `Visit` and the
`StartFetch` that goes with it the model counts the page as listed, which the
program does only when it is offline and the request waits.  An error without
data is forgotten when the page is left, as the next visit asks again.

The service and the cache are not in the repository.  The service is modelled
from what the stream's events say; the cache from what `hooks.ts` asks of it:
data by key, `invalidateQueries`, one request per key at a time, refetching on
mount and focus.  `late`, `blank` and `cut` are history: they name the cases in
which a settled page does not show what the service has.

Left out: deleting a conversation, citations (patched like tokens), and how
frames are cut out of the stream.  A stream that ends without the event `done`
counts as complete in the code, and so it does here.

### Sessions

One user's token pairs, the deny-list entries with their expiries, the cutoff
and the clock.  Each call of Redis is a step, and the clock may tick between
any two.  Anybody who ever had a token may present it again, which is what
reuse detection is about.  Token times and lives of entries are whole seconds,
rounded down, while the clock ticks `Second` times a second.  Three things that
the code does in two instants are one here: `is_revoked`'s two reads; the two
tokens of a pair; and `revoke`, which computes the entry's life and then sends it
(`Deny`), so that Redis counts it from a moment later, and the entry lasts that
much longer.
`register` is `Login`: it ends in the same new pair.

## Runs

| run | bounds | shows |
|---|---|---|
| `admin_range_tx` | 2 members, 2 organizations, 2 transactions, ceiling up to 2 | `CounterExact`, `ImplementsAdminRange`: the row lock serializes the counter, also when a member moves |
| `membership` | 3 users, 2 requests, ceiling up to 2 | the range, the counter, the personal workspace, joined dates, what guard and database refuse, 409s, and the refinement |
| `cache` | 2 readers, 2 writers, TTL 2 | `RolesWereHeld`, `CoherentUnlessTainted`, and `Converges` under fairness; no symmetry, because of the liveness |
| `documents` | 1 document, 2 contents, 2 extensions, 2 versions, 2 requests, all faults | `CurrentIsLatest`, `RowsKeepObjects`, `NoOrphans`, and the refinement `ImplementsHistory` (immutable versions, deleted stays deleted) |
| `tenancy` | 2 organizations, 2 documents, 2 titles, 2 hashes, 2 versions, 1 audit row, 2 requests | `AnswersStayInside`, `RowsBelongTogether`, `TotalMissesOnlyDeleted`, `WritesStayInside`, and a refinement per organization, `EachHasItsHistory` (another's steps are none of its own, and no write that was based on a stale row undoes a later one) |
| `intake` | head of 5 bytes over 7 classes, reads of 2, limit 8, envelope 1, files of up to 11 | `StoredIsUploaded`, `LimitIsExact`, `TextIsNeverRefused`, `EvidenceWasSeen` |
| `r2` | 1 upload of up to 5 bytes, parts of 2, chunks of up to 3, 1 retry | `WholeOrNothing`, `PartsAreFull`, `KnownUploadsEnd`; `TypeOK` bounds the buffer |
| `chat` | 2 conversations, 2 turns, answers of 1 token, 1 failed history at once | `OwnTranscript`, `NoGhostAnswer`, `TokensSurvive`, and `SettledShowsHistory` but for the named cases |
| `sessions` | 2 pairs, 2 requests, 4 ticks of half a second, leeway | `DeadUntilExpiry` |

*Are the bounds enough?*  Every race here is between two parties: two requests,
two transactions, a reader and a writer.  Three users and a ceiling of two reach
both edges of the range from both sides; two versions suffice for a conflict of
numbers; two pairs suffice to trade one for the other while the first is still
presented.  Five bytes make two parts and a rest, and chunks of three cross a
part's end in the middle; `MCR2MultipartTwo.cfg` has two uploads of up to three
bytes to one key and passes as well.  Two turns are what a chat page can mix
up: the one that streams and the one before it.  In `tenancy`, what one request
can do to another it does to a row they share or to a row of the other's
organization, and two documents are enough for both; two titles tell a rename
from a write-back.  A head of five bytes is one longer than the tolerance and
than a character, and the limit of eight lies inside a read, at the end of one
and behind the head in turn, as file sizes vary; `lead2` and `lead3` behave as
`lead4` does with fewer bytes and are left out of the run's classes.  What is proved below holds
without bounds.

Deadlock is checked for `AdminRangeTx`, `Membership` and `MembershipCache`.  In
`Documents`, `Sessions`, `R2Multipart`, `ChatSession` and `Tenancy` the bounds on
versions, pairs, the clock, uploads, turns and audit rows are used up in the end,
and the one request of `Intake` ends.

*Fairness.*  Only `cache` assumes any: the clock ticks (`Tick`), and a
request that has begun to resolve or to commit goes on or fails, which is what
an event loop and timeouts give.  No fairness is assumed of requests arriving.

### Where the code and its documents disagree

Each of these runs checks one statement the repository makes, and TLC finds it
violated; `PROJECT.json` quotes the lines.

| run | what happens |
|---|---|
| `only_reinstate_returns` | accept reads *pending*, an admin suspends, accept commits *active*: the suspension is undone |
| `every_row_has_its_object` | two uploads computed one version number, hence one key; the first finds its bytes unchanged and discards the key, under which the second has stored its object; the second commits its row |
| `one_trade` | two refreshes of one token both get a pair |

The models violate further statements of the repository, written as properties
of their modules.  Where there is a configuration of that name
(`MCSessions_CutIsComplete.cfg`, ..., `MCMembershipCacheNext.cfg` for the first
below), run it; where there is none, put the property in the place of the
`INVARIANTS` and `PROPERTIES` of the module's main configuration.  A
definition that begins with `[]` is a `PROPERTY`, any other an `INVARIANT`.

| property | what happens |
|---|---|
| `NextRequestSeesIt` | a request caches the row it read before a suspension, after the suspension's invalidation (`docs/architecture.md:710`) |
| `DeadIsRefused` | within the leeway after its expiry a revoked token is accepted again (`revocation.py:44`) |
| `CutIsComplete` | a refresh that was checked before a cutoff issues its pair after it (`revocation.py:54`) |
| `RaisingAborts` | the answer to `create_multipart_upload` is lost: the upload exists and its id is unknown (`r2.py:13`) |
| `FirstErrorSurvives` | an abort that times out raises no `ClientError` and replaces the exception that caused it (`r2.py:214`) |
| `RegenerateRepeats` | after a change of conversation, *Regenerate* asks the question that was sent in the other one (`MessageBubble.tsx:84`) |
| `OneConversation` | a second question sent before the navigation took place begins a second conversation (`hooks.ts:38`) |
| `OnlyAcceptJoins` | suspending and reinstating an invitation makes a member who never accepted (`membership_service.py:187`) |
| `CeilingMoveIsNeverFault` | a promotion between check and commit of a lowered ceiling: a 500, not the promised 409 (`schemas/organizations.py:47`) |
| `EveryRowHasItsObject`, in `MCDocuments_RefreshLosesObject.cfg` | one request alone: the SELECT after a successful commit fails, and the cleanup deletes the committed row's object (`document_service.py:310`) |
| `NoVersionRepeats` | two uploads of the same bytes to one document both become versions (`document_service.py:257`); with one request at a time none does |
| `DuplicatesAreFound` | a deleted document with the oldest match hides a live duplicate (`routes/v1/documents.py:125`) |
| `ReuseIsReuse` | a token only a cutoff killed is taken for reused at its first presentation (`auth_service.py:178`) |
| `TokensStayOnScreen` | a history request behind a streaming answer fails, and the page shows an error in place of the transcript until a later one succeeds (`ChatPage.tsx:40`) |
| `HistoryIsOnScreen` | a chat page mounted over cached history shows an empty transcript (`hooks.ts:65`) |
| `RenameTakesEffect` | a rename to the title that was loaded writes nothing, although the document was renamed meanwhile (`routes/v1/documents.py:204`) |
| `TotalCoversPage` | a deletion between the two queries of a listing: a page longer than its total (`schemas/documents.py`) |
| `ReadMeansRecorded` | an operator's read whose caller never commits has no audit row (`org_scoped.py:213`) |
| `OnlyLargerIsTooLarge` | a file just under the limit is refused by its Content-Length, which includes the multipart envelope (`document_errors.py:72`) |
| `OnlyTextIsText` | bytes that are no text pass in the last four of the sample (`file_validation.py:64`) |
| `EveryCutoffStands` | of two concurrent cutoffs the earlier can be written last (`revocation.py:15`) |

## Proofs

All theorems hold for every value of the constants under the named assumptions
of each module (finite sets of users, positive lifetimes and the like).

**Membership_proof.**  `TypeCorrect`, `CounterCorrect` and `RangeCorrect` are
one induction.  The range is not inductive by itself: the trigger looks at the
counter, so that the counter is exact belongs to the invariant, and with it
that an organization that does not exist has no rows.  Cardinalities move by at
most one because a commit writes one row.  `Refinement` then follows step by
step: only commits and `CreateOrganization` move anything `AdminRange` sees.
`VerdictIsConflict` uses that only one membership operation can violate the
unique pair (`invite`).  `RefusalsAreRaces` needs an invariant over the
requests nobody raced with (`Fresh`): such a request is about a row as it read
it, the move its guard counted is the move its commit would make, the ceiling it
read is the ceiling, and once past the guard the trigger's verdict is *ok*.  Any
commit of another either leaves all of that alone or marks the request
as raced (`FreshCommit`).  `PersonalSolo` needs the requests as well as the rows
(`Alone`): in a personal organization every request in flight about a
membership is about somebody present, and none is an invitation.

The same module proves `MembershipCache` and joins the two.  `CacheCoherent`
rests on the invariant that an untainted entry agrees with the row, or some
writer still owes its deletion.  `RolesHeld` takes one more conjunct
(`StandingIsHeld`): the role the caller has now, which is what a reader would
read, is one the caller ever had.  `CommitsAreTheWrites` says that the writers
of the cache's model are the commits of `Membership`: each membership begins in
`FirstRows`, every step leaves it or moves it by `Rewrites`, and an
organization that was deactivated stays so.  A commit decides by the row it read
and writes over the row that is there; the two need not be the same, but a row
that was there is there still (`RowsAreThere`), which is what makes the write a
rewrite.

**AdminRangeTx_proof.**  The invariant speaks of what open transactions hold.
`Balanced`: the counter a transaction would commit, with what its trigger has
still to adjust (`Due`), is the committed counter moved by what its row counts
(`Gain`); and a version it holds differs from the committed one in nothing that
is not its to write.  `Locked`: no two of them hold the same row.  A commit then
leaves every other transaction balanced, because it wrote none of their rows,
and moves counter and admins alike (`Committed`), from which `CounterExactHolds`
and, organization by organization, `RefinesRange` follow.  `PromiseIsRange` is
about `AdminRange` itself: the promise does entail the range, so that whatever
implements it keeps the range too.

**Documents_proof.**  The inductive invariant is `TypeOK`, `CurrentIsLatest`,
`RowsKeepObjects` and `Fits`: a request past `store` either finds its object
with its bytes under its key, or the key is endangered, and its number is one
past the latest or taken already.  Without the second half `CurrentIsLatest`
would not be inductive, because a commit inserts the number it computed long
before.  For `GarbageIsNamed` (`NoOrphans`) it is joined by `Refreshing`: a
request that waits for the SELECT after its commit has its row, so that its
object is owned whatever becomes of the request.  `VersionsImmutable` is the
unique constraint in each of its uses.  `RefinesHistory` maps the rows to a
sequence per document: a number that is not taken is the next one
(`NumberIsNext`), so a commit appends one revision and nothing else moves any.

**Sessions_proof.**  `RevocationHolds`: every dead token has an entry that
lasts to within a second of its expiry (`DeadHaveEntries`), or is covered by
the cutoff, which lasts for as long as anything issued before it
(`CutoffLasts`), provided that no cutoff in flight is from the future
(`CutsAreTaken`).

**Tenancy_proof.**  The invariant `Inv` joins rows and requests.  `RowsHold`:
versions are in their document's organization and numbered without a gap up to
the current one, so that the next number is the current one plus one
(`NextIsCurrent`).  `Fits`: what a request has been given belongs to its
organization, an upload's document does not exist yet, and a number that was
computed is at most one past the current one -- hence it *is* that one, if the
unique constraint lets it pass.  `UploadsApart`: no two uploads were given one
id.  Each step that only reads is `GoesOnKeeps` or `ReturnKeeps`; each that
writes ends a request and leaves documents in their organization with versions
that only go up, which is all the other requests need (`OthersFit`).
`WritesHold` follows from what one step does to one row (`OneRow`).
`HistoriesAreKept` takes a step as what it does to the rows (`RowSteps`): one
document is renamed, deleted, or gets a version.  A version that is there is
the only one of its number and stays, so its download does not change
(`HashStays`, `DownloadsStay`); a version that is added is one past the
current one, hence the next of its organization's history, and to any other
organization nothing (`AddAppends`).  That a document of an organization has a
first version (`StartedAlways`) tells a revision from a creation.  `AnswersHold`
needs the invariant only for what requests hold: that each query sees its own
organization is a fact about the queries.  `TotalsHold` counts: a document
of the organization is live or deleted, so what of a page is no longer counted
in the total has been deleted since (`PageCount`).

**Intake_proof.**  `Streaming`: what was given away, hashed and counted is the body
before the current read, and the read is the next stretch of the body, up to
`at` (and empty only at its end).  A stretch goes on with the one behind it
(`GoesOn`), so consuming the read keeps that true.  `TextsAreTaken` and
`EvidenceHolds` are about `ErrorStart`, which recurs over the sample.  No
induction is needed: a set of positions has a least one (`Least`), so the
recursive function exists (`DecoderExists`: the longest tail it is defined on
can be extended by one), and a last position at which it would not decode
would be decoded by its own equation (`DecoderDecodes`).  `Judged` carries what
the sniffer found along while the rest streams.

**R2Multipart_proof.**  The invariant `Good` has the state as its parameters,
because a reply is two things at once: the store carries a call out, and
put_stream goes on.  The first keeps `Good` by itself (`PerformKeeps`, one
lemma for each kind of call: `StoreCreates`, `StorePlaces`, `StoreCloses`); the
second (`Onward`) keeps it if the put that goes on is coherent and sends only
calls that are faithful to its stream (`Proceeds`, `EndsWell`).  `Placed` is
the centre: part n of a put is the n-th stretch of its stream, full unless the
stream has ended.  It makes a part that is uploaded twice, or late, the same part.
`Faithful` says of every call under way that it means now what it meant when it
was sent, so that a completion, whenever it arrives, is of the whole stream
(`CompletedIsWhole`).  That the parts of a session concatenate to the stream
(`PartsMakeWhole`) is by the first part at which they would not.

**ChatSession_proof.**  `Inv` has one conjunct for each pair of places that must
agree.  `CacheBegins`: what the cache has, or is about to get, is the
beginning of the history.  `CacheFresh`: what counts as fresh *is* the history,
or some turn has still to invalidate it, or never will (`WillTell`).  `Screen`:
each message of the browser's own is of a turn that started on the page
shown and says how it stands (`LocalHolds`), the saved ones are where the
copied history has them (`SavedHolds`), and if a turn streams its answer is
there (`OneStreams`).  `InStep`: a hook at rest has rendered.  A step is then
taken apart as the code is: what happens to a turn (`TurnStep`), what the
hook makes of its answer (`PatchKeeps`, `Follows`), what the cache makes of it
(`CacheStays`, `InvalidateKeeps`), and what the render makes of both
(`DrawnKeeps`).  The subtle case is a regeneration, which drops the last
message whatever it is: the copied history may be cut by one message, and never
by two, because what was cut is always followed by a message of the turn
that cut it (`CutHolds`).

**Only model-checked:** the liveness property `Converges` of `cache`, since
liveness under fairness and `ENABLED` are beyond the prover, and the violations
above, which are counterexamples and need no proof.  Every other property of a
passing run is a theorem.  Induction theorems cannot be instantiated by the
installed provers; where a proof needs induction over data (the decoder, the
parts of an upload) it takes the least counterexample instead, and no module
with a theorem declares a `RECURSIVE` operator.

The assumptions are those of the modules: `None` is none of the values it
stands beside, bounds and lifetimes are naturals, and sets of users are finite.
None of them limits a size.

## Plan

Done: the modules above, in this order, since the admin range is the invariant
the architecture puts most machinery behind (three layers, section 7.7), the
cache decides every request, documents and sessions are where requests race
without a lock, the object store is where calls get lost, and the chat page is
where the browser keeps two copies of one thing.

Then the tenants' rows behind RBAC and the scoped repositories, and the bytes of
an upload, both of which every request for documents goes through.

Next, by how much can go wrong:

1. The audit rows of membership changes: one for every change and none without
   one, and their `created_at`, which is the start of the transaction and so not
   the order of commits.
2. Frontend: the upload dialog (several mutations at once, a client timeout
   over uploads that succeed), the session bootstrap and refresh.
3. Deleting a conversation in `ChatSession`, and a refinement from
   `R2Multipart` to a one-step put with delayed effects, for `Documents` to use.
4. Proofs: that `R2Multipart` does what `Documents` asks of `put_stream`, which
   the refinement above is for.  (`Tenancy` and `Documents` agree on the rows
   they both have in that both implement `DocumentHistory`.)

Not to be modelled: password hashing (Argon2), logging, settings and
serialisation (no state), migrations that only create tables, pages and
components that only render.
