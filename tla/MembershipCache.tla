--------------------------- MODULE MembershipCache ---------------------------
(***************************************************************************)
(* How a request learns what its caller may do: get_org_context over the   *)
(* Redis entry membership:{user}:{organization}, racing the commits of     *)
(* MembershipService, which delete the entry after the row has changed.    *)
(*                                                                         *)
(* One user and one organization are enough: no operation of the cache     *)
(* touches two keys.  Whether a write is allowed is Membership's subject,  *)
(* so a write here is any change its operations make to the row, and the   *)
(* range of the other admins only decides which of them happen.            *)
(***************************************************************************)
EXTENDS AdminTrigger, FiniteSets

CONSTANTS
    Readers,  \* requests that resolve a context
    Writers,  \* requests that change the membership
    TTL       \* membership_cache_ttl_seconds, in ticks of the clock

ASSUME TTLAssumption == TTL \in Nat \ {0}

VARIABLES
    caller,  \* the row of the caller's membership, as committed
    open,    \* organizations.is_active
    entry,   \* what Redis holds under the key
    reader,  \* per reader: where get_org_context is, and what it holds
    writer,  \* per writer: idle, or committed and owing the deletion
    hist     \* history: no action's guard reads it

cacheVars == <<caller, open, entry, reader, writer, hist>>

Row == [role : Roles, status : Statuses]

\* What the database says the caller is: a role, or nothing.
Standings == Roles \cup {"none"}
StandingOf(m, o) == IF m.status = "active" /\ o THEN m.role ELSE "none"
Standing == StandingOf(caller, open)

NoEntry == [value |-> "none", left |-> 0]
Entry == [value : Roles \cup {"corrupt"}, left : 1..TTL] \cup {NoEntry}

\* role is what was read from the row; may is history: the standings this
\* request may rightly act on.
Reader ==
    [pc : {"idle", "purge", "read"}, role : {"none"}, may : SUBSET Standings]
      \cup [pc : {"set", "granted"}, role : Roles, may : SUBSET Standings]

\* tainted: the entry is known to have outlived the row it was read from.
\* may: the standings a request that begins now may rightly act on, which
\* are more than one while a write has not been answered.
\* held: the roles the caller ever had.
History ==
    [tainted : BOOLEAN, may : SUBSET Standings, held : SUBSET Roles]

CacheTypeOK ==
    /\ caller \in Row
    /\ open \in BOOLEAN
    /\ entry \in Entry
    /\ reader \in [Readers -> Reader]
    /\ writer \in [Writers -> {"idle", "owes", "failed"}]
    /\ hist \in History

IdleReader == [pc |-> "idle", role |-> "none", may |-> {}]

\* No membership yet, or the founder's, written with the organization.
FirstRows == {[role |-> "member", status |-> "absent"],
              [role |-> "admin", status |-> "active"]}

CacheInit ==
    /\ caller \in FirstRows
    /\ open = TRUE
    /\ entry = NoEntry
    /\ reader = [r \in Readers |-> IdleReader]
    /\ writer = [w \in Writers |-> "idle"]
    /\ hist = [tainted |-> FALSE, may |-> {Standing}, held |-> {Standing} \cap Roles]

-----------------------------------------------------------------------------
(* get_org_context.                                                        *)

\* A hit decides at once, without the database; a malformed entry is
\* dropped; everything else falls through to the row.
Get(r) ==
    /\ reader[r].pc = "idle"
    /\ reader' = [reader EXCEPT ![r] =
         [pc |-> CASE entry.value \in Roles -> "granted"
                   [] entry.value = "corrupt" -> "purge"
                   [] entry.value = "none" -> "read",
          role |-> IF entry.value \in Roles THEN entry.value ELSE "none",
          may |-> hist.may]]
    /\ UNCHANGED <<caller, open, entry, writer, hist>>

Purge(r) ==
    /\ reader[r].pc = "purge"
    /\ entry' = NoEntry
    /\ hist' = [hist EXCEPT !.tainted = FALSE]
    /\ reader' = [reader EXCEPT ![r].pc = "read"]
    /\ UNCHANGED <<caller, open, writer>>

\* A membership of any status counts.
GrantingAnyStatus == IF caller.status # "absent" /\ open THEN caller.role ELSE "none"

\* What the query finds: a role to act in, or a reason for a 404.
Granting == Standing

\* Every answer of the database is cached, refusals too.
ReadCachesRefusals(r) ==
    /\ reader[r].pc = "read"
    /\ reader' = [reader EXCEPT ![r].pc = "set", ![r].role = Granting]
    /\ UNCHANGED <<caller, open, entry, writer, hist>>

Read(r) ==
    /\ reader[r].pc = "read"
    /\ reader' = [reader EXCEPT ![r] =
         IF Granting = "none" THEN IdleReader
         ELSE [@ EXCEPT !.pc = "set", !.role = Granting]]
    /\ UNCHANGED <<caller, open, entry, writer, hist>>

\* The entry carries what Read found, however long ago that was.
Set(r) ==
    /\ reader[r].pc = "set"
    /\ entry' = [value |-> reader[r].role, left |-> TTL]
    /\ hist' = [hist EXCEPT !.tainted = reader[r].role # Standing]
    /\ reader' = [reader EXCEPT ![r].pc = "granted"]
    /\ UNCHANGED <<caller, open, writer>>

\* The handler has run; or Redis failed, or the server died, on the way.
Finish(r) ==
    /\ reader[r].pc # "idle"
    /\ reader' = [reader EXCEPT ![r] = IdleReader]
    /\ UNCHANGED <<caller, open, entry, writer, hist>>

-----------------------------------------------------------------------------
(* MembershipService._commit and the organization's deactivation.          *)

\* The rows an operation may leave behind: an invitation inserts, the others
\* write the column they change over whatever they find.
Rewrites(m) ==
    IF m.status = "absent"
    THEN {[role |-> x, status |-> "pending"] : x \in Roles}
    ELSE {[m EXCEPT !.role = x] : x \in Roles}
           \cup {[m EXCEPT !.status = x] : x \in {"active", "suspended"}}

\* What the row's change means to the requests in flight and to come.
Learn(s, taints) ==
    /\ reader' = [r \in Readers |->
         IF reader[r].pc = "idle" THEN reader[r]
         ELSE [reader[r] EXCEPT !.may = @ \cup {s}]]
    /\ hist' = [hist EXCEPT
         !.may = @ \cup {s},
         !.held = (@ \cup {s}) \cap Roles,
         !.tainted = @ \/ taints]

\* The commit only; from here on the row is new and the entry still old.
Commit(w) ==
    /\ writer[w] = "idle"
    /\ \E m \in Rewrites(caller) \ {caller} :
         /\ caller' = m
         /\ writer' = [writer EXCEPT ![w] = "owes"]
         /\ Learn(StandingOf(m, open), FALSE)
    /\ UNCHANGED <<open, entry>>

\* The answer goes out without the entry being deleted.
InvalidateNothing(w) ==
    /\ writer[w] = "owes"
    /\ writer' = [writer EXCEPT ![w] = "idle"]
    /\ hist' = [hist EXCEPT
         !.may = IF \E v \in Writers : writer'[v] # "idle" THEN @ ELSE {Standing}]
    /\ UNCHANGED <<caller, open, entry, reader>>

\* The deletion that follows the commit, and the answer to the caller.
Invalidate(w) ==
    /\ writer[w] = "owes"
    /\ entry' = NoEntry
    /\ writer' = [writer EXCEPT ![w] = "idle"]
    /\ hist' = [hist EXCEPT
         !.tainted = FALSE,
         !.may = IF \E v \in Writers : writer'[v] # "idle" THEN @ ELSE {Standing}]
    /\ UNCHANGED <<caller, open, reader>>

\* The server dies, or Redis does not answer, between commit and deletion.
\* The caller is not answered; nobody else ever deletes the entry.
LoseInvalidation(w) ==
    /\ writer[w] = "owes"
    /\ writer' = [writer EXCEPT ![w] = "failed"]
    /\ hist' = [hist EXCEPT !.tainted = entry.value # "none"]
    /\ UNCHANGED <<caller, open, entry, reader>>

\* OrganizationService.deactivate deletes no entry.
CloseOrganization ==
    /\ open
    /\ open' = FALSE
    /\ Learn("none", entry.value # "none")
    /\ UNCHANGED <<caller, entry, writer>>

-----------------------------------------------------------------------------
(* Redis.                                                                  *)

\* The clock without expiry: an entry set without ex.
TickForever ==
    /\ entry.value # "none"
    /\ UNCHANGED cacheVars

\* A second passes, and an entry that has used up its time is gone.
Tick ==
    /\ entry.value # "none"
    /\ entry' = IF entry.left = 1 THEN NoEntry ELSE [entry EXCEPT !.left = @ - 1]
    /\ hist' = [hist EXCEPT !.tainted = @ /\ entry.left # 1]
    /\ UNCHANGED <<caller, open, reader, writer>>

\* An older release left an entry this one cannot read.
Corrupt ==
    /\ entry.value = "none"
    /\ entry' = [value |-> "corrupt", left |-> TTL]
    /\ UNCHANGED <<caller, open, reader, writer, hist>>

Resolve(r) == Get(r) \/ Purge(r) \/ Read(r) \/ Set(r)

CacheNext ==
    \/ \E r \in Readers : Resolve(r) \/ Finish(r)
    \/ \E w \in Writers : Commit(w) \/ Invalidate(w) \/ LoseInvalidation(w)
    \/ CloseOrganization
    \/ Tick \/ Corrupt

CacheSpec == CacheInit /\ [][CacheNext]_cacheVars

\* Time passes, and a resolution or a commit that has begun goes on or fails.
Fairness ==
    /\ WF_cacheVars(Tick)
    /\ \A r \in Readers :
         WF_cacheVars(Purge(r) \/ Read(r) \/ Set(r) \/ Finish(r))
    /\ \A w \in Writers : WF_cacheVars(Invalidate(w) \/ LoseInvalidation(w))

FairSpec == CacheSpec /\ Fairness

-----------------------------------------------------------------------------
\* Only an active membership of an active organization is ever acted on or
\* cached: whoever holds a role, in a request or in Redis, once had it
\* (membership_cache.py, "Only active memberships are cached").
RolesWereHeld ==
    /\ \A r \in Readers : reader[r].role \in hist.held \cup {"none"}
    /\ entry.value \in hist.held \cup {"none", "corrupt"}

\* The ways an entry can outlive its row are the ones marked "tainted", and
\* there is no other: a fill overtaken by a commit, a deletion that was lost,
\* and a deactivated organization.
CoherentUnlessTainted ==
    /\ entry.value \in Roles /\ ~hist.tainted
    /\ \A w \in Writers : writer[w] # "owes"
    => entry.value = Standing

\* Whatever went wrong, once the row and the organization stop changing the
\* cache comes to agree with them for good.
Agrees == entry.value \in Roles => entry.value = Standing

Converges == <>[][UNCHANGED <<caller, open>>]_cacheVars => <>[]Agrees

\* "Revoking or suspending a membership takes effect on the next request"
\* (architecture.md, invariant 7): a request acts on a standing the caller
\* had while the request ran, or that an unanswered write had yet to change.
\* (A deactivated organization is documented to linger.)
NextRequestSeesIt ==
    \A r \in Readers :
      reader[r].pc = "granted" /\ open => reader[r].role \in reader[r].may
=============================================================================
