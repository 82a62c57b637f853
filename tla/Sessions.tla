------------------------------ MODULE Sessions ------------------------------
(***************************************************************************)
(* The token pairs of one user: AuthService over the deny-list in Redis,   *)
(* with the clock.                                                         *)
(*                                                                         *)
(* A token is valid by its signature and its expiry; what Redis holds are  *)
(* the exceptions, each with a time to live: one entry per token that was  *)
(* logged out or traded, and one cutoff per user.  Every call to Redis is  *)
(* a step, and time may pass between any two.  Anybody who ever held a     *)
(* token may present it again.  One user is enough: no key of Redis and no *)
(* token belongs to two.                                                   *)
(*                                                                         *)
(* A token's times and a time to live are whole seconds, rounded down; the *)
(* clock ticks more than once in a second.                                 *)
(*                                                                         *)
(* The account lookups only ever refuse, as Abandon does, and are left     *)
(* out; is_revoked's two reads are one step.                               *)
(***************************************************************************)
EXTENDS Integers, FiniteSets

CONSTANTS
    Requests,     \* requests in flight at the same time
    MaxPairs,     \* bound on the pairs ever issued
    MaxTime,      \* bound on the clock
    Second,       \* ticks of the clock in a second
    AccessLife,   \* access_token_expire_minutes
    RefreshLife,  \* refresh_token_expire_days
    Leeway        \* CLOCK_SKEW_LEEWAY_SECONDS

ASSUME SessionsAssumption ==
    /\ MaxPairs \in Nat /\ MaxTime \in Nat /\ Leeway \in Nat /\ Second \in Nat \ {0}
    /\ AccessLife \in Nat \ {0} /\ RefreshLife \in Nat \ {0}
    /\ AccessLife <= RefreshLife

VARIABLES
    clock,
    pair,    \* the pairs issued: when, and from which pair's refresh token
    denied,  \* revoked:jti, per token: when the entry expires
    cutoff,  \* revoked:user: the cutoff, and when the entry expires
    call,    \* what each request is doing
    hist     \* history: no action's guard reads it

vars == <<clock, pair, denied, cutoff, call, hist>>

\* int(): what is left of a number of ticks in whole seconds.
Whole(t) == t - (t % Second)

Pairs == 1..MaxPairs
Times == 0..MaxTime
Tokens == Pairs \X {"access", "refresh"}

Access(p) == <<p, "access">>
Refresh(p) == <<p, "refresh">>

\* parent is 0 for a pair issued at login or registration.
Unissued == [iat |-> -1, parent |-> 0]
Pair == [iat : Times, parent : 0..MaxPairs] \cup {Unissued}

Issued(p) == pair[p] # Unissued

Iat(tok) == pair[tok[1]].iat
Exp(tok) == Iat(tok) + (IF tok[2] = "access" THEN AccessLife ELSE RefreshLife)

\* The end of the longest entry anybody writes.
Horizon == MaxTime + RefreshLife

Idle == [pc |-> "idle"]
Call ==
    {Idle}
      \cup [pc : {"check", "rotate", "mint"}, op : {"refresh"}, pair : Pairs]
      \cup [pc : {"check", "deny", "deny_refresh"}, op : {"logout"},
            pair : Pairs, other : Pairs]
      \cup [pc : {"check"}, op : {"logout_all"}, pair : Pairs]
      \cup [pc : {"cut"}, at : Times]

\* dead: tokens whose revocation took effect.  regressed: an older cutoff
\* replaced a later one.
History == [dead : SUBSET Tokens, regressed : BOOLEAN]

Init ==
    /\ clock = 0
    /\ pair = [p \in Pairs |-> Unissued]
    /\ denied = [tok \in Tokens |-> 0]
    /\ cutoff = [at |-> -1, until |-> 0]
    /\ call = [r \in Requests |-> Idle]
    /\ hist = [dead |-> {}, regressed |-> FALSE]

-----------------------------------------------------------------------------
\* decode_token: an expired token passes for the leeway.
Decodes(tok) == Issued(tok[1]) /\ clock < Exp(tok) + Leeway

\* A token of the very second of the cutoff survives it.
RevokedStrictly(tok) ==
    \/ clock < denied[tok]
    \/ clock < cutoff.until /\ Iat(tok) < cutoff.at

\* RevocationStore.is_revoked.
Revoked(tok) ==
    \/ clock < denied[tok]
    \/ clock < cutoff.until /\ Iat(tok) <= cutoff.at

\* The token would let a request in now.
Accepted(tok) == Decodes(tok) /\ ~Revoked(tok)

Become(r, c) == call' = [call EXCEPT ![r] = c]

\* seconds_until_expiry.
TimeLeft(tok) == Whole(Exp(tok) - clock)

\* revoke: the entry lives as long as the token has left, if it has any left.
Deny(tok) ==
    IF TimeLeft(tok) > 0
    THEN /\ denied' = [denied EXCEPT ![tok] = clock + TimeLeft(tok)]
         /\ hist' = [hist EXCEPT !.dead = @ \cup {tok}]
    ELSE UNCHANGED <<denied, hist>>

\* create_token_pair, for the next unused pair of identifiers.
Issue(parent) ==
    \E p \in Pairs :
      /\ ~Issued(p) /\ \A q \in Pairs : q < p => Issued(q)
      /\ pair' = [pair EXCEPT ![p] = [iat |-> Whole(clock), parent |-> parent]]

Login ==
    /\ Issue(0)
    /\ UNCHANGED <<clock, denied, cutoff, call, hist>>

-----------------------------------------------------------------------------
BeginRefresh(r, p) ==
    /\ call[r] = Idle /\ Decodes(Refresh(p))
    /\ Become(r, [pc |-> "check", op |-> "refresh", pair |-> p])
    /\ UNCHANGED <<clock, pair, denied, cutoff, hist>>

\* The access token authenticates; the refresh token q comes in the body.
BeginLogout(r, p, q) ==
    /\ call[r] = Idle /\ Decodes(Access(p)) /\ Issued(q)
    /\ Become(r, [pc |-> "check", op |-> "logout", pair |-> p, other |-> q])
    /\ UNCHANGED <<clock, pair, denied, cutoff, hist>>

BeginLogoutAll(r, p) ==
    /\ call[r] = Idle /\ Decodes(Access(p))
    /\ Become(r, [pc |-> "check", op |-> "logout_all", pair |-> p])
    /\ UNCHANGED <<clock, pair, denied, cutoff, hist>>

\* revoke_all_for_user takes the time first and writes it later.
CutNow == [pc |-> "cut", at |-> Whole(clock)]

\* A refresh token that is revoked, by whatever entry, counts as reused.
Check(r) ==
    LET c == call[r]
        admits == CASE c.op = "refresh" -> ~Revoked(Refresh(c.pair))
                    [] c.op \in {"logout", "logout_all"} -> ~Revoked(Access(c.pair))
    IN  /\ c.pc = "check"
        /\ \/ c.op = "refresh" /\ ~admits /\ Become(r, CutNow)
           \/ c.op = "refresh" /\ admits /\ Become(r, [c EXCEPT !.pc = "rotate"])
           \/ c.op # "refresh" /\ ~admits /\ Become(r, Idle)
           \/ c.op = "logout" /\ admits /\ Become(r, [c EXCEPT !.pc = "deny"])
           \/ c.op = "logout_all" /\ admits /\ Become(r, CutNow)
        /\ UNCHANGED <<clock, pair, denied, cutoff, hist>>

\* The token is traded without being revoked.
RotateNothing(r) ==
    /\ call[r].pc = "rotate"
    /\ Become(r, [call[r] EXCEPT !.pc = "mint"])
    /\ UNCHANGED <<clock, pair, denied, cutoff, hist>>

Rotate(r) ==
    /\ call[r].pc = "rotate"
    /\ Deny(Refresh(call[r].pair))
    /\ Become(r, [call[r] EXCEPT !.pc = "mint"])
    /\ UNCHANGED <<clock, pair, cutoff>>

Mint(r) ==
    /\ call[r].pc = "mint"
    /\ Issue(call[r].pair)
    /\ Become(r, Idle)
    /\ UNCHANGED <<clock, denied, cutoff, hist>>

DenyAccess(r) ==
    /\ call[r].pc = "deny"
    /\ Deny(Access(call[r].pair))
    /\ Become(r, IF Decodes(Refresh(call[r].other))
                 THEN [call[r] EXCEPT !.pc = "deny_refresh"] ELSE Idle)
    /\ UNCHANGED <<clock, pair, cutoff>>

DenyRefresh(r) ==
    /\ call[r].pc = "deny_refresh"
    /\ Deny(Refresh(call[r].other))
    /\ Become(r, Idle)
    /\ UNCHANGED <<clock, pair, cutoff>>

\* The days are taken for minutes, or the minutes for days.
CutoffTooLong(at) == [at |-> at, until |-> clock + 60 * RefreshLife]

\* The entry lives as long as an access token does.
CutoffTooShort(at) == [at |-> at, until |-> clock + AccessLife]

CutoffEntry(at) == [at |-> at, until |-> clock + RefreshLife]

Cut(r) ==
    /\ call[r].pc = "cut"
    /\ cutoff' = CutoffEntry(call[r].at)
    /\ hist' = [hist EXCEPT
         !.dead = @ \cup {tok \in Tokens : Issued(tok[1]) /\ Iat(tok) <= call[r].at},
         !.regressed = @ \/ call[r].at < cutoff.at]
    /\ Become(r, Idle)
    /\ UNCHANGED <<clock, pair, denied>>

\* The account is refused, the client goes away, Redis or the server fails.
Abandon(r) ==
    /\ call[r].pc # "idle"
    /\ Become(r, Idle)
    /\ UNCHANGED <<clock, pair, denied, cutoff, hist>>

Tick ==
    /\ clock < MaxTime
    /\ clock' = clock + 1
    /\ UNCHANGED <<pair, denied, cutoff, call, hist>>

Next ==
    \/ Login \/ Tick
    \/ \E r \in Requests :
         \/ \E p \in Pairs : BeginRefresh(r, p) \/ BeginLogoutAll(r, p)
         \/ \E p, q \in Pairs : BeginLogout(r, p, q)
         \/ Check(r) \/ Rotate(r) \/ Mint(r)
         \/ DenyAccess(r) \/ DenyRefresh(r) \/ Cut(r) \/ Abandon(r)

Spec == Init /\ [][Next]_vars

-----------------------------------------------------------------------------
TypeOK ==
    /\ clock \in Times
    /\ pair \in [Pairs -> Pair]
    /\ denied \in [Tokens -> 0..Horizon]
    /\ cutoff \in [at : {-1} \cup Times, until : 0..Horizon]
    /\ call \in [Requests -> Call]
    /\ hist \in History

\* A token whose revocation took effect is refused until it expires, or until
\* less than the second is left that rounding takes from its entry: whichever
\* of the two kinds the entry is, and only a cutoff that overtakes a later one
\* undoes it ("Kill one token", "Log a user out of everything",
\* revocation.py:41 and 54).
DeadUntilExpiry ==
    ~hist.regressed =>
      \A tok \in hist.dead : clock + Second <= Exp(tok) => Revoked(tok)

\* "A cutoff timestamp; every token issued before it is dead" (revocation.py):
\* the same of the cutoffs that were ever set, not only of the last one.
EveryCutoffStands ==
    \A tok \in hist.dead : clock + Second <= Exp(tok) => Revoked(tok)

\* "Trade a refresh token for a new pair, and kill the one presented"
\* (auth_service.py, refresh): during its life no token is traded for two
\* pairs.  (After it the leeway reopens the trade: see DeadIsRefused.)
OneTrade ==
    \A p, q \in Pairs :
      /\ Issued(p) /\ Issued(q) /\ p # q
      /\ pair[p].parent = pair[q].parent /\ pair[p].parent # 0
      => \/ Iat(Access(p)) >= Exp(Refresh(pair[p].parent))
         \/ Iat(Access(q)) >= Exp(Refresh(pair[p].parent))

\* An expired token need not be denied, "since decode_token rejects it before
\* the deny-list is ever consulted" (revocation.py): what was revoked is
\* never accepted again.
DeadIsRefused == \A tok \in hist.dead : ~Accepted(tok)

\* "A second presentation of the same jti means two parties hold it": only a
\* token that was itself traded or logged out makes a refresh revoke every
\* session.
ReuseIsReuse ==
    [][\A r \in Requests :
         /\ call[r].pc = "check" /\ call[r].op = "refresh"
         /\ call'[r].pc = "cut"
         => denied[Refresh(call[r].pair)] # 0]_vars

\* "Log a user out of everything, everywhere" (revocation.py): no pair that
\* was traded for a refresh token the cutoff covers is still accepted.
CutIsComplete ==
    \A p \in Pairs :
      Issued(p) /\ pair[p].parent # 0 /\ clock < cutoff.until =>
        (Iat(Refresh(pair[p].parent)) <= cutoff.at => ~Accepted(Refresh(p)))
=============================================================================
