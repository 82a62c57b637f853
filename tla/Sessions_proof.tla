--------------------------- MODULE Sessions_proof ---------------------------
(***************************************************************************)
(* For every number of requests, every clock and every choice of lives: a  *)
(* token whose revocation took effect stays refused to its last second.    *)
(***************************************************************************)
EXTENDS Sessions, TLAPS

USE DEF Pairs, Times, Tokens, Access, Refresh, Iat, Exp, Issued, Horizon

\* Whoever holds a pair in hand holds one that was issued.
CallsHoldPairs ==
    \A r \in Requests :
      /\ call[r].pc \in {"check", "rotate", "mint", "deny", "deny_refresh"} =>
           Issued(call[r].pair)
      /\ call[r].pc \in {"check", "deny", "deny_refresh"} /\ call[r].op = "logout" =>
           Issued(call[r].other)

\* The cutoff outlives every token it covers.
CutoffLasts == cutoff.at >= 0 => cutoff.until >= cutoff.at + RefreshLife

CutsAreTaken == \A r \in Requests : call[r].pc = "cut" => call[r].at <= clock

\* What is dead is so by an entry of its own or by the cutoff.
DeadHaveEntries ==
    \A tok \in hist.dead :
      /\ Issued(tok[1])
      /\ \/ Exp(tok) < denied[tok] + Second
         \/ ~hist.regressed => Iat(tok) <= cutoff.at

Inv == TypeOK /\ CallsHoldPairs /\ CutoffLasts /\ CutsAreTaken /\ DeadHaveEntries

-----------------------------------------------------------------------------
\* Rounding down to whole seconds takes less than a second.
LEMMA WholeRounds ==
    ASSUME NEW t \in Nat
    PROVE  Whole(t) \in 0..t /\ t < Whole(t) + Second
<1>1. Second \in Nat /\ Second > 0
  BY SessionsAssumption
<1>2. t % Second \in 0..(Second - 1)
  BY <1>1
<1>3. t % Second <= t
  <2>1. CASE t < Second
    BY <1>1, <2>1
  <2>2. CASE ~(t < Second)
    BY <1>1, <1>2, <2>2
  <2> QED BY <2>1, <2>2
<1> QED BY <1>1, <1>2, <1>3 DEF Whole

\* The expiry of an issued token is a time an entry may have.
LEMMA ExpType ==
    ASSUME TypeOK, NEW tok \in Tokens, Issued(tok[1])
    PROVE  /\ tok[1] \in Pairs
           /\ Iat(tok) \in Times
           /\ Exp(tok) \in 0..Horizon
           /\ Exp(tok) <= Iat(tok) + RefreshLife
BY SessionsAssumption DEF TypeOK, Pair, Unissued

\* Entries of both kinds keep the invariant's promise: they are enough.
LEMMA EntriesSuffice == Inv => DeadUntilExpiry
<1> SUFFICES ASSUME Inv, ~hist.regressed, NEW tok \in hist.dead,
                    clock + Second <= Exp(tok)
             PROVE  Revoked(tok)
  BY DEF DeadUntilExpiry
<1>1. tok \in Tokens /\ Issued(tok[1])
  BY DEF Inv, TypeOK, History, DeadHaveEntries
<1>2. Exp(tok) <= Iat(tok) + RefreshLife /\ Iat(tok) \in Nat /\ Exp(tok) \in Nat
  BY <1>1, ExpType, SessionsAssumption DEF Inv
<1>3. CASE Exp(tok) < denied[tok] + Second
  <2>1. denied[tok] \in Int /\ clock \in Int /\ Second \in Int
    BY <1>1, SessionsAssumption DEF Inv, TypeOK
  <2> QED BY <1>2, <1>3, <2>1 DEF Revoked
<1>4. CASE Iat(tok) <= cutoff.at
  <2>1. cutoff.at \in Int /\ cutoff.until \in Int /\ clock \in Nat
    BY SessionsAssumption DEF Inv, TypeOK
  <2>2. cutoff.until >= cutoff.at + RefreshLife
    BY <1>2, <1>4, <2>1 DEF Inv, CutoffLasts
  <2>3. clock < cutoff.until
    BY <1>2, <1>4, <2>1, <2>2, SessionsAssumption
  <2> QED BY <1>4, <2>3 DEF Revoked
<1> QED BY <1>3, <1>4 DEF Inv, DeadHaveEntries

-----------------------------------------------------------------------------
LEMMA InvInit == Init => Inv
BY SessionsAssumption
   DEF Init, Inv, TypeOK, Pair, Unissued, Call, Idle, History, CallsHoldPairs,
       CutoffLasts, CutsAreTaken, DeadHaveEntries

\* Issuing a pair changes nothing about those that are issued.
LEMMA IssueKeeps ==
    ASSUME TypeOK, NEW parent \in 0..MaxPairs, Issue(parent)
    PROVE  /\ pair' \in [Pairs -> Pair]
           /\ \A p \in Pairs : Issued(p) => pair'[p] = pair[p]
<1>1. Whole(clock) \in Times
  <2>1. clock \in Nat /\ clock <= MaxTime /\ MaxTime \in Nat
    BY SessionsAssumption DEF TypeOK
  <2>2. Whole(clock) \in 0..clock
    BY <2>1, WholeRounds
  <2> QED BY <2>1, <2>2
<1> QED BY <1>1, SessionsAssumption DEF TypeOK, Issue, Pair, Unissued

\* Revoking one token.
LEMMA DenyKeeps ==
    ASSUME Inv, NEW tok \in Tokens, Issued(tok[1]), Deny(tok), UNCHANGED <<pair, cutoff>>
    PROVE  /\ denied' \in [Tokens -> 0..Horizon]
           /\ hist' \in History
           /\ DeadHaveEntries'
<1> DEFINE until == clock + TimeLeft(tok)
<1>1. Exp(tok) \in 0..Horizon /\ clock \in Nat
  BY ExpType, SessionsAssumption DEF Inv, TypeOK
<1>2. CASE UNCHANGED <<denied, hist>>
  BY <1>2 DEF Inv, TypeOK, DeadHaveEntries
<1>3. ASSUME TimeLeft(tok) > 0
      PROVE  until \in 0..Horizon /\ Exp(tok) < until + Second
  <2> DEFINE e == Exp(tok)
  <2>1. e - clock \in Int /\ Second \in Nat \ {0}
    BY <1>1, SessionsAssumption
  <2>2. (e - clock) % Second \in 0..(Second - 1)
    BY <2>1
  <2> HIDE DEF e
  <2>3. e - clock \in Nat
    BY <1>3, <2>1, <2>2 DEF TimeLeft, Whole, e
  <2>4. TimeLeft(tok) \in 0..(e - clock) /\ e - clock < TimeLeft(tok) + Second
    BY <2>3, WholeRounds DEF TimeLeft, e
  <2>5. Horizon \in Nat
    BY SessionsAssumption
  <2>6. e \in 0..Horizon
    BY <1>1 DEF e
  <2> QED BY ONLY <1>1, <2>1, <2>4, <2>5, <2>6 DEF e
<1> HIDE DEF until
<1>4. CASE /\ TimeLeft(tok) > 0
           /\ denied' = [denied EXCEPT ![tok] = until]
           /\ hist' = [hist EXCEPT !.dead = @ \cup {tok}]
  <2>1. denied' \in [Tokens -> 0..Horizon] /\ hist' \in History
    BY <1>4, <1>3 DEF Inv, TypeOK, History
  <2>2. hist'.dead = hist.dead \cup {tok} /\ hist'.regressed = hist.regressed
    BY <1>4 DEF Inv, TypeOK, History
  <2>3. hist.dead \subseteq Tokens
    BY DEF Inv, TypeOK, History
  <2>4. \A t \in hist'.dead : Issued(t[1])
    BY <2>2 DEF Inv, DeadHaveEntries
  <2>5. denied'[tok] = until /\ \A t \in Tokens : t # tok => denied'[t] = denied[t]
    BY <1>4 DEF Inv, TypeOK
  <2> QED BY <1>4, <1>3, <2>1, <2>2, <2>3, <2>4, <2>5 DEF Inv, DeadHaveEntries
<1> QED BY <1>2, <1>4 DEF Deny, until

\* A request that goes on to c, when nothing else of the invariant moves.
LEMMA BecomeKeeps ==
    ASSUME Inv, NEW r \in Requests, NEW c \in Call, Become(r, c),
           UNCHANGED <<clock, pair, denied, cutoff, hist>>,
           c.pc \in {"check", "rotate", "mint", "deny", "deny_refresh"} => Issued(c.pair),
           c.pc \in {"check", "deny", "deny_refresh"} /\ c.op = "logout" => Issued(c.other),
           c.pc = "cut" => c.at <= clock
    PROVE  Inv'
<1>1. call' = [call EXCEPT ![r] = c] /\ call' \in [Requests -> Call]
  BY DEF Become, Inv, TypeOK
<1>2. TypeOK'
  BY <1>1 DEF Inv, TypeOK
<1>3. CallsHoldPairs' /\ CutsAreTaken'
  BY <1>1 DEF Inv, TypeOK, CallsHoldPairs, CutsAreTaken
<1> QED BY <1>2, <1>3 DEF Inv, CutoffLasts, DeadHaveEntries

\* A request at work is one of the four kinds of call.
LEMMA CallType ==
    ASSUME Inv, NEW r \in Requests
    PROVE  /\ call[r] \in Call
           /\ call[r].pc \in {"check", "rotate", "mint", "deny", "deny_refresh"} =>
                call[r].pair \in Pairs /\ Issued(call[r].pair)
           /\ call[r].pc \in {"check", "deny", "deny_refresh"} /\ call[r].op = "logout" =>
                call[r].other \in Pairs /\ Issued(call[r].other)
           /\ call[r].pc \in {"deny", "deny_refresh"} => call[r].op = "logout"
           /\ call[r].pc = "cut" => call[r].at \in Times /\ call[r].at <= clock
BY DEF Inv, TypeOK, CallsHoldPairs, CutsAreTaken, Call, Idle

LEMMA LoginKeeps == Inv /\ Login => Inv'
<1> SUFFICES ASSUME Inv, Login PROVE Inv'
  OBVIOUS
<1>1. /\ pair' \in [Pairs -> Pair]
      /\ \A p \in Pairs : Issued(p) => pair'[p] = pair[p]
  BY IssueKeeps, SessionsAssumption DEF Inv, Login
<1>2. TypeOK'
  BY <1>1 DEF Login, Inv, TypeOK
<1>3. CallsHoldPairs'
  BY <1>1, CallType DEF Login, CallsHoldPairs
<1>4. DeadHaveEntries'
  BY <1>1 DEF Login, Inv, TypeOK, History, DeadHaveEntries
<1> QED BY <1>2, <1>3, <1>4 DEF Login, Inv, CutoffLasts, CutsAreTaken

LEMMA CheckKeeps == ASSUME NEW r \in Requests, Inv, Check(r) PROVE Inv'
<1> DEFINE c == call[r]
           rotated == [c EXCEPT !.pc = "rotate"]
           denying == [c EXCEPT !.pc = "deny"]
<1>1. /\ UNCHANGED <<clock, pair, denied, cutoff, hist>>
      /\ \/ Become(r, CutNow)
         \/ c.op # "refresh" /\ Become(r, Idle)
         \/ c.op = "refresh" /\ Become(r, rotated)
         \/ c.op = "logout" /\ Become(r, denying)
  BY DEF Check
<1>2. c.pc = "check" /\ c \in Call /\ c.pair \in Pairs /\ Issued(c.pair)
  BY CallType DEF Check
<1>3. CASE Become(r, CutNow)
  <2>1. CutNow \in Call /\ CutNow.pc = "cut" /\ CutNow.at <= clock
    BY WholeRounds, SessionsAssumption DEF CutNow, Call, Inv, TypeOK
  <2> QED BY ONLY <1>1, <1>3, <2>1, BecomeKeeps, Inv, r \in Requests
<1>4. CASE Become(r, Idle)
  <2>1. Idle \in Call /\ Idle.pc = "idle"
    BY DEF Call, Idle
  <2> QED BY ONLY <1>1, <1>4, <2>1, BecomeKeeps, Inv, r \in Requests
<1>5. CASE c.op = "refresh" /\ Become(r, rotated)
  <2>1. c = [pc |-> "check", op |-> "refresh", pair |-> c.pair]
    BY <1>2, <1>5 DEF Call, Idle
  <2>2. rotated = [pc |-> "rotate", op |-> "refresh", pair |-> c.pair]
    BY <2>1
  <2>3. rotated \in Call /\ rotated.pc = "rotate" /\ Issued(rotated.pair)
    BY <1>2, <2>2 DEF Call
  <2> HIDE DEF rotated
  <2> QED BY <1>1, <1>5, <2>3, BecomeKeeps
<1>6. CASE c.op = "logout" /\ Become(r, denying)
  <2>1. /\ c = [pc |-> "check", op |-> "logout", pair |-> c.pair, other |-> c.other]
        /\ c.other \in Pairs /\ Issued(c.other)
    BY <1>2, <1>6, CallType DEF Call, Idle
  <2>2. denying = [pc |-> "deny", op |-> "logout", pair |-> c.pair, other |-> c.other]
    BY <2>1
  <2>3. denying \in Call /\ denying.pc = "deny" /\ Issued(denying.pair) /\ Issued(denying.other)
    BY <1>2, <2>1, <2>2 DEF Call
  <2> HIDE DEF denying
  <2> QED BY <1>1, <1>6, <2>3, BecomeKeeps
<1> QED BY <1>1, <1>3, <1>4, <1>5, <1>6

\* The three actions that revoke one token end the same way.
LEMMA DenyAndGoOn ==
    ASSUME Inv, NEW r \in Requests, NEW tok \in Tokens, Issued(tok[1]), Deny(tok),
           NEW c \in Call, Become(r, c), UNCHANGED <<clock, pair, cutoff>>,
           c.pc \in {"check", "rotate", "mint", "deny", "deny_refresh"} => Issued(c.pair),
           c.pc \in {"check", "deny", "deny_refresh"} /\ c.op = "logout" => Issued(c.other),
           c.pc # "cut"
    PROVE  Inv'
<1>1. call' = [call EXCEPT ![r] = c] /\ call' \in [Requests -> Call]
  BY DEF Become, Inv, TypeOK
<1>2. denied' \in [Tokens -> 0..Horizon] /\ hist' \in History /\ DeadHaveEntries'
  BY DenyKeeps
<1>3. TypeOK'
  BY <1>1, <1>2 DEF Inv, TypeOK
<1>4. CallsHoldPairs' /\ CutsAreTaken'
  BY <1>1 DEF Inv, TypeOK, CallsHoldPairs, CutsAreTaken
<1> QED BY <1>2, <1>3, <1>4 DEF Inv, CutoffLasts

LEMMA RotateKeeps == ASSUME NEW r \in Requests, Inv, Rotate(r) PROVE Inv'
<1> DEFINE c == [call[r] EXCEPT !.pc = "mint"]
<1>1. call[r].pair \in Pairs /\ Issued(call[r].pair)
  BY CallType DEF Rotate
<1>2. call[r] = [pc |-> "rotate", op |-> "refresh", pair |-> call[r].pair]
  BY CallType DEF Rotate, Call, Idle
<1>3. c = [pc |-> "mint", op |-> "refresh", pair |-> call[r].pair]
  BY <1>2
<1>4. c \in Call /\ c.pc = "mint" /\ c.pair = call[r].pair
  BY <1>1, <1>3 DEF Call
<1>5. Refresh(call[r].pair) \in Tokens /\ Refresh(call[r].pair)[1] = call[r].pair
  BY <1>1
<1> QED BY <1>1, <1>4, <1>5, DenyAndGoOn DEF Rotate

LEMMA DenyAccessKeeps == ASSUME NEW r \in Requests, Inv, DenyAccess(r) PROVE Inv'
<1>1. /\ call[r].pair \in Pairs /\ Issued(call[r].pair)
      /\ call[r].other \in Pairs /\ Issued(call[r].other)
  BY CallType DEF DenyAccess
<1>2. call[r] = [pc |-> "deny", op |-> "logout", pair |-> call[r].pair,
                 other |-> call[r].other]
  BY CallType DEF DenyAccess, Call, Idle
<1> DEFINE e == [call[r] EXCEPT !.pc = "deny_refresh"]
<1>3. e = [pc |-> "deny_refresh", op |-> "logout", pair |-> call[r].pair,
           other |-> call[r].other]
  BY <1>2
<1>4. e \in Call /\ e.pc = "deny_refresh" /\ Issued(e.pair) /\ Issued(e.other)
  BY <1>1, <1>3 DEF Call
<1>5. Idle \in Call /\ Idle.pc = "idle"
  BY DEF Call, Idle
<1>6. Access(call[r].pair) \in Tokens /\ Access(call[r].pair)[1] = call[r].pair
  BY <1>1
<1>7. Become(r, e) \/ Become(r, Idle)
  BY DEF DenyAccess
<1> HIDE DEF e
<1> QED BY <1>1, <1>4, <1>5, <1>6, <1>7, DenyAndGoOn DEF DenyAccess

LEMMA DenyRefreshKeeps == ASSUME NEW r \in Requests, Inv, DenyRefresh(r) PROVE Inv'
<1>1. call[r].other \in Pairs /\ Issued(call[r].other)
  BY CallType DEF DenyRefresh
<1>2. Idle \in Call /\ Idle.pc = "idle"
  BY DEF Call, Idle
<1>3. Refresh(call[r].other) \in Tokens /\ Refresh(call[r].other)[1] = call[r].other
  BY <1>1
<1> QED BY <1>1, <1>2, <1>3, DenyAndGoOn DEF DenyRefresh

LEMMA MintKeeps == ASSUME NEW r \in Requests, Inv, Mint(r) PROVE Inv'
<1>1. call[r].pair \in Pairs
  BY CallType DEF Mint
<1>2. /\ pair' \in [Pairs -> Pair]
      /\ \A p \in Pairs : Issued(p) => pair'[p] = pair[p]
  BY <1>1, IssueKeeps, SessionsAssumption DEF Inv, Mint
<1>3. hist' = hist
  BY DEF Mint
<1>4. call' = [call EXCEPT ![r] = Idle] /\ call' \in [Requests -> Call]
  BY DEF Mint, Become, Inv, TypeOK, Call
<1>5. TypeOK'
  BY <1>2, <1>3, <1>4 DEF Mint, Inv, TypeOK
<1>6. CallsHoldPairs' /\ CutsAreTaken'
  BY <1>2, <1>4, CallType DEF Mint, Inv, TypeOK, CallsHoldPairs, CutsAreTaken, Idle
<1>7. DeadHaveEntries'
  BY <1>2, <1>3 DEF Mint, Inv, TypeOK, History, DeadHaveEntries
<1> QED BY <1>5, <1>6, <1>7 DEF Mint, Inv, CutoffLasts

LEMMA CutKeeps == ASSUME NEW r \in Requests, Inv, Cut(r) PROVE Inv'
<1> DEFINE at == call[r].at
<1>1. at \in Times /\ at <= clock /\ clock \in Times
  BY CallType DEF Cut, Inv, TypeOK
<1>2. cutoff' = [at |-> at, until |-> clock + RefreshLife]
  BY DEF Cut, CutoffEntry
<1>3. /\ hist'.dead = hist.dead \cup {tok \in Tokens : Issued(tok[1]) /\ Iat(tok) <= at}
      /\ hist'.regressed = (hist.regressed \/ at < cutoff.at)
      /\ hist' \in History
  BY DEF Cut, Inv, TypeOK, History
<1>4. call' = [call EXCEPT ![r] = Idle] /\ call' \in [Requests -> Call]
  BY DEF Cut, Become, Inv, TypeOK, Call
<1>5. TypeOK'
  BY <1>1, <1>2, <1>3, <1>4, SessionsAssumption DEF Cut, Inv, TypeOK
<1>6. CallsHoldPairs' /\ CutsAreTaken'
  BY <1>4 DEF Cut, Inv, TypeOK, CallsHoldPairs, CutsAreTaken, Idle
<1>7. CutoffLasts'
  BY <1>1, <1>2, SessionsAssumption DEF CutoffLasts
<1>8. DeadHaveEntries'
  <2> SUFFICES ASSUME NEW tok \in hist'.dead
               PROVE  /\ Issued(tok[1])
                      /\ Exp(tok) < denied[tok] + Second \/ (~hist'.regressed => Iat(tok) <= at)
    BY <1>2 DEF Cut, DeadHaveEntries
  <2>1. CASE tok \in Tokens /\ Issued(tok[1]) /\ Iat(tok) <= at
    BY <2>1
  <2>2. CASE tok \in hist.dead
    <3>1. tok \in Tokens /\ Issued(tok[1]) /\ Iat(tok) \in Times /\ cutoff.at \in Int
      BY <2>2, ExpType, SessionsAssumption DEF Inv, TypeOK, History, DeadHaveEntries
    <3>2. Exp(tok) < denied[tok] + Second \/ (~hist.regressed => Iat(tok) <= cutoff.at)
      BY <2>2 DEF Inv, DeadHaveEntries
    <3>3. /\ hist.regressed => hist'.regressed
          /\ at < cutoff.at => hist'.regressed
      BY <1>3, Zenon
    <3>4. ~(at < cutoff.at) => cutoff.at <= at
      BY <1>1, <3>1
    <3> QED BY <1>1, <3>1, <3>2, <3>3, <3>4
  <2> QED BY <1>3, <2>1, <2>2
<1> QED BY <1>5, <1>6, <1>7, <1>8 DEF Inv

LEMMA TickKeeps == Inv /\ Tick => Inv'
<1> SUFFICES ASSUME Inv, Tick PROVE Inv'
  OBVIOUS
<1>1. clock' \in Times /\ clock <= clock'
  BY SessionsAssumption DEF Inv, TypeOK, Tick
<1>2. CutsAreTaken'
  BY <1>1, CallType, SessionsAssumption DEF Tick, Inv, TypeOK, CutsAreTaken
<1> QED
  BY <1>1, <1>2 DEF Tick, Inv, TypeOK, CallsHoldPairs, CutoffLasts, DeadHaveEntries

\* Requests that begin, and requests that are abandoned.
LEMMA BeginKeeps ==
    ASSUME Inv, NEW r \in Requests, NEW p \in Pairs, NEW q \in Pairs,
           BeginRefresh(r, p) \/ BeginLogout(r, p, q) \/ BeginLogoutAll(r, p)
    PROVE  Inv'
<1>1. CASE BeginRefresh(r, p)
  <2> DEFINE c == [pc |-> "check", op |-> "refresh", pair |-> p]
  <2>1. c \in Call /\ Issued(p)
    BY <1>1 DEF Call, BeginRefresh, Decodes
  <2> QED BY <1>1, <2>1, BecomeKeeps DEF BeginRefresh
<1>2. CASE BeginLogout(r, p, q)
  <2> DEFINE c == [pc |-> "check", op |-> "logout", pair |-> p, other |-> q]
  <2>1. c \in Call /\ Issued(p) /\ Issued(q)
    BY <1>2 DEF Call, BeginLogout, Decodes
  <2> QED BY <1>2, <2>1, BecomeKeeps DEF BeginLogout
<1>3. CASE BeginLogoutAll(r, p)
  <2> DEFINE c == [pc |-> "check", op |-> "logout_all", pair |-> p]
  <2>1. c \in Call /\ Issued(p)
    BY <1>3 DEF Call, BeginLogoutAll, Decodes
  <2> QED BY <1>3, <2>1, BecomeKeeps DEF BeginLogoutAll
<1> QED BY <1>1, <1>2, <1>3

LEMMA InvNext == Inv /\ [Next]_vars => Inv'
<1> SUFFICES ASSUME Inv, [Next]_vars PROVE Inv'
  OBVIOUS
<1>1. CASE Login
  BY <1>1, LoginKeeps
<1>2. CASE Tick
  BY <1>2, TickKeeps
<1>3. ASSUME NEW r \in Requests, NEW p \in Pairs, NEW q \in Pairs,
             BeginRefresh(r, p) \/ BeginLogout(r, p, q) \/ BeginLogoutAll(r, p)
      PROVE  Inv'
  BY <1>3, BeginKeeps
<1>4. ASSUME NEW r \in Requests, Check(r) \/ Rotate(r) \/ Mint(r) PROVE Inv'
  BY <1>4, CheckKeeps, RotateKeeps, MintKeeps
<1>5. ASSUME NEW r \in Requests, DenyAccess(r) \/ DenyRefresh(r) \/ Cut(r) PROVE Inv'
  BY <1>5, DenyAccessKeeps, DenyRefreshKeeps, CutKeeps
<1>6. ASSUME NEW r \in Requests, Abandon(r) PROVE Inv'
  <2>1. Idle \in Call /\ Idle.pc = "idle"
    BY DEF Call, Idle
  <2> QED BY <1>6, <2>1, BecomeKeeps DEF Abandon
<1>7. CASE UNCHANGED vars
  BY <1>7 DEF vars, Inv, TypeOK, CallsHoldPairs, CutoffLasts, CutsAreTaken, DeadHaveEntries
<1> QED BY <1>1, <1>2, <1>3, <1>4, <1>5, <1>6, <1>7 DEF Next

LEMMA Invariance == Spec => []Inv
BY InvInit, InvNext, PTL DEF Spec

\* The variables keep their types.
THEOREM SessionsTypeCorrect == Spec => []TypeOK
<1>1. Inv => TypeOK
  BY DEF Inv
<1> QED BY <1>1, Invariance, PTL

\* For every clock, lifetime and number of requests: what a revocation killed
\* is refused to its last second, unless an older cutoff overtook a later one.
THEOREM RevocationHolds == Spec => []DeadUntilExpiry
BY EntriesSuffice, Invariance, PTL
=============================================================================
