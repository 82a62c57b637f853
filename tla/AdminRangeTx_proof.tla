-------------------------- MODULE AdminRangeTx_proof --------------------------
(***************************************************************************)
(* For every set of memberships, organizations and transactions: once      *)
(* committed, the counter of the trigger is exact, and the commits keep    *)
(* the promise of AdminRange for each organization.                        *)
(***************************************************************************)
EXTENDS AdminRangeTx, FiniteSetTheorems, SequenceTheorems, TLAPS

\* What a row counts for an organization.
Share(n, o) == IF n.org = o /\ Counted(n) THEN 1 ELSE 0

\* By how much the number of an organization's admins moves when t commits.
Gain(t, o) ==
    IF tx[t].member \in Members
    THEN Share(tx[t].row, o) - Share(rows[tx[t].member], o) ELSE 0

\* How much of that the trigger has still to adjust.
Due(s, o) ==
    (IF Len(s) >= 1 /\ s[1][1] = o THEN s[1][2] ELSE 0)
      + (IF Len(s) >= 2 /\ s[2][1] = o THEN s[2][2] ELSE 0)

\* At most two adjustments, of different organizations.
Todo ==
    {s \in Seq(Orgs \X {-1, 1}) :
       Len(s) <= 2 /\ (Len(s) = 2 => s[1][1] # s[2][1])}

\* A version of an organization a transaction may hold.
Version == [active : BOOLEAN, max : 1..MaxCeiling, count : Int]

TxType(e) ==
    /\ e.open = TRUE
    /\ e.member \in Members \cup {NoMember} /\ e.row \in Membership
    /\ e.member \notin Members => e.todo = <<>>
    /\ e.todo \in Todo
    /\ DOMAIN e.work \subseteq Orgs
    /\ \A o \in DOMAIN e.work : e.work[o] \in Version

\* What transaction t wrote, against what is committed: its counters are behind
\* by what is due, and each version is of an organization it founded, it
\* rewrote or whose counter it moved.
Balanced(t) ==
    /\ \A o \in Orgs : Latest(t, o).count + Due(tx[t].todo, o) = orgs[o].count + Gain(t, o)
    /\ tx[t].row # Absent /\ tx[t].member \in Members =>
         Exists(tx[t].row.org) \/ tx[t].row.org \in DOMAIN tx[t].work
    /\ \A o \in DOMAIN tx[t].work :
         /\ RangeCheck(tx[t].work[o])
         /\ Due(tx[t].todo, o) = 0 => FloorCheck(tx[t].work[o])
         /\ tx[t].member \in Members /\ Exists(o) =>
              tx[t].work[o].max = orgs[o].max /\ tx[t].work[o].active = orgs[o].active
         /\ tx[t].member \notin Members =>
              /\ Exists(o)
              /\ \/ tx[t].work[o].active = orgs[o].active
                 \/ tx[t].work[o].active = FALSE /\ tx[t].work[o].max = orgs[o].max
         /\ ~Exists(o) => tx[t].work[o].active = TRUE

\* Open transactions wrote different rows.
Locked ==
    \A s, t \in Txs :
      s # t /\ tx[s].open /\ tx[t].open =>
        /\ tx[s].member \in Members => tx[s].member # tx[t].member
        /\ \A o \in DOMAIN tx[s].work : o \notin DOMAIN tx[t].work

\* Organizations as they are committed.
InRange ==
    \A o \in Orgs :
      IF Exists(o) THEN RangeCheck(orgs[o]) /\ FloorCheck(orgs[o])
      ELSE orgs[o] = NoOrganization

Inv ==
    /\ TypeOK /\ CounterExact /\ InRange /\ Locked
    /\ tx = [t \in Txs |-> tx[t]]
    /\ \A t \in Txs : tx[t].open \in BOOLEAN
    /\ \A t \in Txs : tx[t].open => TxType(tx[t]) /\ Balanced(t)

-----------------------------------------------------------------------------
LEMMA AbsentCounts == ~Counted(Absent) /\ \A o : Share(Absent, o) = 0
BY DEF Absent, Counted, Share

LEMMA MembershipType ==
    ASSUME NEW n \in Membership
    PROVE  /\ n # Absent => n.org \in Orgs
           /\ Counted(n) => n.org \in Orgs
           /\ \A o : Share(n, o) \in {0, 1}
BY AbsentCounts DEF Membership, Share

LEMMA AdminsFinite ==
    ASSUME NEW o \in Orgs
    PROVE  /\ IsFiniteSet(AdminsOf(o)) /\ Cardinality(AdminsOf(o)) \in Nat
           /\ Cardinality(AdminsOf(o)) <= Cardinality(Members)
           /\ Cardinality(Members) \in Nat
<1>1. AdminsOf(o) \subseteq Members
  BY DEF AdminsOf
<1>2. IsFiniteSet(Members)
  BY TxAssumption
<1> QED BY <1>1, <1>2, FS_Subset, FS_CardinalityType

\* Sequences of one and of two.
LEMMA Both ==
    ASSUME NEW S, NEW a \in S, NEW b \in S
    PROVE  LET s == <<a>> \o <<b>>
           IN  s \in Seq(S) /\ Len(s) = 2 /\ s[1] = a /\ s[2] = b
<1>1. /\ <<a>> \in Seq(S) /\ Len(<<a>>) = 1 /\ <<a>>[1] = a
      /\ <<b>> \in Seq(S) /\ Len(<<b>>) = 1 /\ <<b>>[1] = b
  OBVIOUS
<1> DEFINE u == <<a>>
           v == <<b>>
<1> HIDE DEF u, v
<1>2. /\ u \o v \in Seq(S) /\ Len(u \o v) = 2
      /\ (u \o v)[1] = u[1] /\ (u \o v)[2] = v[1]
  BY <1>1, ConcatProperties DEF u, v
<1> QED BY <1>1, <1>2 DEF u, v

LEMMA UpToTwo ==
    ASSUME NEW S, NEW s \in Seq(S), s # <<>>, Len(s) <= 2
    PROVE  /\ Len(s) \in {1, 2} /\ s[1] \in S /\ Head(s) = s[1]
           /\ Tail(s) \in Seq(S) /\ Len(Tail(s)) = Len(s) - 1
           /\ Len(s) = 2 => s[2] \in S /\ Tail(s)[1] = s[2]
<1>1. Len(s) \in Nat \ {0}
  BY EmptySeq
<1>2. \A i \in 1..Len(s) : s[i] \in S
  BY ElementOfSeq
<1>3. /\ Tail(s) \in Seq(S) /\ Len(Tail(s)) = Len(s) - 1
      /\ \A i \in 1..Len(Tail(s)) : Tail(s)[i] = s[i + 1]
  BY HeadTailProperties
<1>4. Head(s) = s[1]
  OBVIOUS
<1> QED BY <1>1, <1>2, <1>3, <1>4

\* What is due at first is what the write will gain.
LEMMA MovesType ==
    ASSUME NEW old \in Membership, NEW new \in Membership
    PROVE  /\ Moves(old, new) \in Todo
           /\ \A o \in Orgs : Due(Moves(old, new), o) = Share(new, o) - Share(old, o)
<1>1. CASE old.org = new.org /\ Delta(old, new) = 0
  BY <1>1 DEF Moves, Todo, Due, Share, Delta
<1>2. CASE old.org = new.org /\ Delta(old, new) # 0
  <2>1. new.org \in Orgs /\ Delta(old, new) \in {-1, 1}
    BY <1>2, MembershipType DEF Delta
  <2>2. Moves(old, new) = <<<<new.org, Delta(old, new)>>>>
    BY <1>2 DEF Moves
  <2>3. \A o \in Orgs : Due(Moves(old, new), o) = IF new.org = o THEN Delta(old, new) ELSE 0
    BY <2>1, <2>2 DEF Due
  <2> QED BY <1>2, <2>1, <2>2, <2>3 DEF Todo, Share, Delta
<1>3. CASE old.org # new.org /\ Counted(old) /\ Counted(new)
  <2>1. old.org \in Orgs /\ new.org \in Orgs
    BY <1>3, MembershipType
  <2> DEFINE S == Orgs \X {-1, 1}
             a == <<old.org, -1>>
             b == <<new.org, 1>>
             s == <<a>> \o <<b>>
  <2>2. a \in S /\ b \in S
    BY <2>1
  <2>3. Moves(old, new) = s
    BY <1>3 DEF Moves
  <2>4. a[1] = old.org /\ a[2] = -1 /\ b[1] = new.org /\ b[2] = 1
    OBVIOUS
  <2> HIDE DEF a, b, S
  <2>5. s \in Seq(S) /\ Len(s) = 2 /\ s[1] = a /\ s[2] = b
    BY <2>2, Both
  <2> HIDE DEF s
  <2>6. \A o \in Orgs : Due(s, o) =
          (IF old.org = o THEN -1 ELSE 0) + (IF new.org = o THEN 1 ELSE 0)
    BY <2>4, <2>5 DEF Due
  <2>7. Len(s) <= 2 /\ s[1][1] # s[2][1]
    BY <1>3, <2>4, <2>5
  <2>8. s \in Todo
    BY <2>5, <2>7, Zenon DEF Todo, S
  <2> QED BY <1>3, <2>3, <2>6, <2>8 DEF Share
<1>4. CASE old.org # new.org /\ Counted(old) /\ ~Counted(new)
  <2>1. old.org \in Orgs
    BY <1>4, MembershipType
  <2>2. Moves(old, new) = <<<<old.org, -1>>>>
    BY <1>4 DEF Moves
  <2>3. \A o \in Orgs : Due(Moves(old, new), o) = IF old.org = o THEN -1 ELSE 0
    BY <2>1, <2>2 DEF Due
  <2> QED BY <1>4, <2>1, <2>2, <2>3 DEF Todo, Share
<1>5. CASE old.org # new.org /\ ~Counted(old) /\ Counted(new)
  <2>1. new.org \in Orgs
    BY <1>5, MembershipType
  <2>2. Moves(old, new) = <<<<new.org, 1>>>>
    BY <1>5 DEF Moves
  <2>3. \A o \in Orgs : Due(Moves(old, new), o) = IF new.org = o THEN 1 ELSE 0
    BY <2>1, <2>2 DEF Due
  <2> QED BY <1>5, <2>1, <2>2, <2>3 DEF Todo, Share
<1>6. CASE old.org # new.org /\ ~Counted(old) /\ ~Counted(new)
  BY <1>6 DEF Moves, Todo, Due, Share
<1> QED BY <1>1, <1>2, <1>3, <1>4, <1>5, <1>6

LEMMA NothingType == DOMAIN NothingWritten = {}
BY DEF NothingWritten

-----------------------------------------------------------------------------
\* Transaction t goes on to e; nothing is committed.
LEMMA GoesOnKeeps ==
    ASSUME Inv, NEW t \in Txs, NEW e, tx' = [tx EXCEPT ![t] = e],
           UNCHANGED <<orgs, rows>>, TxType(e), Balanced(t)',
           \A s \in Txs \ {t} : tx[s].open =>
             /\ e.member \in Members => tx[s].member # e.member
             /\ \A o \in DOMAIN e.work : o \notin DOMAIN tx[s].work
    PROVE  Inv'
<1>1. tx'[t] = e /\ \A s \in Txs \ {t} : tx'[s] = tx[s]
  BY DEF Inv
<1>2. tx' = [s \in Txs |-> tx'[s]]
  BY DEF Inv
<1>3. e.open = TRUE
  BY DEF TxType
<1>4. TypeOK' /\ CounterExact' /\ InRange'
  BY DEF Inv, TypeOK, CounterExact, InRange, AdminsOf, Refers, Exists
<1>5. Locked'
  BY <1>1 DEF Inv, Locked
<1>6. ASSUME NEW s \in Txs, tx'[s].open PROVE TxType(tx'[s]) /\ Balanced(s)'
  <2>1. CASE s = t
    BY <1>1, <2>1
  <2>2. CASE s # t
    <3>1. tx'[s] = tx[s] /\ TxType(tx[s]) /\ Balanced(s)
      BY <1>1, <1>6, <2>2 DEF Inv
    <3>2. Balanced(s)'
      BY <3>1 DEF Balanced, Latest, Gain, Exists
    <3> QED BY <3>1, <3>2
  <2> QED BY <2>1, <2>2
<1>7. \A s \in Txs : tx'[s].open \in BOOLEAN
  BY <1>1, <1>3 DEF Inv
<1>8. \A s \in Txs : tx'[s].open => TxType(tx[s])' /\ Balanced(s)'
  BY <1>6 DEF TxType
<1> QED BY <1>2, <1>4, <1>5, <1>7, <1>8 DEF Inv

LEMMA RollbackInv == ASSUME Inv, NEW t \in Txs, Rollback(t) PROVE Inv'
<1>1. /\ tx'[t] = Idle /\ \A s \in Txs \ {t} : tx'[s] = tx[s]
      /\ UNCHANGED <<orgs, rows>> /\ tx' = [s \in Txs |-> tx'[s]]
  BY DEF Inv, Rollback
<1>2. ~Idle.open /\ Idle.open \in BOOLEAN
  BY DEF Idle
<1>3. TypeOK' /\ CounterExact' /\ InRange'
  BY <1>1 DEF Inv, TypeOK, CounterExact, InRange, AdminsOf, Refers, Exists
<1>4. Locked'
  BY <1>1, <1>2 DEF Inv, Locked
<1>5. ASSUME NEW s \in Txs, tx'[s].open PROVE TxType(tx[s])' /\ Balanced(s)'
  <2>1. s # t /\ tx'[s] = tx[s] /\ TxType(tx[s]) /\ Balanced(s)
    BY <1>1, <1>2, <1>5 DEF Inv
  <2>2. Balanced(s)'
    BY <1>1, <2>1 DEF Balanced, Latest, Gain, Exists
  <2> QED BY <2>1, <2>2 DEF TxType
<1> QED BY <1>1, <1>2, <1>3, <1>4, <1>5 DEF Inv

LEMMA InvInit == Init => Inv
<1> SUFFICES ASSUME Init PROVE Inv
  OBVIOUS
<1>1. \A t \in Txs : tx[t].open = FALSE
  BY DEF Init, Idle
<1>2. \A o \in Orgs : orgs[o] = NoOrganization /\ ~Exists(o)
  BY DEF Init, Exists, NoOrganization
<1>3. ASSUME NEW o \in Orgs PROVE Cardinality(AdminsOf(o)) = 0
  <2>1. AdminsOf(o) = {}
    BY AbsentCounts DEF Init, AdminsOf
  <2> QED BY <2>1, FS_EmptySet
<1>4. CounterExact /\ InRange
  BY <1>2, <1>3 DEF CounterExact, InRange, NoOrganization
<1>5. Cardinality(Members) \in Nat
  BY TxAssumption, FS_CardinalityType
<1>6. TypeOK
  BY <1>5, TxAssumption DEF Init, TypeOK, Organization, NoOrganization, Membership, Refers
<1>7. tx = [t \in Txs |-> tx[t]]
  BY DEF Init
<1> QED BY <1>1, <1>4, <1>6, <1>7 DEF Inv, Locked

\* A transaction that begins with its write to a membership.
LEMMA WriteInv ==
    ASSUME Inv, NEW t \in Txs, NEW m \in Members, NEW n \in Membership, Write(t, m, n)
    PROVE  Inv'
<1> DEFINE e == Open(m, n, Moves(rows[m], n), NothingWritten)
<1>1. /\ ~tx[t].open /\ RowFree(m) /\ Refers(n) /\ tx' = [tx EXCEPT ![t] = e]
      /\ UNCHANGED <<orgs, rows>>
  BY DEF Write, Begin
<1>2. rows[m] \in Membership
  BY DEF Inv, TypeOK
<1>3. /\ e.open = TRUE /\ e.member = m /\ e.row = n
      /\ e.todo = Moves(rows[m], n) /\ e.work = NothingWritten
  BY DEF Open
<1> HIDE DEF e
<1>4. TxType(e)
  BY <1>2, <1>3, MovesType, NothingType DEF TxType
<1>5. tx'[t] = e
  BY <1>1 DEF Inv
<1>6. \A o \in Orgs : Latest(t, o)' = orgs[o] /\ orgs[o].count \in Int
  BY <1>1, <1>3, <1>5, NothingType DEF Latest, Inv, TypeOK, Organization
<1>7. \A o \in Orgs : Gain(t, o)' = Due(e.todo, o)
  BY <1>1, <1>2, <1>3, <1>5, MovesType DEF Gain
<1>8. \A o \in Orgs : Due(e.todo, o) \in Int
  BY <1>2, <1>3, MovesType DEF Share
<1>9. Balanced(t)'
  BY <1>1, <1>3, <1>5, <1>6, <1>7, <1>8, NothingType DEF Balanced, Refers, Exists
<1>10. \A s \in Txs \ {t} : tx[s].open =>
         /\ e.member \in Members => tx[s].member # e.member
         /\ \A o \in DOMAIN e.work : o \notin DOMAIN tx[s].work
  BY <1>1, <1>3, NothingType DEF RowFree
<1> QED BY <1>1, <1>4, <1>9, <1>10, GoesOnKeeps

\* A transaction that founds an organization.
LEMMA FoundInv ==
    ASSUME Inv, NEW t \in Txs, NEW o \in Orgs, NEW m \in Members, Found(t, o, m)
    PROVE  Inv'
<1> DEFINE n == [org |-> o, role |-> "admin", status |-> "active"]
           new == [active |-> TRUE, max |-> DefaultMax, count |-> 0]
           work == Wrote(NothingWritten, o, new)
           e == Open(m, n, Moves(Absent, n), work)
<1>1. /\ ~tx[t].open /\ RowFree(m) /\ ~Exists(o) /\ Free(t, o) /\ rows[m] = Absent
      /\ tx' = [tx EXCEPT ![t] = e] /\ UNCHANGED <<orgs, rows>>
  BY DEF Found, Begin
<1>2. n \in Membership /\ n.org = o /\ Counted(n) /\ Absent \in Membership
  BY DEF Membership, Roles, Statuses, Counted
<1>3. new \in Version /\ new.max >= 1 /\ new.count = 0 /\ new.active = TRUE
  BY TxAssumption DEF Version
<1>4. RangeCheck(new)
  BY <1>3 DEF RangeCheck, Version
<1> HIDE DEF n, new
<1>5. DOMAIN work = {o} /\ work[o] = new
  BY NothingType DEF Wrote
<1>6. /\ e.open = TRUE /\ e.member = m /\ e.row = n
      /\ e.todo = Moves(Absent, n) /\ e.work = work
  BY DEF Open
<1> HIDE DEF e, work
<1>7. TxType(e)
  BY <1>2, <1>3, <1>5, <1>6, MovesType DEF TxType
<1>8. tx'[t] = e
  BY <1>1 DEF Inv
<1>9. orgs[o].count = 0 /\ \A p \in Orgs : orgs[p].count \in Int
  BY <1>1 DEF Inv, InRange, NoOrganization, TypeOK, Organization
<1>10. \A p \in Orgs : Latest(t, p)' = IF p = o THEN new ELSE orgs[p]
  BY <1>1, <1>5, <1>6, <1>8 DEF Latest
<1>11. \A p \in Orgs : Gain(t, p)' = Due(e.todo, p) /\ Due(e.todo, p) \in Int
  BY <1>1, <1>2, <1>6, <1>8, MovesType DEF Gain, Share
<1>12. Due(e.todo, o) = 1
  BY <1>2, <1>6, MovesType, AbsentCounts DEF Share
<1>13. \A p \in Orgs : Latest(t, p)'.count + Due(tx[t].todo, p)' = orgs'[p].count + Gain(t, p)'
  BY <1>1, <1>3, <1>8, <1>9, <1>10, <1>11 DEF Due
<1>14. Balanced(t)'
  BY <1>1, <1>2, <1>3, <1>4, <1>5, <1>6, <1>8, <1>12, <1>13 DEF Balanced, Exists, Due
<1>15. \A s \in Txs \ {t} : tx[s].open =>
         /\ e.member \in Members => tx[s].member # e.member
         /\ \A p \in DOMAIN e.work : p \notin DOMAIN tx[s].work
  BY <1>1, <1>5, <1>6 DEF RowFree, Free
<1> QED BY <1>1, <1>7, <1>14, <1>15, GoesOnKeeps

\* A transaction that writes an organization, short of its counter.
LEMMA RewriteInv ==
    ASSUME Inv, NEW t \in Txs, NEW o \in Orgs, NEW new \in Version, Rewrite(t, o, new),
           new.count = orgs[o].count,
           \/ new.active = orgs[o].active
           \/ new.active = FALSE /\ new.max = orgs[o].max
    PROVE  Inv'
<1> DEFINE work == Wrote(NothingWritten, o, new)
           e == Open(NoMember, Absent, <<>>, work)
<1>1. /\ ~tx[t].open /\ Exists(o) /\ Free(t, o) /\ RangeCheck(new)
      /\ tx' = [tx EXCEPT ![t] = e] /\ UNCHANGED <<orgs, rows>>
  BY DEF Rewrite, Begin
<1>2. DOMAIN work = {o} /\ work[o] = new
  BY NothingType DEF Wrote
<1>3. /\ e.open = TRUE /\ e.member = NoMember /\ e.row = Absent
      /\ e.todo = <<>> /\ e.work = work
  BY DEF Open
<1> HIDE DEF e, work
<1>4. Absent \in Membership /\ <<>> \in Todo /\ \A p : Due(<<>>, p) = 0
  BY DEF Membership, Todo, Due
<1>5. TxType(e)
  BY <1>2, <1>3, <1>4 DEF TxType
<1>6. tx'[t] = e /\ NoMember \notin Members
  BY <1>1, TxAssumption DEF Inv, NoMember
<1>7. FloorCheck(new)
  BY <1>1 DEF Inv, InRange, FloorCheck, Version
<1>8. \A p \in Orgs : Latest(t, p)'.count = orgs[p].count /\ orgs[p].count \in Int
  BY <1>1, <1>2, <1>3, <1>6 DEF Latest, Inv, TypeOK, Organization
<1>9. \A p \in Orgs : Gain(t, p)' = 0 /\ Due(tx[t].todo, p)' = 0
  BY <1>3, <1>4, <1>6 DEF Gain, Due
<1>10. \A p \in Orgs : Latest(t, p)'.count + Due(tx[t].todo, p)' = orgs'[p].count + Gain(t, p)'
  BY <1>1, <1>8, <1>9
<1>11. Balanced(t)'
  BY <1>1, <1>2, <1>3, <1>6, <1>7, <1>10 DEF Balanced, Exists, Due
<1>12. \A s \in Txs \ {t} : tx[s].open =>
         /\ e.member \in Members => tx[s].member # e.member
         /\ \A p \in DOMAIN e.work : p \notin DOMAIN tx[s].work
  BY <1>1, <1>2, <1>3, <1>6 DEF Free
<1> QED BY <1>1, <1>5, <1>11, <1>12, GoesOnKeeps

\* One adjustment less is due.
LEMMA TailDue ==
    ASSUME NEW s \in Todo, s # <<>>
    PROVE  /\ Tail(s) \in Todo /\ Head(s) \in Orgs \X {-1, 1}
           /\ Due(Tail(s), Head(s)[1]) = 0
           /\ Due(s, Head(s)[1]) = Head(s)[2]
           /\ \A o \in Orgs \ {Head(s)[1]} : Due(Tail(s), o) = Due(s, o)
<1> DEFINE S == Orgs \X {-1, 1}
<1> HIDE DEF S
<1>1. s \in Seq(S) /\ Len(s) <= 2 /\ (Len(s) = 2 => s[1][1] # s[2][1])
  BY DEF Todo, S
<1>2. /\ Len(s) \in {1, 2} /\ s[1] \in S /\ Head(s) = s[1]
      /\ Tail(s) \in Seq(S) /\ Len(Tail(s)) = Len(s) - 1
      /\ Len(s) = 2 => s[2] \in S /\ Tail(s)[1] = s[2]
  BY <1>1, UpToTwo
<1>3. Len(Tail(s)) \in {0, 1}
  BY <1>2
<1>4. Tail(s) \in Todo
  BY <1>2, <1>3 DEF Todo, S
<1>5. s[1][2] \in Int /\ (Len(s) = 2 => s[2][2] \in Int)
  BY <1>2 DEF S
<1> DEFINE n == Len(s)
           k == Len(Tail(s))
           x == s[1]
           y == s[2]
           z == Tail(s)[1]
           w == Tail(s)[2]
<1>6. /\ \A o : Due(Tail(s), o) = (IF k >= 1 /\ z[1] = o THEN z[2] ELSE 0)
                                   + (IF k >= 2 /\ w[1] = o THEN w[2] ELSE 0)
      /\ \A o : Due(s, o) = (IF n >= 1 /\ x[1] = o THEN x[2] ELSE 0)
                             + (IF n >= 2 /\ y[1] = o THEN y[2] ELSE 0)
  BY Zenon DEF Due
<1>7. k = n - 1 /\ (n = 2 => z = y) /\ n \in {1, 2}
  BY <1>2
<1>8. x[2] \in Int /\ (n = 2 => y[2] \in Int) /\ (n = 2 => x[1] # y[1]) /\ Head(s) = x
  BY <1>1, <1>2, <1>5
<1> HIDE DEF n, k, x, y, z, w
<1>9. CASE n = 1
  <2>1. \A o : Due(Tail(s), o) = 0 /\ Due(s, o) = IF x[1] = o THEN x[2] ELSE 0
    BY <1>6, <1>7, <1>8, <1>9
  <2>2. x \in S
    BY <1>2 DEF x
  <2> QED BY <1>4, <1>8, <2>1, <2>2 DEF S
<1>10. CASE n = 2
  <2>1. \A o : /\ Due(Tail(s), o) = IF y[1] = o THEN y[2] ELSE 0
               /\ Due(s, o) = (IF x[1] = o THEN x[2] ELSE 0) + (IF y[1] = o THEN y[2] ELSE 0)
    BY <1>6, <1>7, <1>8, <1>10
  <2>2. x \in S
    BY <1>2 DEF x
  <2> QED BY <1>4, <1>8, <1>10, <2>1, <2>2 DEF S
<1> QED BY <1>7, <1>9, <1>10

LEMMA AdjustInv == ASSUME Inv, NEW t \in Txs, Adjust(t) PROVE Inv'
<1> DEFINE q == tx[t]
           o == Head(q.todo)[1]
           d == Head(q.todo)[2]
           new == Adjusted(Latest(t, o), d)
           work == Wrote(q.work, o, new)
           e == Open(q.member, q.row, Tail(q.todo), work)
<1>1. /\ q.open /\ q.todo # <<>> /\ Free(t, o) /\ RangeCheck(new) /\ FloorCheck(new)
      /\ UNCHANGED <<orgs, rows>>
  BY DEF Adjust
<1>2. TxType(q) /\ Balanced(t)
  BY <1>1 DEF Inv
<1>3. q.todo \in Todo
  BY <1>2 DEF TxType
<1>4. tx' = [tx EXCEPT ![t] = e]
  BY DEF Adjust, Inv
<1>5. /\ e.member = q.member /\ e.row = q.row
      /\ e.todo = Tail(q.todo) /\ e.work = work /\ e.open = TRUE
  BY DEF Open
<1>6. /\ Tail(q.todo) \in Todo /\ o \in Orgs /\ d \in {-1, 1}
      /\ Due(Tail(q.todo), o) = 0 /\ Due(q.todo, o) = d
      /\ \A p \in Orgs \ {o} : Due(Tail(q.todo), p) = Due(q.todo, p)
  BY <1>1, <1>3, TailDue
<1>7. q.member \in Members
  BY <1>1, <1>2 DEF TxType
<1>8. /\ DOMAIN work = DOMAIN q.work \cup {o} /\ work[o] = new
      /\ \A p \in DOMAIN q.work \ {o} : work[p] = q.work[p]
  BY DEF Wrote
<1>9. /\ Latest(t, o) \in [active : BOOLEAN, max : 0..MaxCeiling, count : Int]
      /\ Exists(o) => Latest(t, o).max = orgs[o].max /\ Latest(t, o).active = orgs[o].active
      /\ o \notin DOMAIN q.work => Latest(t, o) = orgs[o]
  BY <1>2, <1>6, <1>7, TxAssumption
     DEF Latest, TxType, Balanced, Version, Inv, TypeOK, Organization
<1>10. /\ new.active = Latest(t, o).active /\ new.max = Latest(t, o).max
       /\ new.count = Latest(t, o).count + d
  BY <1>9 DEF Adjusted
<1>11. new \in Version
  <2>1. new \in [active : BOOLEAN, max : 0..MaxCeiling, count : Int]
    BY <1>6, <1>9 DEF Adjusted
  <2>2. new.max >= 1
    BY <1>1 DEF RangeCheck
  <2> QED BY <2>1, <2>2, TxAssumption DEF Version
<1> HIDE DEF new, work, e, d, o
<1>12. ~Exists(o) => new.active = TRUE
  <2> SUFFICES ASSUME ~Exists(o) PROVE new.active = TRUE
    OBVIOUS
  <2>1. CASE o \in DOMAIN q.work
    BY <1>2, <1>10, <2>1 DEF Balanced, Latest
  <2>2. CASE o \notin DOMAIN q.work
    <3>1. new.max = 0
      BY <1>6, <1>9, <1>10, <2>2 DEF Inv, InRange, NoOrganization
    <3> QED BY <1>1, <3>1 DEF RangeCheck
  <2> QED BY <2>1, <2>2
<1>13. tx'[t] = e /\ tx[t] = q
  BY <1>4 DEF Inv
<1> HIDE DEF q
<1>14. TxType(e)
  BY <1>2, <1>5, <1>6, <1>7, <1>8, <1>11 DEF TxType
<1>15. \A p \in Orgs : Latest(t, p)' = IF p = o THEN new ELSE Latest(t, p)
  BY <1>1, <1>5, <1>8, <1>13 DEF Latest
<1>16. \A p \in Orgs : Gain(t, p)' = Gain(t, p)
  BY <1>1, <1>5, <1>13 DEF Gain
<1>17. \A p \in Orgs :
         /\ Latest(t, p).count \in Int /\ orgs[p].count \in Int
         /\ Due(q.todo, p) \in Int /\ Gain(t, p) \in Int
  <2>1. \A p \in Orgs : Latest(t, p).count \in Int /\ orgs[p].count \in Int
    BY <1>2, <1>13 DEF Latest, TxType, Version, Inv, TypeOK, Organization
  <2>2. \A p \in Orgs : Gain(t, p) \in Int
    BY DEF Gain, Share
  <2>3. \A p \in Orgs : Due(q.todo, p) \in Int
    BY <1>3 DEF Due, Todo
  <2> QED BY <2>1, <2>2, <2>3
<1>18. \A p \in Orgs : Latest(t, p).count + Due(q.todo, p) = orgs[p].count + Gain(t, p)
  BY <1>2, <1>13 DEF Balanced
<1>19. \A p \in Orgs : Latest(t, p)'.count + Due(tx[t].todo, p)' = orgs'[p].count + Gain(t, p)'
  <2> SUFFICES ASSUME NEW p \in Orgs
               PROVE  Latest(t, p)'.count + Due(e.todo, p) = orgs[p].count + Gain(t, p)
    BY <1>1, <1>13, <1>16 DEF Due
  <2>1. CASE p = o
    BY <1>5, <1>6, <1>10, <1>15, <1>17, <1>18, <2>1
  <2>2. CASE p # o
    BY <1>5, <1>6, <1>15, <1>17, <1>18, <2>2
  <2> QED BY <2>1, <2>2
<1>20. q.row # Absent => Exists(q.row.org) \/ q.row.org \in DOMAIN work
  BY <1>2, <1>7, <1>8, <1>13 DEF Balanced
<1>21. ASSUME NEW p \in DOMAIN work
       PROVE  /\ RangeCheck(work[p])
              /\ Due(e.todo, p) = 0 => FloorCheck(work[p])
              /\ Exists(p) => work[p].max = orgs[p].max /\ work[p].active = orgs[p].active
              /\ ~Exists(p) => work[p].active = TRUE
  <2>1. CASE p = o
    BY <1>1, <1>8, <1>9, <1>10, <1>12, <2>1
  <2>2. CASE p # o
    <3>1. p \in DOMAIN q.work /\ work[p] = q.work[p] /\ p \in Orgs
      BY <1>2, <1>8, <1>21, <2>2 DEF TxType
    <3>2. Due(e.todo, p) = Due(q.todo, p)
      BY <1>5, <1>6, <2>2, <3>1
    <3> QED BY <1>2, <1>7, <1>13, <3>1, <3>2 DEF Balanced
  <2> QED BY <2>1, <2>2
<1>22. Balanced(t)'
  BY <1>1, <1>5, <1>7, <1>13, <1>19, <1>20, <1>21 DEF Balanced, Exists, Due
<1>23. \A s \in Txs \ {t} : tx[s].open =>
         /\ e.member \in Members => tx[s].member # e.member
         /\ \A p \in DOMAIN e.work : p \notin DOMAIN tx[s].work
  BY <1>1, <1>5, <1>8, <1>13 DEF Inv, Locked, Free
<1> QED BY <1>1, <1>4, <1>14, <1>22, <1>23, GoesOnKeeps

-----------------------------------------------------------------------------
\* One row moves the number of admins by what it counts.
LEMMA AdminsMove ==
    ASSUME TypeOK, NEW o \in Orgs, NEW m \in Members, NEW n \in Membership,
           rows' = [x \in Members |-> IF x = m THEN n ELSE rows[x]]
    PROVE  /\ Cardinality(AdminsOf(o)') =
                Cardinality(AdminsOf(o)) + Share(n, o) - Share(rows[m], o)
           /\ Share(n, o) = Share(rows[m], o) => AdminsOf(o)' = AdminsOf(o)
           /\ Share(n, o) > Share(rows[m], o) =>
                m \notin AdminsOf(o) /\ AdminsOf(o)' = AdminsOf(o) \cup {m}
           /\ Share(n, o) < Share(rows[m], o) =>
                m \in AdminsOf(o) /\ AdminsOf(o)' = AdminsOf(o) \ {m}
<1> DEFINE A == AdminsOf(o)
           B == {x \in Members : rows'[x].org = o /\ Counted(rows'[x])}
<1>1. B = AdminsOf(o)'
  BY DEF AdminsOf
<1>2. /\ \A x \in Members \ {m} : x \in B <=> x \in A
      /\ m \in A <=> Share(rows[m], o) = 1
      /\ m \in B <=> Share(n, o) = 1
      /\ A \subseteq Members /\ B \subseteq Members
  BY DEF AdminsOf, Share
<1>3. Share(n, o) \in {0, 1} /\ Share(rows[m], o) \in {0, 1}
  BY MembershipType DEF TypeOK
<1>4. IsFiniteSet(A) /\ Cardinality(A) \in Nat
  BY AdminsFinite
<1> HIDE DEF A, B
<1>5. CASE Share(n, o) = Share(rows[m], o)
  <2>1. B = A
    BY <1>2, <1>5
  <2> QED BY <1>1, <1>3, <1>4, <1>5, <2>1 DEF A
<1>6. CASE Share(n, o) > Share(rows[m], o)
  <2>1. Share(n, o) = 1 /\ Share(rows[m], o) = 0
    BY <1>3, <1>6
  <2>2. m \notin A /\ B = A \cup {m}
    BY <1>2, <2>1
  <2>3. Cardinality(A \cup {m}) = Cardinality(A) + 1
    BY <1>4, <2>2, FS_AddElement
  <2> QED BY <1>1, <1>4, <2>1, <2>2, <2>3 DEF A
<1>7. CASE Share(n, o) < Share(rows[m], o)
  <2>1. Share(n, o) = 0 /\ Share(rows[m], o) = 1
    BY <1>3, <1>7
  <2>2. m \in A /\ B = A \ {m}
    BY <1>2, <2>1
  <2>3. Cardinality(A \ {m}) = Cardinality(A) - 1
    BY <1>4, <2>2, FS_RemoveElement
  <2> QED BY <1>1, <1>4, <2>1, <2>2, <2>3 DEF A
<1> QED BY <1>3, <1>5, <1>6, <1>7

\* What a commit of t makes of an organization.
LEMMA Committed ==
    ASSUME Inv, NEW t \in Txs, Commit(t), NEW o \in Orgs
    PROVE  /\ orgs'[o] = Latest(t, o) /\ TxType(tx[t]) /\ Balanced(t)
           /\ Gain(t, o) \in {-1, 0, 1}
           /\ orgs'[o].count = orgs[o].count + Gain(t, o)
           /\ Cardinality(AdminsOf(o)') = Cardinality(AdminsOf(o)) + Gain(t, o)
           /\ Gain(t, o) = 0 => AdminsOf(o)' = AdminsOf(o)
           /\ Gain(t, o) = 1 => /\ tx[t].member \in Members \ AdminsOf(o)
                                /\ AdminsOf(o)' = AdminsOf(o) \cup {tx[t].member}
           /\ Gain(t, o) = -1 => /\ tx[t].member \in AdminsOf(o)
                                 /\ AdminsOf(o)' = AdminsOf(o) \ {tx[t].member}
           /\ Gain(t, o) # 0 => o \in DOMAIN tx[t].work
           /\ o \in DOMAIN tx[t].work =>
                RangeCheck(tx[t].work[o]) /\ FloorCheck(tx[t].work[o])
<1> DEFINE q == tx[t]
<1>1. q.open /\ q.todo = <<>> /\ orgs'[o] = Latest(t, o)
      /\ rows' = [m \in Members |-> IF m = q.member THEN q.row ELSE rows[m]]
  BY DEF Commit
<1>2. TxType(q) /\ Balanced(t)
  BY <1>1 DEF Inv
<1>3. \A p : Due(q.todo, p) = 0
  BY <1>1 DEF Due
<1>4. rows \in [Members -> Membership] /\ orgs[o].count \in Int
  BY DEF Inv, TypeOK, Organization
<1>5. Latest(t, o).count + 0 = orgs[o].count + Gain(t, o) /\ Latest(t, o).count \in Int
  BY <1>2, <1>3, <1>4 DEF Balanced, Latest, TxType, Version
<1>6. Cardinality(AdminsOf(o)) \in Nat
  BY AdminsFinite
<1>7. CASE q.member \in Members
  <2>1. q.row \in Membership /\ rows[q.member] \in Membership
    BY <1>2, <1>4, <1>7 DEF TxType
  <2>2. /\ Gain(t, o) = Share(q.row, o) - Share(rows[q.member], o)
        /\ Share(q.row, o) \in {0, 1} /\ Share(rows[q.member], o) \in {0, 1}
    BY <1>7, <2>1, MembershipType DEF Gain
  <2>3. /\ Cardinality(AdminsOf(o)') =
             Cardinality(AdminsOf(o)) + Share(q.row, o) - Share(rows[q.member], o)
        /\ Share(q.row, o) = Share(rows[q.member], o) => AdminsOf(o)' = AdminsOf(o)
        /\ Share(q.row, o) > Share(rows[q.member], o) =>
             q.member \notin AdminsOf(o) /\ AdminsOf(o)' = AdminsOf(o) \cup {q.member}
        /\ Share(q.row, o) < Share(rows[q.member], o) =>
             q.member \in AdminsOf(o) /\ AdminsOf(o)' = AdminsOf(o) \ {q.member}
    BY <1>1, <1>7, <2>1, AdminsMove DEF Inv
  <2>4. Gain(t, o) # 0 => o \in DOMAIN q.work
    BY <1>4, <1>5, <2>2 DEF Latest
  <2>5. o \in DOMAIN q.work => RangeCheck(q.work[o]) /\ FloorCheck(q.work[o])
    BY <1>2, <1>3 DEF Balanced
  <2> HIDE DEF q
  <2>6. Gain(t, o) \in {-1, 0, 1}
    BY <2>2
  <2> QED BY <1>1, <1>2, <1>4, <1>5, <1>6, <1>7, <2>2, <2>3, <2>4, <2>5, <2>6 DEF q
<1>8. CASE q.member \notin Members
  <2>1. rows' = rows /\ Gain(t, o) = 0
    BY <1>1, <1>4, <1>8 DEF Gain
  <2>2. AdminsOf(o)' = AdminsOf(o)
    BY <2>1 DEF AdminsOf
  <2>3. o \in DOMAIN q.work => RangeCheck(q.work[o]) /\ FloorCheck(q.work[o])
    BY <1>2, <1>3 DEF Balanced
  <2> QED BY <1>1, <1>2, <1>4, <1>5, <1>6, <2>1, <2>2, <2>3
<1> QED BY <1>7, <1>8

LEMMA CommitInv == ASSUME Inv, NEW t \in Txs, Commit(t) PROVE Inv'
<1> DEFINE q == tx[t]
<1>1. /\ q.open /\ TxType(q) /\ Balanced(t)
      /\ rows' = [m \in Members |-> IF m = q.member THEN q.row ELSE rows[m]]
      /\ orgs' = [o \in Orgs |-> Latest(t, o)]
      /\ tx'[t] = Idle /\ \A s \in Txs \ {t} : tx'[s] = tx[s]
      /\ tx' = [s \in Txs |-> tx'[s]]
  BY DEF Commit, Inv
<1>2. \A o \in Orgs : orgs'[o] = IF o \in DOMAIN q.work THEN q.work[o] ELSE orgs[o]
  BY <1>1 DEF Latest
<1>3. ~Idle.open /\ Idle.open \in BOOLEAN
  BY DEF Idle
<1>4. CounterExact'
  <2> SUFFICES ASSUME NEW o \in Orgs PROVE orgs'[o].count = Cardinality(AdminsOf(o)')
    BY DEF CounterExact
  <2>1. orgs[o].count = Cardinality(AdminsOf(o))
    BY DEF Inv, CounterExact
  <2> QED BY <2>1, Committed
<1>5. \A o \in Orgs : Exists(o) => orgs'[o].max > 0
  BY <1>1, <1>2 DEF Exists, TxType, Version
<1>6. \A o \in DOMAIN q.work : o \in Orgs /\ orgs'[o].max > 0
  BY <1>1, <1>2, TxAssumption DEF TxType, Version
<1>7. InRange'
  <2> SUFFICES ASSUME NEW o \in Orgs
               PROVE  IF orgs'[o].max > 0 THEN RangeCheck(orgs'[o]) /\ FloorCheck(orgs'[o])
                      ELSE orgs'[o] = NoOrganization
    BY DEF InRange, Exists
  <2>1. CASE o \in DOMAIN q.work
    BY <1>2, <1>6, <2>1, Committed
  <2>2. CASE o \notin DOMAIN q.work
    BY <1>2, <2>2 DEF Inv, InRange, Exists
  <2> QED BY <2>1, <2>2
<1>8. TypeOK'
  <2>1. ASSUME NEW o \in Orgs PROVE orgs'[o] \in Organization
    <3>1. (orgs'[o] = q.work[o] /\ q.work[o] \in Version) \/ orgs'[o] = orgs[o]
      BY <1>1, <1>2 DEF TxType
    <3>2. IsFiniteSet(AdminsOf(o)') /\ AdminsOf(o)' \subseteq Members
      <4>1. AdminsOf(o)' \subseteq Members
        BY DEF AdminsOf
      <4> QED BY <4>1, TxAssumption, FS_Subset
    <3>3. /\ Cardinality(AdminsOf(o)') \in Nat /\ Cardinality(Members) \in Nat
          /\ Cardinality(AdminsOf(o)') <= Cardinality(Members)
      BY <3>2, TxAssumption, FS_Subset, FS_CardinalityType
    <3>4. orgs'[o].count \in 0..Cardinality(Members)
      BY <1>4, <3>3 DEF CounterExact
    <3> QED BY <3>1, <3>4, TxAssumption DEF Version, Organization, Inv, TypeOK
  <2>2. orgs' \in [Orgs -> Organization]
    BY <1>1, <2>1
  <2>3. rows' \in [Members -> Membership]
    BY <1>1 DEF TxType, Inv, TypeOK
  <2>4. ASSUME NEW m \in Members, rows'[m] # Absent PROVE orgs'[rows'[m].org].max > 0
    <3> DEFINE n == rows'[m]
    <3>1. CASE m = q.member
      <4>1. n = q.row /\ q.row.org \in Orgs
        BY <1>1, <2>4, <3>1, MembershipType DEF TxType
      <4>2. Exists(q.row.org) \/ q.row.org \in DOMAIN q.work
        BY <1>1, <2>4, <3>1, <4>1 DEF Balanced
      <4> QED BY <1>5, <1>6, <4>1, <4>2
    <3>2. CASE m # q.member
      <4>1. n = rows[m] /\ Exists(rows[m].org) /\ rows[m].org \in Orgs
        BY <1>1, <2>4, <3>2, MembershipType DEF Inv, TypeOK, Refers
      <4> QED BY <1>5, <4>1
    <3> QED BY <3>1, <3>2
  <2>5. \A m \in Members : Refers(rows[m])'
    BY <2>4 DEF Refers, Exists
  <2> QED BY <2>2, <2>3, <2>5 DEF TypeOK
<1>9. Locked'
  BY <1>1, <1>3 DEF Inv, Locked
<1>10. ASSUME NEW s \in Txs, tx'[s].open PROVE TxType(tx'[s]) /\ Balanced(s)'
  <2>1. s # t /\ tx'[s] = tx[s] /\ TxType(tx[s]) /\ Balanced(s)
    BY <1>1, <1>3, <1>10 DEF Inv
  <2> DEFINE p == tx[s]
  <2>2. /\ q.member \in Members => q.member # p.member
        /\ \A o \in DOMAIN p.work : o \notin DOMAIN q.work
        /\ \A o \in DOMAIN p.work : o \in Orgs
    BY <1>1, <1>10, <2>1 DEF Inv, Locked, TxType
  <2>3. \A o \in DOMAIN p.work : orgs'[o] = orgs[o]
    BY <1>2, <2>2
  <2>4. p.member \in Members => rows'[p.member] = rows[p.member]
    BY <1>1, <2>2
  <2>5. \A o \in Orgs : Gain(s, o)' = Gain(s, o)
    BY <2>1, <2>4 DEF Gain
  <2>6. \A o \in Orgs :
          Latest(s, o)' = IF o \in DOMAIN p.work THEN p.work[o] ELSE orgs'[o]
    BY <2>1 DEF Latest
  <2>7. ASSUME NEW o \in Orgs
        PROVE  Latest(s, o)'.count + Due(p.todo, o) = orgs'[o].count + Gain(s, o)
    <3>1. Latest(s, o).count + Due(p.todo, o) = orgs[o].count + Gain(s, o)
      BY <2>1 DEF Balanced
    <3>2. CASE o \in DOMAIN p.work
      BY <2>3, <2>6, <3>1, <3>2 DEF Latest
    <3>3. CASE o \notin DOMAIN p.work
      <4>1. p.todo \in Todo
        BY <2>1 DEF TxType
      <4>2. Gain(s, o) \in Int
        BY DEF Gain, Share
      <4>3. orgs[o].count \in Int
        BY DEF Inv, TypeOK, Organization
      <4>4. Latest(s, o) = orgs[o]
        BY <3>3 DEF Latest
      <4>5. Latest(s, o)' = orgs'[o]
        BY <2>6, <3>3
      <4> HIDE DEF p
      <4>6. Due(p.todo, o) \in Int
        BY <4>1 DEF Due, Todo
      <4> DEFINE due == Due(p.todo, o)
                 gain == Gain(s, o)
                 count == orgs[o].count
      <4>7. count + due = count + gain
        BY <3>1, <4>4, Zenon
      <4>8. due \in Int /\ gain \in Int /\ count \in Int
        BY <4>2, <4>3, <4>6
      <4> HIDE DEF due, gain, count
      <4>9. due = gain
        BY <4>7, <4>8
      <4>10. orgs'[o].count + due = orgs'[o].count + gain
        BY <4>9
      <4> QED BY <4>5, <4>10 DEF due, gain
    <3> QED BY <3>2, <3>3
  <2>8. p.row # Absent /\ p.member \in Members =>
          orgs'[p.row.org].max > 0 \/ p.row.org \in DOMAIN p.work
    BY <1>5, <2>1, MembershipType DEF Balanced, TxType
  <2>9. Balanced(s)'
    BY <2>1, <2>2, <2>3, <2>5, <2>7, <2>8 DEF Balanced, Due, Exists
  <2> QED BY <2>1, <2>9
<1>11. \A s \in Txs : tx'[s].open \in BOOLEAN
  BY <1>1, <1>3 DEF Inv
<1>12. \A s \in Txs : tx'[s].open => TxType(tx[s])' /\ Balanced(s)'
  BY <1>10 DEF TxType
<1> QED BY <1>1, <1>4, <1>7, <1>8, <1>9, <1>11, <1>12 DEF Inv

LEMMA InvNext == ASSUME Inv, [Next]_vars PROVE Inv'
<1>1. ASSUME NEW t \in Txs, NEW o \in Orgs, NEW c \in 1..MaxCeiling,
             Rewrite(t, o, [orgs[o] EXCEPT !.max = c])
      PROVE  Inv'
  <2> DEFINE new == [orgs[o] EXCEPT !.max = c]
  <2>1. /\ new \in Version /\ new.count = orgs[o].count
        /\ new.active = orgs[o].active
    BY DEF Inv, TypeOK, Organization, Version
  <2> QED BY <1>1, <2>1, RewriteInv
<1>2. ASSUME NEW t \in Txs, NEW o \in Orgs, Rewrite(t, o, [orgs[o] EXCEPT !.active = FALSE])
      PROVE  Inv'
  <2> DEFINE new == [orgs[o] EXCEPT !.active = FALSE]
  <2>1. Exists(o)
    BY <1>2 DEF Rewrite
  <2>2. orgs[o] \in Organization /\ orgs[o].max >= 1
    BY <2>1, TxAssumption DEF Inv, TypeOK, Organization, Exists
  <2>3. /\ new \in Organization /\ new.count = orgs[o].count
        /\ new.active = FALSE /\ new.max = orgs[o].max
    BY <2>2 DEF Organization
  <2> HIDE DEF new
  <2>4. Cardinality(Members) \in Nat
    BY TxAssumption, FS_CardinalityType
  <2>5. new \in Version
    BY <2>2, <2>3, <2>4, TxAssumption DEF Organization, Version
  <2> QED BY <1>2, <2>3, <2>5, RewriteInv DEF new
<1>3. CASE UNCHANGED vars
  BY <1>3 DEF vars, Inv, TypeOK, CounterExact, AdminsOf, Refers, Exists, InRange, Locked,
              Balanced, Latest, Gain
<1> QED BY <1>1, <1>2, <1>3, FoundInv, WriteInv, AdjustInv, CommitInv, RollbackInv DEF Next

LEMMA InvAlways == Spec => []Inv
<1> QED BY InvInit, InvNext, PTL DEF Spec

\* Rows stay well formed, and no membership refers to an organization that is
\* not there.
THEOREM TxTypeCorrect == Spec => []TypeOK
<1>1. Inv => TypeOK
  BY DEF Inv
<1> QED BY <1>1, InvAlways, PTL

\* The committed counter is exact whatever transactions overlap.
THEOREM CounterExactHolds == Spec => []CounterExact
<1>1. Inv => CounterExact
  BY DEF Inv
<1> QED BY <1>1, InvAlways, PTL

-----------------------------------------------------------------------------
\* The cardinality of the instance is the cardinality.
LEMMA SameCardinality == \A o, S : Promise(o)!Cardinality(S) = Cardinality(S)
BY DEF Cardinality, Promise!Cardinality

\* What a commit is to an organization it leaves alone.
LEMMA UnmovedCommitted ==
    ASSUME NEW o \in Orgs, AdminsOf(o)' = AdminsOf(o),
           orgs'[o].max = orgs[o].max, orgs'[o].active = orgs[o].active
    PROVE  UNCHANGED Promise(o)!vars
BY DEF Promise!vars

\* A commit of a transaction that wrote one membership.
LEMMA RowCommitted ==
    ASSUME Inv, NEW t \in Txs, Commit(t), NEW o \in Orgs, tx[t].member \in Members
    PROVE  [Promise(o)!Next]_(Promise(o)!vars)
<1> DEFINE m == tx[t].member
           A == AdminsOf(o)
<1>1. /\ orgs'[o] = Latest(t, o) /\ TxType(tx[t]) /\ Balanced(t)
      /\ Gain(t, o) \in {-1, 0, 1}
      /\ orgs'[o].count = orgs[o].count + Gain(t, o)
      /\ Gain(t, o) = 0 => AdminsOf(o)' = A
      /\ Gain(t, o) = 1 => m \notin A /\ AdminsOf(o)' = A \cup {m}
      /\ Gain(t, o) = -1 => m \in A /\ AdminsOf(o)' = A \ {m}
      /\ Gain(t, o) # 0 => o \in DOMAIN tx[t].work
  BY Committed
<1>2. /\ orgs[o].count = Cardinality(A) /\ IsFiniteSet(A) /\ Cardinality(A) \in Nat
  BY AdminsFinite DEF Inv, CounterExact
<1>3. o \in DOMAIN tx[t].work =>
        /\ orgs'[o] \in Version /\ RangeCheck(orgs'[o]) /\ FloorCheck(orgs'[o])
        /\ Exists(o) => orgs'[o].max = orgs[o].max /\ orgs'[o].active = orgs[o].active
        /\ ~Exists(o) => orgs'[o].active = TRUE
  <2> SUFFICES ASSUME o \in DOMAIN tx[t].work
               PROVE  /\ orgs'[o] \in Version
                      /\ RangeCheck(orgs'[o]) /\ FloorCheck(orgs'[o])
                      /\ Exists(o) => /\ orgs'[o].max = orgs[o].max
                                      /\ orgs'[o].active = orgs[o].active
                      /\ ~Exists(o) => orgs'[o].active = TRUE
    OBVIOUS
  <2>1. orgs'[o] = tx[t].work[o]
    BY <1>1 DEF Latest
  <2>2. RangeCheck(orgs'[o]) /\ FloorCheck(orgs'[o])
    BY <2>1, Committed
  <2>3. orgs'[o] \in Version
    BY <1>1, <2>1 DEF TxType
  <2>4. /\ Exists(o) => orgs'[o].max = orgs[o].max /\ orgs'[o].active = orgs[o].active
        /\ ~Exists(o) => orgs'[o].active = TRUE
    BY <1>1, <2>1 DEF Balanced
  <2> QED BY <2>2, <2>3, <2>4
<1>4. o \notin DOMAIN tx[t].work => orgs'[o] = orgs[o]
  BY <1>1 DEF Latest
<1>5. ~Exists(o) => orgs[o].max = 0 /\ Cardinality(A) = 0
  BY <1>2 DEF Inv, InRange, NoOrganization
<1>6. orgs'[o].count = Cardinality(A) + Gain(t, o)
  BY <1>1, <1>2
<1> DEFINE new == orgs'[o]
<1> HIDE DEF A, m, new
<1>7. CASE Gain(t, o) = 0
  <2>1. ~(o \in DOMAIN tx[t].work /\ ~Exists(o))
    BY <1>2, <1>3, <1>5, <1>6, <1>7 DEF FloorCheck
  <2>2. orgs'[o].max = orgs[o].max /\ orgs'[o].active = orgs[o].active
    BY <1>3, <1>4, <2>1
  <2>3. UNCHANGED Promise(o)!vars
    BY <1>1, <1>7, <2>2, UnmovedCommitted DEF A
  <2> QED BY <2>3
<1>8. CASE Gain(t, o) = 1 /\ Exists(o)
  <2>1. orgs'[o].max = orgs[o].max /\ orgs'[o].active = orgs[o].active
    BY <1>1, <1>3, <1>8
  <2>2. Cardinality(A) < orgs[o].max
    BY <1>1, <1>2, <1>3, <1>6, <1>8, <2>1, TxAssumption DEF RangeCheck, Version
  <2>3. Promise(o)!Admit(m)
    BY <1>1, <1>8, <2>1, <2>2, SameCardinality DEF Promise!Admit, Exists, A
  <2> QED BY <2>3 DEF Promise!Next, m
<1>9. CASE Gain(t, o) = 1 /\ ~Exists(o)
  <2>1. orgs'[o].max \in 1..MaxCeiling /\ orgs'[o].active = TRUE
    BY <1>1, <1>3, <1>9 DEF Version
  <2>2. A = {}
    BY <1>2, <1>5, <1>9, FS_EmptySet
  <2>3. Promise(o)!Found(m, orgs'[o].max)
    BY <1>1, <1>5, <1>9, <2>1, <2>2 DEF Promise!Found, A
  <2> QED BY <2>1, <2>3 DEF Promise!Next, m
<1>10. CASE Gain(t, o) = -1
  <2>1. o \in DOMAIN tx[t].work /\ Exists(o)
    BY <1>1, <1>3, <1>5, <1>6, <1>10 DEF RangeCheck
  <2>2. orgs'[o].max = orgs[o].max /\ orgs'[o].active = orgs[o].active
    BY <1>3, <2>1
  <2>3. orgs[o].active => Cardinality(A) > 1
    BY <1>2, <1>3, <1>6, <1>10, <2>1, <2>2 DEF RangeCheck, FloorCheck
  <2>4. Promise(o)!Drop(m)
    BY <1>1, <1>10, <2>2, <2>3, SameCardinality DEF Promise!Drop, A
  <2> QED BY <2>4 DEF Promise!Next, m
<1> QED BY <1>1, <1>7, <1>8, <1>9, <1>10

\* A commit of a transaction that wrote an organization.
LEMMA RewriteCommitted ==
    ASSUME Inv, NEW t \in Txs, Commit(t), NEW o \in Orgs, tx[t].member \notin Members
    PROVE  [Promise(o)!Next]_(Promise(o)!vars)
<1> DEFINE c == orgs'[o].max
<1>1. /\ orgs'[o] = Latest(t, o) /\ TxType(tx[t]) /\ Balanced(t)
      /\ Gain(t, o) = 0 /\ AdminsOf(o)' = AdminsOf(o)
      /\ orgs'[o].count = orgs[o].count + Gain(t, o)
  BY Committed DEF Gain
<1>2. orgs[o].count = Cardinality(AdminsOf(o)) /\ Cardinality(AdminsOf(o)) \in Nat
  BY AdminsFinite DEF Inv, CounterExact
<1>3. orgs'[o].count = Cardinality(AdminsOf(o))
  BY <1>1, <1>2
<1>4. CASE o \notin DOMAIN tx[t].work
  <2>1. orgs'[o] = orgs[o]
    BY <1>1, <1>4 DEF Latest
  <2> QED BY <1>1, <2>1, UnmovedCommitted
<1>5. CASE o \in DOMAIN tx[t].work
  <2>1. /\ orgs'[o] \in Version /\ RangeCheck(orgs'[o]) /\ orgs[o].max > 0
        /\ \/ orgs'[o].active = orgs[o].active
           \/ orgs'[o].active = FALSE /\ orgs'[o].max = orgs[o].max
    BY <1>1, <1>5, Committed DEF Latest, TxType, Balanced, Exists
  <2>2. CASE orgs'[o].active = orgs[o].active
    <3>1. c \in 1..MaxCeiling /\ c >= Cardinality(AdminsOf(o))
      BY <1>2, <1>3, <2>1 DEF RangeCheck, Version
    <3>2. Promise(o)!MoveCeiling(c)
      BY <1>1, <2>1, <2>2, <3>1, SameCardinality DEF Promise!MoveCeiling
    <3> QED BY <3>1, <3>2 DEF Promise!Next
  <2>3. CASE orgs'[o].active = FALSE /\ orgs'[o].max = orgs[o].max
    <3>1. Promise(o)!Close
      BY <1>1, <2>1, <2>3 DEF Promise!Close
    <3> QED BY <3>1 DEF Promise!Next
  <2> QED BY <2>1, <2>2, <2>3
<1> QED BY <1>4, <1>5

LEMMA StepKept ==
    ASSUME Inv, [Next]_vars, NEW o \in Orgs
    PROVE  [Promise(o)!Next]_(Promise(o)!vars)
<1>1. ASSUME UNCHANGED <<orgs, rows>> PROVE UNCHANGED Promise(o)!vars
  <2>1. AdminsOf(o)' = AdminsOf(o)
    BY <1>1 DEF AdminsOf
  <2> QED BY <1>1, <2>1, UnmovedCommitted
<1>2. (\E t \in Txs : Commit(t)) \/ UNCHANGED <<orgs, rows>>
  BY DEF Next, vars, Found, Write, Rewrite, Begin, Adjust, Rollback
<1> QED BY <1>1, <1>2, RowCommitted, RewriteCommitted

\* By the rows that are committed, every organization keeps the promised range
\* of admins: one commit is one step of AdminRange, or none.
THEOREM RefinesRange == Spec => ImplementsAdminRange
<1>1. ASSUME Init, NEW o \in Orgs PROVE Promise(o)!Init
  <2>1. AdminsOf(o) = {}
    BY <1>1, AbsentCounts DEF Init, AdminsOf
  <2> QED BY <1>1, <2>1 DEF Init, NoOrganization, Promise!Init
<1>2. Init => \A o \in Orgs : Promise(o)!Init
  BY <1>1
<1>3. Inv /\ [Next]_vars => [\A o \in Orgs : [Promise(o)!Next]_(Promise(o)!vars)]_vars
  BY StepKept
<1> QED BY <1>2, <1>3, InvAlways, PTL DEF Spec, ImplementsAdminRange
-----------------------------------------------------------------------------
\* AdminRange by itself: the admins of an organization, whoever keeps them.
VARIABLES admins, ceiling, active
Agreed == INSTANCE AdminRange WITH Users <- Members, open <- active

InPromise == Agreed!TypeOK /\ Agreed!InRange

LEMMA SameInRange == \A S : Agreed!Cardinality(S) = Cardinality(S)
BY DEF Cardinality, Agreed!Cardinality

LEMMA RangeStep ==
    ASSUME IsFiniteSet(Members), MaxCeiling \in Nat, InPromise, [Agreed!Next]_(Agreed!vars)
    PROVE  InPromise'
<1> USE DEF InPromise, Agreed!TypeOK, Agreed!InRange
<1>1. /\ IsFiniteSet(admins) /\ Cardinality(admins) \in Nat
      /\ Cardinality(admins) <= ceiling /\ (active => Cardinality(admins) >= 1)
  BY FS_Subset, FS_CardinalityType, SameInRange
<1>2. ASSUME NEW u \in Members, Agreed!Admit(u) PROVE InPromise'
  <2>1. Cardinality(admins') = Cardinality(admins) + 1
    BY <1>1, <1>2, FS_AddElement DEF Agreed!Admit
  <2> QED BY <1>1, <1>2, <2>1, SameInRange DEF Agreed!Admit
<1>3. ASSUME NEW u \in Members, Agreed!Drop(u) PROVE InPromise'
  <2>1. Cardinality(admins') = Cardinality(admins) - 1
    BY <1>1, <1>3, FS_RemoveElement DEF Agreed!Drop
  <2> QED BY <1>1, <1>3, <2>1, SameInRange DEF Agreed!Drop
<1>4. ASSUME NEW u \in Members, NEW c \in 1..MaxCeiling, Agreed!Found(u, c) PROVE InPromise'
  <2>1. Cardinality(admins') = 1
    BY <1>4, FS_Singleton DEF Agreed!Found
  <2> QED BY <1>4, <2>1, SameInRange DEF Agreed!Found
<1>5. ASSUME NEW c \in 1..MaxCeiling, Agreed!MoveCeiling(c) PROVE InPromise'
  BY <1>1, <1>5, SameInRange DEF Agreed!MoveCeiling
<1>6. CASE Agreed!Close
  BY <1>1, <1>6, SameInRange DEF Agreed!Close
<1>7. CASE UNCHANGED Agreed!vars
  BY <1>7 DEF Agreed!vars
<1> QED BY <1>2, <1>3, <1>4, <1>5, <1>6, <1>7 DEF Agreed!Next

\* Whoever implements AdminRange has at most max_admins active admins and,
\* while the organization is active, at least one (invariant 4).
THEOREM PromiseIsRange ==
    ASSUME IsFiniteSet(Members), MaxCeiling \in Nat
    PROVE  Agreed!Spec => []Agreed!InRange
<1>1. Agreed!Init => InPromise
  <2>1. Cardinality({}) = 0 /\ 0 \in 0..MaxCeiling
    BY FS_EmptySet
  <2>2. Agreed!Init => Agreed!InRange
    BY <2>1, SameInRange DEF Agreed!Init, Agreed!InRange
  <2>3. Agreed!Init => Agreed!TypeOK
    BY <2>1, Zenon DEF Agreed!Init, Agreed!TypeOK
  <2> QED BY <2>2, <2>3 DEF InPromise
<1>2. InPromise /\ [Agreed!Next]_(Agreed!vars) => InPromise'
  BY RangeStep
<1>3. InPromise => Agreed!InRange
  BY DEF InPromise
<1> QED BY <1>1, <1>2, <1>3, PTL DEF Agreed!Spec
=============================================================================
