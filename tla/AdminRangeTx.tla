---------------------------- MODULE AdminRangeTx ----------------------------
(***************************************************************************)
(* Why a commit of Membership may be one step.  Here a write to a          *)
(* membership row is a database transaction, as the trigger sees it: any   *)
(* INSERT, UPDATE or DELETE, also one that moves the row to another        *)
(* organization.  It locks the row; the trigger then adjusts one or two    *)
(* organizations, each behind the lock of its row, and checks the range;   *)
(* and the commit makes everything visible at once and drops the locks.    *)
(* Transactions see what has been committed (READ COMMITTED) and what they *)
(* wrote themselves.                                                       *)
(*                                                                         *)
(* Each organization, by the rows that are committed, keeps the promise of *)
(* AdminRange.                                                             *)
(***************************************************************************)
EXTENDS AdminTrigger, FiniteSets, Sequences

CONSTANTS
    Members,     \* ids of membership rows
    Orgs,        \* ids of organizations
    Txs,         \* transactions open at the same time
    MaxCeiling,  \* the largest max_admins anybody asks for
    DefaultMax   \* max_admins of a new organization

ASSUME TxAssumption ==
    /\ IsFiniteSet(Members) /\ "none" \notin Members
    /\ MaxCeiling \in Nat /\ DefaultMax \in 1..MaxCeiling

VARIABLES
    orgs,  \* the committed rows of organizations
    rows,  \* the committed rows of memberships
    tx     \* what each open transaction wrote and has yet to do

vars == <<orgs, rows, tx>>

NoOrganization == [active |-> FALSE, max |-> 0, count |-> 0]
Organization == [active : BOOLEAN, max : 0..MaxCeiling, count : 0..Cardinality(Members)]

Exists(o) == orgs[o].max > 0

Absent == [org |-> "none", role |-> "member", status |-> "absent"]
Membership ==
    [org : Orgs, role : Roles, status : Statuses \ {"absent"}] \cup {Absent}

Idle == [open |-> FALSE]

\* row is the transaction's new version of the row of member; todo what the
\* trigger still has to adjust; work its versions of organizations.
Open(m, n, todo, work) ==
    [open |-> TRUE, member |-> m, row |-> n, todo |-> todo, work |-> work]

NoMember == "none"

AdminsOf(o) == {m \in Members : rows[m].org = o /\ Counted(rows[m])}

-----------------------------------------------------------------------------
\* Locks are what open transactions have written.
RowFree(m) == \A t \in Txs : tx[t].open => tx[t].member # m

\* Without the row lock of the trigger's UPDATE.
FreeAlways(t, o) == TRUE

Free(t, o) == \A s \in Txs \ {t} : tx[s].open => o \notin DOMAIN tx[s].work

\* The versions of organizations after one more is written.
NothingWritten == [o \in {} |-> NoOrganization]
Wrote(work, o, new) == [p \in DOMAIN work \cup {o} |-> IF p = o THEN new ELSE work[p]]

\* An organization's row as transaction t finds it.
Latest(t, o) == IF o \in DOMAIN tx[t].work THEN tx[t].work[o] ELSE orgs[o]

\* The foreign key of memberships.
Refers(n) == n # Absent => Exists(n.org)

\* A reparented membership counts for its new organization only.
MovesIn(old, new) == IF Counted(new) /\ ~Counted(old) THEN <<<<new.org, 1>>>> ELSE <<>>

\* memberships_maintain_admin_count: what a write that turns row old into
\* row new adjusts, in order.
Moves(old, new) ==
    IF old.org = new.org
    THEN IF Delta(old, new) = 0 THEN <<>> ELSE <<<<new.org, Delta(old, new)>>>>
    ELSE (IF Counted(old) THEN <<<<old.org, -1>>>> ELSE <<>>)
           \o (IF Counted(new) THEN <<<<new.org, 1>>>> ELSE <<>>)

-----------------------------------------------------------------------------
\* An empty database: the migration finds no rows to count.
Init ==
    /\ orgs = [o \in Orgs |-> NoOrganization]
    /\ rows = [m \in Members |-> Absent]
    /\ tx = [t \in Txs |-> Idle]

Begin(t, new) ==
    /\ ~tx[t].open
    /\ tx' = [tx EXCEPT ![t] = new]
    /\ UNCHANGED <<orgs, rows>>

\* An organization and the membership of its founder, in one transaction.
Found(t, o, m) ==
    LET n == [org |-> o, role |-> "admin", status |-> "active"]
    IN  /\ ~Exists(o) /\ Free(t, o)
        /\ rows[m] = Absent /\ RowFree(m)
        /\ Begin(t, Open(m, n, Moves(Absent, n),
                         Wrote(NothingWritten, o,
                               [active |-> TRUE, max |-> DefaultMax, count |-> 0])))

\* The statement is accepted with a dangling key.
WriteDangling(t, m, n) ==
    /\ RowFree(m) /\ n # rows[m]
    /\ Begin(t, Open(m, n, Moves(rows[m], n), NothingWritten))

Write(t, m, n) ==
    /\ RowFree(m) /\ n # rows[m] /\ Refers(n)
    /\ Begin(t, Open(m, n, Moves(rows[m], n), NothingWritten))

\* UPDATE organizations, for OrganizationService.
Rewrite(t, o, new) ==
    /\ Exists(o) /\ Free(t, o) /\ RangeCheck(new)
    /\ Begin(t, Open(NoMember, Absent, <<>>, Wrote(NothingWritten, o, new)))

\* organizations_adjust_admin_count, up to its two refusals.
Adjust(t) ==
    /\ tx[t].open /\ tx[t].todo # <<>>
    /\ LET o == Head(tx[t].todo)[1]
           new == Adjusted(Latest(t, o), Head(tx[t].todo)[2])
       IN  /\ Free(t, o)
           /\ RangeCheck(new) /\ FloorCheck(new)
           /\ tx' = [tx EXCEPT ![t] = Open(@.member, @.row, Tail(@.todo),
                                           Wrote(@.work, o, new))]
    /\ UNCHANGED <<orgs, rows>>

Commit(t) ==
    /\ tx[t].open /\ tx[t].todo = <<>>
    /\ orgs' = [o \in Orgs |-> Latest(t, o)]
    /\ rows' = [m \in Members |-> IF m = tx[t].member THEN tx[t].row ELSE rows[m]]
    /\ tx' = [tx EXCEPT ![t] = Idle]

\* A check that failed, a deadlock the database broke, a lost connection.
Rollback(t) ==
    /\ tx[t].open
    /\ tx' = [tx EXCEPT ![t] = Idle]
    /\ UNCHANGED <<orgs, rows>>

Next ==
    \E t \in Txs :
      \/ \E o \in Orgs, m \in Members : Found(t, o, m)
      \/ \E m \in Members, n \in Membership : Write(t, m, n)
      \/ \E o \in Orgs, c \in 1..MaxCeiling : Rewrite(t, o, [orgs[o] EXCEPT !.max = c])
      \/ \E o \in Orgs : Rewrite(t, o, [orgs[o] EXCEPT !.active = FALSE])
      \/ Adjust(t) \/ Commit(t) \/ Rollback(t)

Spec == Init /\ [][Next]_vars

-----------------------------------------------------------------------------
TypeOK ==
    /\ orgs \in [Orgs -> Organization]
    /\ rows \in [Members -> Membership]
    /\ \A m \in Members : Refers(rows[m])

\* Whatever transactions overlap, the committed counter of an organization is
\* the number of its committed active admins (the row lock of the trigger's
\* UPDATE serializes those that move it).
CounterExact == \A o \in Orgs : orgs[o].count = Cardinality(AdminsOf(o))

\* The committed rows of each organization keep the promised range, also when
\* a membership is moved from one to another (invariant 4).
Promise(o) == INSTANCE AdminRange
              WITH Users <- Members, admins <- AdminsOf(o),
                   ceiling <- orgs[o].max, open <- orgs[o].active

ImplementsAdminRange ==
    /\ \A o \in Orgs : Promise(o)!Init
    /\ [][\A o \in Orgs : [Promise(o)!Next]_(Promise(o)!vars)]_vars
=============================================================================
