-------------------------- MODULE Membership_proof --------------------------
(***************************************************************************)
(* For every set of users and requests and every ceiling: the counter of   *)
(* the trigger is exact, the admin range holds, and the commits of         *)
(* Membership implement AdminRange.  Guard and trigger agree unless the    *)
(* request is raced, a personal organization stays one person's, and who   *)
(* is active has joined.                                                   *)
(*                                                                         *)
(* Last, the cache in front of these rows: for any number of concurrent    *)
(* requests and any TTL, an entry that is not marked as tainted agrees     *)
(* with the row, and any role found anywhere is one the caller once had.   *)
(***************************************************************************)
EXTENDS Membership, MembershipCache, FiniteSetTheorems, TLAPS

LEMMA ActiveAdminsFinite == IsFiniteSet(ActiveAdmins)
BY UsersAssumption, FS_Subset DEF ActiveAdmins

\* What a commit makes of a row is a row again.
LEMMA WrittenType ==
    ASSUME NEW q \in MembershipJob, NEW m \in Membership
    PROVE  Written(q, m) \in Membership
BY DEF Written, MembershipJob, MembershipOps, Membership, Roles, Statuses

\* A request at work is one of the two kinds of job.
LEMMA JobType ==
    ASSUME TypeOK, NEW r \in Requests, req[r].pc # "idle"
    PROVE  /\ req[r].op \in MembershipOps => req[r] \in MembershipJob
           /\ req[r].op \in OrganizationOps => req[r] \in OrganizationJob
           /\ req[r].op \in Ops
           /\ req[r].pc \in {"guard", "count"} => req[r] \in MembershipJob
BY DEF TypeOK, Request, MembershipJob, OrganizationJob, MembershipOps,
       OrganizationOps, Ops

-----------------------------------------------------------------------------
LEMMA ReplyType ==
    ASSUME TypeOK, NEW r \in Requests, NEW reply \in Replies, Reply(r, reply)
    PROVE  TypeOK'
BY DEF TypeOK, Reply, Idle, Request

LEMMA GoOnType ==
    ASSUME TypeOK, NEW r \in Requests, NEW op \in MembershipOps,
           NEW u \in Users, NEW role \in Roles, NEW d \in {-1, 0, 1},
           GoOn(r, op, u, role, d)
    PROVE  TypeOK'
<1> DEFINE job == [pc |-> IF d = 0 THEN "commit" ELSE "guard",
                   op |-> op, user |-> u, role |-> role, delta |-> d, max |-> 0]
<1>1. job \in MembershipJob
  BY CeilingAssumption DEF MembershipJob
<1>2. job \in Request
  BY <1>1 DEF Request
<1> QED
  BY <1>2 DEF TypeOK, GoOn

LEMMA GoOnWithOrganizationType ==
    ASSUME TypeOK, NEW r \in Requests, NEW op \in OrganizationOps,
           NEW max \in 0..MaxCeiling, GoOnWithOrganization(r, op, max)
    PROVE  TypeOK'
<1>1. [pc |-> "commit", op |-> op, max |-> max] \in Request
  BY DEF Request, OrganizationJob
<1> QED
  BY <1>1 DEF TypeOK, GoOnWithOrganization

LEMMA CommittedType ==
    ASSUME TypeOK, NEW r \in Requests, Committed(r)
    PROVE  req' \in [Requests -> Request] /\ raced' \in SUBSET Requests
<1>1. Idle("ok") \in Request
  BY DEF Idle, Request, Replies
<1> QED
  BY <1>1 DEF TypeOK, Committed

LEMMA DeltaType ==
    ASSUME NEW m, NEW n
    PROVE  Delta(m, n) \in {-1, 0, 1}
BY DEF Delta

LEMMA VerdictType ==
    ASSUME NEW o, NEW d
    PROVE  Verdict(o, d) \in {"ok", "ceiling", "floor"}
BY DEF Verdict

\* A verdict of "ok" leaves an organization row that passes the checks.
LEMMA AdjustedType ==
    ASSUME NEW o \in Organization, NEW d \in {-1, 0, 1}, Verdict(o, d) = "ok"
    PROVE  /\ Adjusted(o, d) \in Organization
           /\ Adjusted(o, d) = [o EXCEPT !.count = o.count + d]
           /\ d # 0 => /\ o.count + d <= o.max
                       /\ o.active => o.count + d # 0
BY CeilingAssumption
   DEF Verdict, Adjusted, Organization, RangeCheck, FloorCheck

THEOREM TypeCorrect == Spec => []TypeOK
<1>1. Init => TypeOK
  BY CeilingAssumption
     DEF Init, TypeOK, NoOrganization, Organization, Kinds, NoRow, Membership,
         Roles, Statuses, Idle, Request, Replies
<1>2. TypeOK /\ [Next]_vars => TypeOK'
  <2> SUFFICES ASSUME TypeOK, [Next]_vars PROVE TypeOK'
    OBVIOUS
  <2> USE DEF Replies
  <2>1. ASSUME NEW u \in Users, NEW kind \in Kinds, CreateOrganization(u, kind)
        PROVE  TypeOK'
    BY <2>1, CeilingAssumption
       DEF TypeOK, CreateOrganization, Organization, Membership, Roles, Statuses
  <2>2. ASSUME NEW r \in Requests, NEW u \in Users, NEW role \in Roles,
               Invite(r, u, role)
        PROVE  TypeOK'
    BY <2>2, ReplyType, GoOnType DEF Invite, MembershipOps
  <2>3. ASSUME NEW r \in Requests, NEW u \in Users, NEW role \in Roles,
               ChangeRole(r, u, role)
        PROVE  TypeOK'
    BY <2>3, ReplyType, GoOnType DEF ChangeRole, MembershipOps
  <2>4. ASSUME NEW r \in Requests, NEW u \in Users, Accept(r, u)
        PROVE  TypeOK'
    BY <2>4, ReplyType, GoOnType DEF Accept, MembershipOps, Roles
  <2>5. ASSUME NEW r \in Requests, NEW u \in Users, Deactivate(r, u)
        PROVE  TypeOK'
    BY <2>5, ReplyType, GoOnType DEF Deactivate, MembershipOps, Roles
  <2>6. ASSUME NEW r \in Requests, NEW u \in Users, Reinstate(r, u)
        PROVE  TypeOK'
    BY <2>6, ReplyType, GoOnType DEF Reinstate, MembershipOps, Roles
  <2>7. ASSUME NEW r \in Requests, NEW max \in 1..MaxCeiling,
               UpdateOrganization(r, max)
        PROVE  TypeOK'
    <3>1. max \in 0..MaxCeiling
      BY CeilingAssumption
    <3> QED
      BY <2>7, <3>1, ReplyType, GoOnWithOrganizationType
         DEF UpdateOrganization, OrganizationOps
  <2>8. ASSUME NEW r \in Requests, DeactivateOrganization(r)
        PROVE  TypeOK'
    <3>1. 0 \in 0..MaxCeiling
      BY CeilingAssumption
    <3> QED
      BY <2>8, <3>1, ReplyType, GoOnWithOrganizationType
         DEF DeactivateOrganization, OrganizationOps
  <2>a. ASSUME NEW r \in Requests, ReadCeiling(r)
        PROVE  TypeOK'
    <3>1. req[r] \in MembershipJob /\ org.max \in 0..MaxCeiling
      BY <2>a, JobType DEF ReadCeiling, TypeOK, Organization
    <3>2. [req[r] EXCEPT !.pc = "count", !.max = org.max] \in MembershipJob
      BY <3>1 DEF MembershipJob
    <3>3. req' = [req EXCEPT ![r] = [req[r] EXCEPT !.pc = "count", !.max = org.max]]
      BY <2>a DEF ReadCeiling, TypeOK
    <3> QED
      BY <2>a, <3>2, <3>3 DEF ReadCeiling, TypeOK, Request
  <2>9. ASSUME NEW r \in Requests, Guard(r)
        PROVE  TypeOK'
    <3>1. CASE Reply(r, "conflict")
      BY <3>1, ReplyType
    <3>2. CASE /\ req' = [req EXCEPT ![r].pc = "commit", ![r].delta = 0, ![r].max = 0]
               /\ UNCHANGED <<org, row, raced>>
      <4>1. req[r] \in MembershipJob
        BY <2>9, JobType DEF Guard
      <4>2. [req[r] EXCEPT !.pc = "commit", !.delta = 0, !.max = 0] \in MembershipJob
        <5>1. 0 \in 0..MaxCeiling
          BY CeilingAssumption
        <5> QED
          BY <4>1, <5>1 DEF MembershipJob
      <4>3. req' = [req EXCEPT ![r] =
                      [req[r] EXCEPT !.pc = "commit", !.delta = 0, !.max = 0]]
        BY <3>2 DEF TypeOK
      <4> QED
        BY <3>2, <4>2, <4>3 DEF TypeOK, Request
    <3> QED
      BY <2>9, <3>1, <3>2 DEF Guard
  <2>10. ASSUME NEW r \in Requests, CommitMembership(r)
         PROVE  TypeOK'
    <3> DEFINE n == Written(req[r], row[req[r].user])
               d == Delta(row[req[r].user], n)
    <3>1. req[r] \in MembershipJob
      BY <2>10, JobType DEF CommitMembership
    <3>2. req[r].user \in Users /\ row[req[r].user] \in Membership
      BY <3>1 DEF TypeOK, MembershipJob
    <3>3. n \in Membership
      BY <3>1, <3>2, WrittenType
    <3>4. CASE Reply(r, "fault")
      BY <3>4, ReplyType
    <3>5. CASE Reply(r, Translate(Verdict(org, d)))
      <4>1. Translate(Verdict(org, d)) \in Replies
        BY DEF Translate
      <4> QED
        BY <3>5, <4>1, ReplyType
    <3>6. CASE /\ Verdict(org, d) = "ok"
               /\ row' = [row EXCEPT ![req[r].user] = n]
               /\ org' = Adjusted(org, d)
               /\ Committed(r)
      <4>1. org' \in Organization
        BY <3>6, DeltaType, AdjustedType DEF TypeOK
      <4>2. row' \in [Users -> Membership]
        BY <3>2, <3>3, <3>6 DEF TypeOK
      <4>3. req' \in [Requests -> Request] /\ raced' \in SUBSET Requests
        BY <3>6, CommittedType
      <4> QED
        BY <4>1, <4>2, <4>3 DEF TypeOK
    <3> QED
      BY <2>10, <3>4, <3>5, <3>6 DEF CommitMembership
  <2>11. ASSUME NEW r \in Requests, CommitOrganization(r)
         PROVE  TypeOK'
    <3>1. req[r] \in OrganizationJob
      BY <2>11, JobType DEF CommitOrganization
    <3>3. CASE Reply(r, "fault")
      BY <3>3, ReplyType
    <3>4. CASE /\ org' \in {[org EXCEPT !.max = req[r].max],
                            [org EXCEPT !.active = FALSE]}
               /\ Committed(r)
               /\ UNCHANGED row
      BY <3>1, <3>4, CommittedType DEF TypeOK, OrganizationJob, Organization
    <3> QED
      BY <2>11, <3>3, <3>4 DEF CommitOrganization
  <2>12. ASSUME NEW r \in Requests, Abandon(r)
         PROVE  TypeOK'
    BY <2>12, ReplyType DEF Abandon
  <2>13. CASE UNCHANGED vars
    BY <2>13 DEF TypeOK, vars
  <2> QED
    BY <2>1, <2>2, <2>3, <2>4, <2>5, <2>6, <2>7, <2>8, <2>a, <2>9, <2>10,
       <2>11, <2>12, <2>13 DEF Next
<1> QED
  BY <1>1, <1>2, PTL DEF Spec

-----------------------------------------------------------------------------
\* The organization row satisfies its constraints and its floor, and there
\* is neither a row nor a request before the organization exists.
Founded ==
    /\ org.exists =>
         /\ org.max >= 1 /\ org.count <= org.max
         /\ org.active => org.count >= 1
    /\ ~org.exists =>
         /\ org = NoOrganization
         /\ \A r \in Requests : req[r].pc = "idle"

\* The inductive invariant: RangeHolds alone is not inductive, because the
\* trigger decides on the counter and not on the rows.
Inv == TypeOK /\ CounterExact /\ Founded

\* Writing one row moves the number of active admins by Delta.
LEMMA CountMoves ==
    ASSUME TypeOK, NEW u \in Users, NEW n, row' = [row EXCEPT ![u] = n]
    PROVE  /\ Cardinality(ActiveAdmins') = Cardinality(ActiveAdmins) + Delta(row[u], n)
           /\ ActiveAdmins' = IF Counted(n) THEN ActiveAdmins \cup {u}
                              ELSE ActiveAdmins \ {u}
           /\ u \in ActiveAdmins <=> Counted(row[u])
<1>1. u \in ActiveAdmins <=> Counted(row[u])
  BY DEF ActiveAdmins, Counted
<1>2. ActiveAdmins' = IF Counted(n) THEN ActiveAdmins \cup {u} ELSE ActiveAdmins \ {u}
  BY DEF ActiveAdmins, Counted, TypeOK
<1>3. Cardinality(ActiveAdmins) \in Nat
  BY ActiveAdminsFinite, FS_CardinalityType
<1>4. CASE Counted(n)
  <2>1. Cardinality(ActiveAdmins \cup {u}) =
          IF u \in ActiveAdmins THEN Cardinality(ActiveAdmins)
          ELSE Cardinality(ActiveAdmins) + 1
    BY ActiveAdminsFinite, FS_AddElement
  <2> QED
    BY <1>1, <1>2, <1>3, <1>4, <2>1 DEF Delta
<1>5. CASE ~Counted(n)
  <2>1. Cardinality(ActiveAdmins \ {u}) =
          IF u \in ActiveAdmins THEN Cardinality(ActiveAdmins) - 1
          ELSE Cardinality(ActiveAdmins)
    BY ActiveAdminsFinite, FS_RemoveElement
  <2> QED
    BY <1>1, <1>2, <1>3, <1>5, <2>1 DEF Delta
<1> QED
  BY <1>1, <1>2, <1>4, <1>5

LEMMA NobodyAtFirst ==
    ASSUME CounterExact, Founded, ~org.exists
    PROVE  ActiveAdmins = {}
BY ActiveAdminsFinite, FS_EmptySet DEF CounterExact, Founded, NoOrganization

\* Steps that leave the rows and the organization alone.
LEMMA QuietStep ==
    ASSUME Inv, TypeOK', UNCHANGED <<org, row>>,
           org.exists \/ UNCHANGED req
    PROVE  Inv'
<1>1. ActiveAdmins' = ActiveAdmins
  BY DEF ActiveAdmins
<1> QED
  BY <1>1 DEF Inv, CounterExact, Founded

\* A request is at work only in an organization that exists.
LEMMA AtWork ==
    ASSUME Founded, NEW r \in Requests, Arrives(r) \/ req[r].pc # "idle"
    PROVE  org.exists
BY DEF Founded, Arrives

\* What a membership commit does, apart from being refused.
LEMMA CommitEffect ==
    ASSUME TypeOK, NEW r \in Requests, CommitMembership(r)
    PROVE  \/ UNCHANGED <<org, row>>
           \/ \E u \in Users, n \in Membership :
                /\ row' = [row EXCEPT ![u] = n]
                /\ Verdict(org, Delta(row[u], n)) = "ok"
                /\ org' = Adjusted(org, Delta(row[u], n))
<1>1. req[r] \in MembershipJob
  BY JobType DEF CommitMembership
<1>2. req[r].user \in Users /\ row[req[r].user] \in Membership
  BY <1>1 DEF TypeOK, MembershipJob
<1>3. Written(req[r], row[req[r].user]) \in Membership
  BY <1>1, <1>2, WrittenType
<1> QED
  BY <1>2, <1>3 DEF CommitMembership, Reply

LEMMA CommitKeepsInv ==
    ASSUME Inv, TypeOK', org.exists,
           NEW u \in Users, NEW n \in Membership,
           row' = [row EXCEPT ![u] = n],
           Verdict(org, Delta(row[u], n)) = "ok",
           org' = Adjusted(org, Delta(row[u], n))
    PROVE  Inv'
<1> DEFINE d == Delta(row[u], n)
<1>1. d \in {-1, 0, 1}
  BY DeltaType
<1>2. org \in Organization
  BY DEF Inv, TypeOK
<1>3. /\ org' = [org EXCEPT !.count = org.count + d]
      /\ d # 0 => org.count + d <= org.max /\ (org.active => org.count + d # 0)
  BY <1>1, <1>2, AdjustedType
<1>4. org'.count = org.count + d /\ org'.max = org.max /\ org'.active = org.active
      /\ org'.exists = org.exists
  BY <1>2, <1>3 DEF Organization
<1>5. CounterExact'
  BY <1>4, CountMoves DEF Inv, CounterExact
<1>6. org'.count \in Nat
  BY DEF TypeOK, Organization
<1>7. Founded'
  BY <1>1, <1>2, <1>3, <1>4, <1>6 DEF Inv, Founded, Organization
<1> QED
  BY <1>5, <1>7 DEF Inv

THEOREM Invariance == Spec => []Inv
<1>1. Init => Inv
  <2> SUFFICES ASSUME Init PROVE Inv
    OBVIOUS
  <2>1. TypeOK
    BY CeilingAssumption
       DEF Init, TypeOK, NoOrganization, Organization, Kinds, NoRow, Membership,
           Roles, Statuses, Idle, Request, Replies
  <2>2. ActiveAdmins = {}
    BY DEF Init, ActiveAdmins, NoRow
  <2>3. CounterExact
    BY <2>2, FS_EmptySet DEF Init, CounterExact, NoOrganization
  <2>4. Founded
    BY DEF Init, Founded, Idle, NoOrganization
  <2> QED
    BY <2>1, <2>3, <2>4 DEF Inv
<1>2. Inv /\ TypeOK' /\ [Next]_vars => Inv'
  <2> SUFFICES ASSUME Inv, TypeOK', [Next]_vars PROVE Inv'
    OBVIOUS
  <2> USE DEF Inv
  <2>1. ASSUME NEW u \in Users, NEW kind \in Kinds, CreateOrganization(u, kind)
        PROVE  Inv'
    <3> DEFINE n == [role |-> "admin", status |-> "active", joined |-> TRUE]
    <3>0. row' = [row EXCEPT ![u] = n] /\ Counted(n) /\ ~org.exists
      BY <2>1 DEF CreateOrganization, Counted
    <3>a. ActiveAdmins' = ActiveAdmins \cup {u}
      BY <3>0, CountMoves
    <3>1. ActiveAdmins' = {u}
      BY <3>0, <3>a, NobodyAtFirst
    <3>2. CounterExact'
      BY <2>1, <3>1, FS_Singleton DEF CreateOrganization, CounterExact
    <3>3. Founded'
      BY <2>1, CeilingAssumption DEF CreateOrganization, Founded
    <3> QED
      BY <3>2, <3>3
  <2>2. ASSUME NEW r \in Requests,
               \/ Arrives(r) /\ UNCHANGED <<org, row>>
               \/ req[r].pc # "idle" /\ UNCHANGED <<org, row>>
        PROVE  Inv'
    BY <2>2, AtWork, QuietStep
  <2>3. ASSUME NEW r \in Requests, NEW u \in Users, NEW role \in Roles,
               Invite(r, u, role) \/ ChangeRole(r, u, role)
        PROVE  Inv'
    BY <2>3, <2>2 DEF Invite, ChangeRole, Reply, GoOn
  <2>4. ASSUME NEW r \in Requests, NEW u \in Users,
               Accept(r, u) \/ Deactivate(r, u) \/ Reinstate(r, u)
        PROVE  Inv'
    BY <2>4, <2>2 DEF Accept, Deactivate, Reinstate, Reply, GoOn
  <2>5. ASSUME NEW r \in Requests, NEW max \in 1..MaxCeiling,
               UpdateOrganization(r, max)
        PROVE  Inv'
    BY <2>5, <2>2 DEF UpdateOrganization, Reply, GoOnWithOrganization
  <2>6. ASSUME NEW r \in Requests, DeactivateOrganization(r)
        PROVE  Inv'
    BY <2>6, <2>2 DEF DeactivateOrganization, Reply, GoOnWithOrganization
  <2>7. ASSUME NEW r \in Requests, ReadCeiling(r) \/ Guard(r) \/ Abandon(r)
        PROVE  Inv'
    BY <2>7, <2>2 DEF ReadCeiling, Guard, Abandon, Reply
  <2>8. ASSUME NEW r \in Requests, CommitMembership(r)
        PROVE  Inv'
    <3>1. org.exists
      BY <2>8, AtWork DEF CommitMembership
    <3>2. CASE UNCHANGED <<org, row>>
      BY <3>1, <3>2, QuietStep
    <3>3. ASSUME NEW u \in Users, NEW n \in Membership,
                 row' = [row EXCEPT ![u] = n],
                 Verdict(org, Delta(row[u], n)) = "ok",
                 org' = Adjusted(org, Delta(row[u], n))
          PROVE  Inv'
      BY <3>1, <3>3, CommitKeepsInv
    <3> QED
      BY <2>8, <3>2, <3>3, CommitEffect
  <2>9. ASSUME NEW r \in Requests, CommitOrganization(r)
        PROVE  Inv'
    <3>1. org.exists
      BY <2>9, AtWork DEF CommitOrganization
    <3>2. req[r] \in OrganizationJob
      BY <2>9, JobType DEF CommitOrganization
    <3>3. CASE UNCHANGED <<org, row>>
      BY <3>1, <3>3, QuietStep
    <3>4. ASSUME org' = [org EXCEPT !.max = req[r].max], UNCHANGED row,
                 RangeCheck([org EXCEPT !.max = req[r].max])
          PROVE  Inv'
      <4>1. ActiveAdmins' = ActiveAdmins
        BY <3>4 DEF ActiveAdmins
      <4>2. org'.count = org.count /\ org'.active = org.active /\ org'.exists = org.exists
            /\ org'.max = req[r].max
        BY <3>4 DEF TypeOK, Organization
      <4>3. req[r].max >= 1 /\ org.count <= req[r].max
        BY <3>2, <3>4 DEF RangeCheck, TypeOK, Organization, OrganizationJob
      <4> QED
        BY <3>1, <4>1, <4>2, <4>3 DEF CounterExact, Founded
    <3>5. ASSUME org' = [org EXCEPT !.active = FALSE], UNCHANGED row
          PROVE  Inv'
      <4>1. ActiveAdmins' = ActiveAdmins
        BY <3>5 DEF ActiveAdmins
      <4>2. org'.count = org.count /\ ~org'.active /\ org'.exists = org.exists
            /\ org'.max = org.max
        BY <3>5 DEF TypeOK, Organization
      <4> QED
        BY <3>1, <4>1, <4>2 DEF CounterExact, Founded
    <3> QED
      BY <2>9, <3>3, <3>4, <3>5 DEF CommitOrganization, Reply
  <2>10. CASE UNCHANGED vars
    BY <2>10, QuietStep DEF vars
  <2> QED
    BY <2>1, <2>3, <2>4, <2>5, <2>6, <2>7, <2>8, <2>9, <2>10 DEF Next
<1> QED
  BY <1>1, <1>2, TypeCorrect, PTL DEF Spec

\* After every interleaving of requests, for any number of users and
\* requests, active_admin_count is the number of active admins.
THEOREM CounterCorrect == Spec => []CounterExact
BY Invariance, PTL DEF Inv

LEMMA InvImpliesRange == Inv => RangeHolds
BY DEF Inv, CounterExact, Founded, RangeHolds

\* architecture.md, invariant 4, with the exception of deactivated
\* organizations: between one and max_admins active admins.
THEOREM RangeCorrect == Spec => []RangeHolds
BY Invariance, InvImpliesRange, PTL

-----------------------------------------------------------------------------
\* The instance of AdminRange brings a Cardinality of its own.
LEMMA SameCardinality ==
    ASSUME NEW S
    PROVE  Promise!Cardinality(S) = Cardinality(S)
BY DEF Cardinality, Promise!Cardinality

\* A write the trigger let through is a step of AdminRange, or a stutter.
LEMMA CommitRefines ==
    ASSUME Inv, org.exists, NEW u \in Users, NEW n \in Membership,
           row' = [row EXCEPT ![u] = n],
           Verdict(org, Delta(row[u], n)) = "ok",
           org' = Adjusted(org, Delta(row[u], n))
    PROVE  Promise!Next \/ UNCHANGED Promise!vars
<1> DEFINE d == Delta(row[u], n)
<1>1. d \in {-1, 0, 1} /\ org \in Organization
  BY DeltaType DEF Inv, TypeOK
<1>2. /\ org' = [org EXCEPT !.count = org.count + d]
      /\ d # 0 => org.count + d <= org.max /\ (org.active => org.count + d # 0)
  BY <1>1, AdjustedType
<1>3. org'.max = org.max /\ org'.active = org.active
  BY <1>1, <1>2 DEF Organization
<1>4. /\ ActiveAdmins' = IF Counted(n) THEN ActiveAdmins \cup {u}
                         ELSE ActiveAdmins \ {u}
      /\ u \in ActiveAdmins <=> Counted(row[u])
  BY CountMoves DEF Inv
<1>5. org.count \in Nat /\ org.max \in Nat /\ org.max > 0
  BY <1>1, CeilingAssumption DEF Inv, Founded, Organization
<1>6. CASE d = 0
  <2>1. Counted(n) <=> u \in ActiveAdmins
    BY <1>4, <1>6 DEF Delta
  <2>2. ActiveAdmins' = ActiveAdmins
    BY <1>4, <2>1
  <2> QED
    BY <1>3, <2>2 DEF Promise!vars
<1>7. CASE d = 1
  <2>1. Counted(n) /\ u \notin ActiveAdmins
    BY <1>4, <1>7 DEF Delta
  <2>2. Cardinality(ActiveAdmins) < org.max
    BY <1>2, <1>5, <1>7 DEF Inv, CounterExact
  <2>3. Promise!Admit(u)
    BY <1>3, <1>4, <1>5, <2>1, <2>2, SameCardinality DEF Promise!Admit
  <2> QED
    BY <2>3 DEF Promise!Next
<1>8. CASE d = -1
  <2>1. ~Counted(n) /\ u \in ActiveAdmins
    BY <1>4, <1>8 DEF Delta
  <2>2. org.active => Cardinality(ActiveAdmins) > 1
    <3>1. org.active => org.count >= 1 /\ org.count + d # 0
      BY <1>2, <1>8 DEF Inv, Founded
    <3> QED
      BY <1>5, <1>8, <3>1 DEF Inv, CounterExact
  <2>3. Promise!Drop(u)
    BY <1>3, <1>4, <2>1, <2>2, SameCardinality DEF Promise!Drop
  <2> QED
    BY <2>3 DEF Promise!Next
<1> QED
  BY <1>1, <1>6, <1>7, <1>8

\* The rows, read as a set of admins, behave as AdminRange says.
THEOREM Refinement == Spec => ImplementsAdminRange
<1>1. Init => Promise!Init
  BY DEF Init, NoOrganization, NoRow, ActiveAdmins, Promise!Init
<1>2. Inv /\ [Next]_vars => [Promise!Next]_(Promise!vars)
  <2> SUFFICES ASSUME Inv, [Next]_vars
               PROVE  Promise!Next \/ UNCHANGED Promise!vars
    BY DEF Promise!vars
  <2>0. ASSUME UNCHANGED <<org, row>>
        PROVE  UNCHANGED Promise!vars
    BY <2>0 DEF Promise!vars, ActiveAdmins
  <2>1. ASSUME NEW u \in Users, NEW kind \in Kinds, CreateOrganization(u, kind)
        PROVE  Promise!Next
    <3> DEFINE n == [role |-> "admin", status |-> "active", joined |-> TRUE]
    <3>1. row' = [row EXCEPT ![u] = n] /\ Counted(n) /\ ~org.exists
      BY <2>1 DEF CreateOrganization, Counted
    <3>2. ActiveAdmins' = ActiveAdmins \cup {u}
      BY <3>1, CountMoves DEF Inv
    <3>3. ActiveAdmins = {} /\ org.max = 0
      BY <3>1, NobodyAtFirst DEF Inv, Founded, NoOrganization
    <3>4. Promise!Found(u, DefaultMax)
      BY <2>1, <3>2, <3>3, CeilingAssumption DEF CreateOrganization, Promise!Found
    <3> QED
      BY <3>4, CeilingAssumption DEF Promise!Next
  <2>2. ASSUME NEW r \in Requests, NEW u \in Users, NEW role \in Roles,
               \/ Invite(r, u, role) \/ ChangeRole(r, u, role)
               \/ Accept(r, u) \/ Deactivate(r, u) \/ Reinstate(r, u)
        PROVE  UNCHANGED Promise!vars
    BY <2>0, <2>2 DEF Invite, ChangeRole, Accept, Deactivate, Reinstate, Reply, GoOn
  <2>3. ASSUME NEW r \in Requests, NEW max \in 1..MaxCeiling,
               \/ UpdateOrganization(r, max) \/ DeactivateOrganization(r)
               \/ ReadCeiling(r) \/ Guard(r) \/ Abandon(r)
        PROVE  UNCHANGED Promise!vars
    BY <2>0, <2>3 DEF UpdateOrganization, DeactivateOrganization, ReadCeiling,
                      Guard, Abandon, Reply, GoOnWithOrganization
  <2>4. ASSUME NEW r \in Requests, CommitMembership(r)
        PROVE  Promise!Next \/ UNCHANGED Promise!vars
    <3>1. org.exists
      BY <2>4, AtWork DEF CommitMembership, Inv
    <3>2. ASSUME NEW u \in Users, NEW n \in Membership,
                 row' = [row EXCEPT ![u] = n],
                 Verdict(org, Delta(row[u], n)) = "ok",
                 org' = Adjusted(org, Delta(row[u], n))
          PROVE  Promise!Next \/ UNCHANGED Promise!vars
      BY <3>1, <3>2, CommitRefines
    <3> QED
      BY <2>0, <2>4, <3>2, CommitEffect DEF Inv
  <2>5. ASSUME NEW r \in Requests, CommitOrganization(r)
        PROVE  Promise!Next \/ UNCHANGED Promise!vars
    <3>1. org.exists /\ org \in Organization /\ req[r] \in OrganizationJob
      BY <2>5, AtWork, JobType DEF CommitOrganization, Inv, TypeOK
    <3>2. org.max > 0
      BY <3>1, CeilingAssumption DEF Inv, Founded, Organization
    <3>3. ASSUME org' = [org EXCEPT !.max = req[r].max], UNCHANGED row,
                 RangeCheck([org EXCEPT !.max = req[r].max])
          PROVE  Promise!Next
      <4>1. org'.max = req[r].max /\ org'.active = org.active
            /\ ActiveAdmins' = ActiveAdmins
        BY <3>1, <3>3 DEF Organization, ActiveAdmins
      <4>2. req[r].max \in 1..MaxCeiling /\ req[r].max >= Cardinality(ActiveAdmins)
        BY <3>1, <3>3, CeilingAssumption
           DEF RangeCheck, Organization, OrganizationJob, Inv, CounterExact
      <4>3. Promise!MoveCeiling(req[r].max)
        BY <3>2, <4>1, <4>2, SameCardinality DEF Promise!MoveCeiling
      <4> QED
        BY <4>2, <4>3 DEF Promise!Next
    <3>4. ASSUME org' = [org EXCEPT !.active = FALSE], UNCHANGED row
          PROVE  Promise!Next
      BY <3>1, <3>2, <3>4 DEF Organization, ActiveAdmins, Promise!Close, Promise!Next
    <3> QED
      BY <2>0, <2>5, <3>3, <3>4 DEF CommitOrganization, Reply
  <2>6. CASE UNCHANGED vars
    BY <2>0, <2>6 DEF vars
  <2>7. CASE \E u \in Users, kind \in Kinds : CreateOrganization(u, kind)
    BY <2>1, <2>7
  <2>8. ASSUME NEW r \in Requests,
               \/ \E u \in Users :
                    \/ \E role \in Roles : Invite(r, u, role) \/ ChangeRole(r, u, role)
                    \/ Accept(r, u) \/ Deactivate(r, u) \/ Reinstate(r, u)
               \/ \E max \in 1..MaxCeiling : UpdateOrganization(r, max)
               \/ DeactivateOrganization(r)
               \/ ReadCeiling(r) \/ Guard(r) \/ Abandon(r)
        PROVE  UNCHANGED Promise!vars
    <3>1. "admin" \in Roles /\ 1 \in 1..MaxCeiling
      BY CeilingAssumption DEF Roles
    <3> QED
      BY <2>2, <2>3, <2>8, <3>1
  <2> QED
    BY <2>4, <2>5, <2>6, <2>7, <2>8 DEF Next
<1> QED
  BY <1>1, <1>2, Invariance, PTL DEF Spec, ImplementsAdminRange, Promise!Spec

-----------------------------------------------------------------------------
\* What a step may do to a request that is at work: it passes its guard, it
\* ends without a write, or it ends with its commit.
LEMMA OneRequest ==
    ASSUME TypeOK, [Next]_vars, NEW r \in Requests, req[r].pc # "idle"
    PROVE  \/ req'[r] = req[r]
           \/ ReadCeiling(r) \/ Guard(r)
           \/ CommitMembership(r) \/ CommitOrganization(r) \/ Abandon(r)
<1>1. CASE UNCHANGED vars
  BY <1>1 DEF vars
<1>2. ASSUME NEW s \in Requests \ {r}, NEW e, req' = [req EXCEPT ![s] = e]
      PROVE  req'[r] = req[r]
  BY <1>2 DEF TypeOK
<1>3. CASE \E u \in Users, kind \in Kinds : CreateOrganization(u, kind)
  BY <1>3 DEF CreateOrganization
<1>4. ASSUME NEW s \in Requests, s # r, ReadCeiling(s) \/ Guard(s) \/ Abandon(s)
      PROVE  req'[r] = req[r]
  BY <1>4, <1>2 DEF ReadCeiling, Guard, Abandon, Reply, TypeOK
<1>5. ASSUME NEW s \in Requests, s # r, CommitMembership(s) \/ CommitOrganization(s)
      PROVE  req'[r] = req[r]
  BY <1>5, <1>2 DEF CommitMembership, CommitOrganization, Reply, Committed
<1>6. ASSUME NEW s \in Requests, NEW u \in Users,
             \/ \E role \in Roles : Invite(s, u, role) \/ ChangeRole(s, u, role)
             \/ Accept(s, u) \/ Deactivate(s, u) \/ Reinstate(s, u)
      PROVE  req'[r] = req[r]
  <2>1. s # r
    BY <1>6 DEF Invite, ChangeRole, Accept, Deactivate, Reinstate, Arrives
  <2> QED BY <1>6, <1>2, <2>1
          DEF Invite, ChangeRole, Accept, Deactivate, Reinstate, Reply, GoOn
<1>7. ASSUME NEW s \in Requests,
             \/ \E max \in 1..MaxCeiling : UpdateOrganization(s, max)
             \/ DeactivateOrganization(s)
      PROVE  req'[r] = req[r]
  <2>1. s # r
    BY <1>7 DEF UpdateOrganization, DeactivateOrganization, Arrives
  <2> QED BY <1>7, <1>2, <2>1
          DEF UpdateOrganization, DeactivateOrganization, Reply, GoOnWithOrganization
<1> QED BY <1>1, <1>3, <1>4, <1>5, <1>6, <1>7 DEF Next

\* A guard that does not refuse leaves the request what it is.
LEMMA GuardGoesOn ==
    ASSUME TypeOK, NEW r \in Requests, ReadCeiling(r) \/ Guard(r),
           \A reply : ~Reply(r, reply)
    PROVE  /\ req'[r].user = req[r].user /\ req'[r].op = req[r].op
           /\ req'[r].role = req[r].role
           /\ UNCHANGED <<org, row, raced>>
           /\ \A s \in Requests \ {r} : req'[s] = req[s]
           /\ ReadCeiling(r) =>
                /\ req'[r].pc = "count" /\ req'[r].max = org.max
                /\ req'[r].delta = req[r].delta
           /\ Guard(r) => /\ req'[r].pc = "commit" /\ GuardHolds(req[r])
                          /\ req[r].pc = "count"
<1>1. req[r] \in MembershipJob
  BY JobType DEF ReadCeiling, Guard
<1>2. CASE ReadCeiling(r)
  <2>1. req'[r] = [req[r] EXCEPT !.pc = "count", !.max = org.max]
    BY <1>2 DEF ReadCeiling, TypeOK
  <2> QED BY <1>1, <1>2, <2>1 DEF ReadCeiling, Guard, MembershipJob, TypeOK
<1>3. CASE Guard(r)
  <2>1. req'[r] = [req[r] EXCEPT !.pc = "commit", !.delta = 0, !.max = 0]
    BY <1>3 DEF Guard, TypeOK
  <2> QED BY <1>1, <1>3, <2>1 DEF ReadCeiling, Guard, MembershipJob, TypeOK
<1> QED BY <1>2, <1>3

\* The translation has a 409 for every way the trigger can refuse.
LEMMA RangeVerdictStep ==
    ASSUME TypeOK, [Next]_vars, NEW r \in Requests,
           req[r].pc = "commit", req[r].op \in MembershipOps \ {"invite"},
           req'[r].pc = "idle"
    PROVE  req'[r].reply # "fault"
<1>1. req'[r] # req[r] /\ ~Guard(r) /\ ~ReadCeiling(r)
  BY DEF Guard, ReadCeiling
<1>2. ~CommitOrganization(r)
  BY DEF CommitOrganization, MembershipOps, OrganizationOps
<1>3. \A reply : Reply(r, reply) => req'[r].reply = reply
  BY DEF Reply, Idle, TypeOK
<1>4. CASE Abandon(r)
  <2>1. req'[r].reply = "none"
    BY <1>3, <1>4 DEF Abandon
  <2> QED BY <2>1
<1>5. CASE CommitMembership(r)
  <2> DEFINE d == Delta(row[req[r].user], Written(req[r], row[req[r].user]))
  <2>1. CASE Verdict(org, d) # "ok" /\ Reply(r, Translate(Verdict(org, d)))
    <3>1. Translate(Verdict(org, d)) = "conflict"
      BY <2>1, VerdictType DEF Translate
    <3>2. req'[r].reply = "conflict"
      BY <1>3, <2>1, <3>1
    <3> QED BY <3>2
  <2>2. CASE Committed(r)
    BY <2>2 DEF TypeOK, Idle, Committed
  <2> QED BY <1>5, <2>1, <2>2 DEF CommitMembership
<1> QED BY <1>1, <1>2, <1>4, <1>5, OneRequest

\* The range never comes back to the caller of a membership operation as a 500.
THEOREM VerdictIsConflict == Spec => RangeVerdictIsConflict
<1>1. TypeOK /\ [Next]_vars =>
        [\A r \in Requests :
           /\ req[r].pc = "commit" /\ req[r].op \in MembershipOps \ {"invite"}
           /\ req'[r].pc = "idle"
           => req'[r].reply # "fault"]_vars
  BY RangeVerdictStep
<1> QED BY <1>1, TypeCorrect, PTL DEF Spec, RangeVerdictIsConflict

-----------------------------------------------------------------------------
\* What is known of a request q that nobody raced, of its organization row o
\* and of the membership row m it is about.
FreshJob(q, o, m) ==
    /\ q.op \in MembershipOps =>
         /\ q.op = "invite" => m.status = "absent"
         /\ q.pc \in {"guard", "count"} => q.delta = Delta(m, Written(q, m))
         /\ q.pc = "count" => q.max = o.max
         /\ q.pc = "commit" => Verdict(o, Delta(m, Written(q, m))) = "ok"
    /\ q.op = "update" => RangeCheck([o EXCEPT !.max = q.max])

\* The rows an unraced request read are the rows there are.
Fresh ==
    \A r \in Requests \ raced :
      req[r].pc # "idle" => FreshJob(req[r], org, row[req[r].user])

\* Request r begins to work on what it has read.
Starts(r) ==
    /\ FreshJob(req'[r], org, row[req'[r].user])
    /\ UNCHANGED <<org, row, raced>>
    /\ \A s \in Requests \ {r} : req'[s] = req[s]

\* Each operation estimates the move of the row it read, and checks what the
\* database is going to check.
LEMMA StartsFresh ==
    ASSUME Inv, [Next]_vars, NEW r \in Requests, req[r].pc = "idle",
           req'[r].pc # "idle"
    PROVE  Starts(r)
<1> USE DEF Inv
<1>1. req'[r] # req[r] /\ \A reply : ~Reply(r, reply)
  BY DEF Reply, Idle, TypeOK
<1>2. ASSUME NEW s \in Requests \ {r}, NEW e, req' = [req EXCEPT ![s] = e]
      PROVE  FALSE
  BY <1>1, <1>2 DEF TypeOK
<1>3. ASSUME NEW op \in MembershipOps, NEW u \in Users, NEW role, NEW d,
             GoOn(r, op, u, role, d),
             op = "invite" => row[u].status = "absent",
             d = Delta(row[u], Written([op |-> op, role |-> role], row[u]))
      PROVE  Starts(r)
  <2> DEFINE q == [pc |-> IF d = 0 THEN "commit" ELSE "guard",
                   op |-> op, user |-> u, role |-> role, delta |-> d, max |-> 0]
  <2>1. req'[r] = q
    BY <1>3 DEF GoOn, TypeOK
  <2>2. q.user = u /\ q.delta = d /\ q.op = op /\ q.op # "update"
    BY DEF MembershipOps
  <2>3. Written(q, row[u]) = Written([op |-> op, role |-> role], row[u])
    BY DEF Written
  <2>4. Delta(row[u], Written(q, row[u])) = d
    BY <1>3, <2>3
  <2>5. q.pc = "commit" => Verdict(org, d) = "ok"
    BY DEF Verdict
  <2>6. q.pc # "count"
    OBVIOUS
  <2>7. UNCHANGED <<org, row, raced>> /\ \A s \in Requests \ {r} : req'[s] = req[s]
    BY <1>3 DEF GoOn, TypeOK
  <2> HIDE DEF q
  <2>8. FreshJob(q, org, row[u])
    BY <1>3, <2>2, <2>4, <2>5, <2>6 DEF FreshJob
  <2> QED BY <2>1, <2>2, <2>7, <2>8 DEF Starts
<1>4. ASSUME NEW u \in Users, NEW role \in Roles, Invite(r, u, role)
      PROVE  Starts(r)
  <2>1. GoOn(r, "invite", u, role, 0) /\ row[u].status = "absent"
    BY <1>1, <1>4 DEF Invite
  <2>2. Delta(row[u], Written([op |-> "invite", role |-> role], row[u])) = 0
    BY <2>1 DEF Delta, Written, Counted
  <2> QED BY <1>3, <2>1, <2>2 DEF MembershipOps
<1>5. ASSUME NEW u \in Users, NEW role \in Roles, ChangeRole(r, u, role)
      PROVE  Starts(r)
  <2> DEFINE d == IF row[u].status # "active" THEN 0
                  ELSE IF role = "admin" THEN 1 ELSE -1
  <2>1. GoOn(r, "change_role", u, role, d) /\ row[u].role # role
    BY <1>1, <1>5 DEF ChangeRole
  <2>2. Written([op |-> "change_role", role |-> role], row[u]) = [row[u] EXCEPT !.role = role]
    BY DEF Written
  <2>3. Delta(row[u], [row[u] EXCEPT !.role = role]) = d
    BY <2>1 DEF Delta, Counted, TypeOK, Membership, Roles
  <2>4. "change_role" \in MembershipOps
    BY DEF MembershipOps
  <2> HIDE DEF d
  <2> QED BY <1>3, <2>1, <2>2, <2>3, <2>4
<1>6. ASSUME NEW u \in Users, Accept(r, u)
      PROVE  Starts(r)
  <2> DEFINE d == IF row[u].role = "admin" THEN 1 ELSE 0
  <2>1. GoOn(r, "accept", u, "member", d) /\ row[u].status = "pending"
    BY <1>1, <1>6 DEF Accept
  <2>2. Written([op |-> "accept", role |-> "member"], row[u]) =
          [row[u] EXCEPT !.status = "active", !.joined = TRUE]
    BY DEF Written
  <2>3. Delta(row[u], [row[u] EXCEPT !.status = "active", !.joined = TRUE]) = d
    BY <2>1 DEF Delta, Counted, TypeOK, Membership
  <2>4. "accept" \in MembershipOps
    BY DEF MembershipOps
  <2> HIDE DEF d
  <2> QED BY <1>3, <2>1, <2>2, <2>3, <2>4
<1>7. ASSUME NEW u \in Users, Reinstate(r, u)
      PROVE  Starts(r)
  <2> DEFINE d == IF row[u].role = "admin" THEN 1 ELSE 0
  <2>1. GoOn(r, "reinstate", u, "member", d) /\ row[u].status = "suspended"
    BY <1>1, <1>7 DEF Reinstate
  <2>2. Written([op |-> "reinstate", role |-> "member"], row[u]) =
          [row[u] EXCEPT !.status = "active", !.joined = TRUE]
    BY DEF Written
  <2>3. Delta(row[u], [row[u] EXCEPT !.status = "active", !.joined = TRUE]) = d
    BY <2>1 DEF Delta, Counted, TypeOK, Membership
  <2>4. "reinstate" \in MembershipOps
    BY DEF MembershipOps
  <2> HIDE DEF d
  <2> QED BY <1>3, <2>1, <2>2, <2>3, <2>4
<1>8. ASSUME NEW u \in Users, Deactivate(r, u)
      PROVE  Starts(r)
  <2> DEFINE d == IF u \in ActiveAdmins THEN -1 ELSE 0
  <2>1. GoOn(r, "deactivate", u, "member", d)
    BY <1>1, <1>8 DEF Deactivate
  <2>2. Written([op |-> "deactivate", role |-> "member"], row[u]) =
          [row[u] EXCEPT !.status = "suspended"]
    BY DEF Written
  <2>3. Delta(row[u], [row[u] EXCEPT !.status = "suspended"]) = d
    BY DEF Delta, Counted, TypeOK, Membership, ActiveAdmins
  <2>4. "deactivate" \in MembershipOps
    BY DEF MembershipOps
  <2> HIDE DEF d
  <2> QED BY <1>3, <2>1, <2>2, <2>3, <2>4
<1>9. ASSUME NEW s \in Requests, s # r, NEW u \in Users, NEW role \in Roles,
             \/ Invite(s, u, role) \/ ChangeRole(s, u, role)
             \/ Accept(s, u) \/ Deactivate(s, u) \/ Reinstate(s, u)
      PROVE  FALSE
  BY <1>2, <1>9 DEF Invite, ChangeRole, Accept, Deactivate, Reinstate, Reply, GoOn
<1>10. ASSUME NEW s \in Requests, NEW max \in 1..MaxCeiling,
              UpdateOrganization(s, max) \/ DeactivateOrganization(s)
       PROVE  s = r /\ Starts(r)
  <2>1. CASE s # r
    BY <1>2, <1>10, <2>1
       DEF UpdateOrganization, DeactivateOrganization, Reply, GoOnWithOrganization
  <2>2. CASE s = r
    <3>1. ASSUME NEW m, GoOnWithOrganization(r, "update", m),
                 RangeCheck([org EXCEPT !.max = m])
          PROVE  Starts(r)
      <4>1. req'[r] = [pc |-> "commit", op |-> "update", max |-> m]
        BY <3>1 DEF GoOnWithOrganization, TypeOK
      <4>2. req'[r].op = "update" /\ req'[r].max = m /\ "update" \notin MembershipOps
        BY <4>1 DEF MembershipOps
      <4>3. UNCHANGED <<org, row, raced>> /\ \A x \in Requests \ {r} : req'[x] = req[x]
        BY <3>1 DEF GoOnWithOrganization, TypeOK
      <4> QED BY <3>1, <4>2, <4>3 DEF Starts, FreshJob
    <3>2. max >= org.count => RangeCheck([org EXCEPT !.max = max])
      BY CeilingAssumption DEF RangeCheck, TypeOK, Organization
    <3>3. CASE UpdateOrganization(r, max)
      BY <1>1, <2>2, <3>1, <3>2, <3>3 DEF UpdateOrganization
    <3>4. CASE DeactivateOrganization(r)
      <4>1. GoOnWithOrganization(r, "close", 0)
        BY <1>1, <3>4 DEF DeactivateOrganization
      <4>2. req'[r].op \notin MembershipOps /\ req'[r].op # "update"
        BY <4>1 DEF GoOnWithOrganization, TypeOK, MembershipOps
      <4>3. UNCHANGED <<org, row, raced>> /\ \A x \in Requests \ {r} : req'[x] = req[x]
        BY <4>1 DEF GoOnWithOrganization, TypeOK
      <4> QED BY <2>2, <4>2, <4>3 DEF Starts, FreshJob
    <3> QED BY <1>10, <2>2, <3>3, <3>4
  <2> QED BY <2>1, <2>2
<1>11. ASSUME NEW s \in Requests,
              \/ ReadCeiling(s) \/ Guard(s) \/ Abandon(s)
              \/ CommitMembership(s) \/ CommitOrganization(s)
       PROVE  FALSE
  <2>1. s # r
    BY <1>11 DEF ReadCeiling, Guard, Abandon, CommitMembership, CommitOrganization
  <2>2. CASE ReadCeiling(s) \/ Guard(s) \/ Abandon(s)
    BY <1>2, <2>1, <2>2 DEF ReadCeiling, Guard, Abandon, Reply, TypeOK
  <2>3. CASE CommitMembership(s) \/ CommitOrganization(s)
    BY <1>2, <2>1, <2>3 DEF CommitMembership, CommitOrganization, Reply, Committed
  <2> QED BY <1>11, <2>2, <2>3
<1>12. ~UNCHANGED vars /\ \A u, kind : ~CreateOrganization(u, kind)
  BY <1>1 DEF vars, CreateOrganization
<1>13. 1 \in 1..MaxCeiling /\ "admin" \in Roles
  BY CeilingAssumption DEF Roles
<1>14. PICK s \in Requests :
         \/ \E u \in Users :
              \/ \E role \in Roles : Invite(s, u, role) \/ ChangeRole(s, u, role)
              \/ Accept(s, u) \/ Deactivate(s, u) \/ Reinstate(s, u)
         \/ \E max \in 1..MaxCeiling : UpdateOrganization(s, max)
         \/ DeactivateOrganization(s)
         \/ ReadCeiling(s) \/ Guard(s)
         \/ CommitMembership(s) \/ CommitOrganization(s)
         \/ Abandon(s)
  BY <1>12 DEF Next
<1>15. s = r
  BY <1>9, <1>10, <1>11, <1>13, <1>14
<1> QED BY <1>4, <1>5, <1>6, <1>7, <1>8, <1>10, <1>11, <1>13, <1>14, <1>15

\* The guard, with a ceiling that still is the organization's, decides as the
\* trigger does, and in an active organization as nothing but the trigger does.
LEMMA GuardIsVerdict ==
    ASSUME Inv, org.exists, NEW q \in MembershipJob, q.max = org.max
    PROVE  /\ GuardHolds(q) => Verdict(org, q.delta) = "ok"
           /\ ~GuardHolds(q) /\ org.active => Verdict(org, q.delta) # "ok"
<1> DEFINE d == q.delta
<1>1. d \in {-1, 0, 1} /\ org \in Organization
  BY DEF Inv, TypeOK, MembershipJob
<1>2. GuardHolds(q) <=> org.count + d \in 1..org.max
  BY DEF GuardHolds, Inv, CounterExact
<1>3. Adjusted(org, d).count = org.count + d /\ Adjusted(org, d).max = org.max
      /\ Adjusted(org, d).active = org.active
  BY <1>1 DEF Adjusted, Organization
<1>4. /\ org.count \in Nat /\ org.max \in Nat /\ org.max >= 1 /\ org.count <= org.max
      /\ org.active => org.count >= 1
  BY <1>1, CeilingAssumption DEF Inv, Founded, Organization
<1> HIDE DEF d
<1>5. CASE GuardHolds(q)
  <2>1. RangeCheck(Adjusted(org, d)) /\ FloorCheck(Adjusted(org, d))
    BY <1>1, <1>2, <1>3, <1>4, <1>5 DEF RangeCheck, FloorCheck
  <2> QED BY <1>5, <2>1 DEF Verdict, d
<1>6. CASE ~GuardHolds(q) /\ org.active
  <2>1. d # 0 /\ ~(RangeCheck(Adjusted(org, d)) /\ FloorCheck(Adjusted(org, d)))
    BY <1>1, <1>2, <1>3, <1>4, <1>6 DEF RangeCheck, FloorCheck
  <2> QED BY <1>6, <2>1 DEF Verdict, d
<1> QED BY <1>5, <1>6

\* A step of r leaves the unraced others as fresh as they were.
LEMMA FreshStep ==
    ASSUME Fresh, NEW r \in Requests,
           \A s \in Requests \ {r} :
             /\ req'[s] = req[s]
             /\ s \notin raced' =>
                  /\ s \notin raced
                  /\ req[s].pc # "idle" =>
                       /\ org' = org
                       /\ req[s].op \in MembershipOps =>
                            row'[req[s].user] = row[req[s].user],
           r \notin raced' /\ req'[r].pc # "idle" =>
             FreshJob(req'[r], org', row'[req'[r].user])
    PROVE  Fresh'
<1> SUFFICES ASSUME NEW s \in Requests, s \notin raced', req'[s].pc # "idle"
             PROVE  FreshJob(req'[s], org', row'[req'[s].user])
  BY DEF Fresh
<1>1. CASE s = r
  BY <1>1
<1>2. CASE s # r
  <2>1. /\ req'[s] = req[s] /\ org' = org
        /\ req[s].op \in MembershipOps => row'[req[s].user] = row[req[s].user]
        /\ FreshJob(req[s], org, row[req[s].user])
    BY <1>2 DEF Fresh
  <2> QED BY <2>1 DEF FreshJob
<1> QED BY <1>1, <1>2

LEMMA FreshReply ==
    ASSUME Inv, Fresh, NEW r \in Requests, NEW reply, Reply(r, reply)
    PROVE  Fresh'
<1>1. req'[r].pc = "idle" /\ \A s \in Requests \ {r} : req'[s] = req[s]
  BY DEF Reply, Idle, Inv, TypeOK
<1> QED BY <1>1, FreshStep DEF Reply

LEMMA FreshStart ==
    ASSUME Inv, Fresh, [Next]_vars, NEW r \in Requests, Arrives(r),
           \/ \E op, u, role, d : GoOn(r, op, u, role, d)
           \/ \E op, max : GoOnWithOrganization(r, op, max)
    PROVE  Fresh'
<1>1. req[r].pc = "idle" /\ req'[r].pc # "idle"
  BY DEF Arrives, GoOn, GoOnWithOrganization, Inv, TypeOK
<1>2. Starts(r)
  BY <1>1, StartsFresh
<1> QED BY <1>2, FreshStep DEF Starts

LEMMA FreshGuard ==
    ASSUME Inv, Fresh, NEW r \in Requests, ReadCeiling(r) \/ Guard(r)
    PROVE  Fresh'
<1>1. CASE \E reply : Reply(r, reply)
  BY <1>1, FreshReply
<1>2. CASE \A reply : ~Reply(r, reply)
  <2> DEFINE m == row[req[r].user]
  <2>1. /\ req'[r].user = req[r].user /\ req'[r].op = req[r].op
        /\ req'[r].role = req[r].role
        /\ UNCHANGED <<org, row, raced>>
        /\ \A s \in Requests \ {r} : req'[s] = req[s]
    BY <1>2, GuardGoesOn DEF Inv
  <2>2. req[r] \in MembershipJob /\ req[r].pc # "idle" /\ req[r].op \in MembershipOps
    BY JobType DEF ReadCeiling, Guard, Inv, MembershipJob
  <2>3. Written(req'[r], m) = Written(req[r], m)
    BY <2>1 DEF Written
  <2>4. ASSUME r \notin raced PROVE FreshJob(req'[r], org, m)
    <3>1. FreshJob(req[r], org, m)
      BY <2>2, <2>4 DEF Fresh
    <3>2. req'[r].op # "update"
      BY <2>1, <2>2 DEF MembershipOps
    <3>3. CASE ReadCeiling(r)
      <4>1. /\ req'[r].pc = "count" /\ req'[r].max = org.max
            /\ req'[r].delta = req[r].delta /\ req[r].pc = "guard"
        BY <1>2, <3>3, GuardGoesOn DEF Inv, ReadCeiling
      <4> QED BY <2>1, <2>2, <2>3, <3>1, <3>2, <4>1 DEF FreshJob
    <3>4. CASE Guard(r)
      <4>1. req'[r].pc = "commit" /\ GuardHolds(req[r]) /\ req[r].pc = "count"
        BY <1>2, <3>4, GuardGoesOn DEF Inv
      <4>2. req[r].max = org.max /\ req[r].delta = Delta(m, Written(req[r], m))
        BY <2>2, <3>1, <4>1 DEF FreshJob
      <4>3. Verdict(org, req[r].delta) = "ok"
        BY <2>2, <4>1, <4>2, GuardIsVerdict, AtWork DEF Inv
      <4> QED BY <2>1, <2>2, <2>3, <3>1, <3>2, <4>1, <4>2, <4>3 DEF FreshJob
    <3> QED BY <3>3, <3>4
  <2> QED BY <2>1, <2>4, FreshStep
<1> QED BY <1>1, <1>2

\* A commit leaves those fresh whose rows it did not write.
LEMMA FreshCommit ==
    ASSUME Inv, Fresh, NEW r \in Requests, Committed(r)
    PROVE  Fresh'
<1>1. req'[r].pc = "idle" /\ \A s \in Requests \ {r} : req'[s] = req[s]
  BY DEF Committed, Idle, Inv, TypeOK
<1>2. ASSUME NEW s \in Requests \ {r}, s \notin raced'
      PROVE  /\ s \notin raced
             /\ req[s].pc # "idle" =>
                  /\ org' = org
                  /\ req[s].op \in MembershipOps =>
                       row'[req[s].user] = row[req[s].user]
  BY <1>2 DEF Committed
<1> QED BY <1>1, <1>2, FreshStep

LEMMA FreshNext ==
    ASSUME Inv, Fresh, [Next]_vars
    PROVE  Fresh'
<1>1. CASE UNCHANGED vars
  BY <1>1 DEF vars, Fresh
<1>2. CASE \E u \in Users, kind \in Kinds : CreateOrganization(u, kind)
  BY <1>2 DEF CreateOrganization, Fresh, Inv, Founded
<1>3. ASSUME NEW r \in Requests, NEW u \in Users,
             \/ \E role \in Roles : Invite(r, u, role) \/ ChangeRole(r, u, role)
             \/ Accept(r, u) \/ Deactivate(r, u) \/ Reinstate(r, u)
      PROVE  Fresh'
  <2>1. \/ \E reply : Reply(r, reply)
        \/ Arrives(r) /\ \E op, v, role, d : GoOn(r, op, v, role, d)
    BY <1>3 DEF Invite, ChangeRole, Accept, Deactivate, Reinstate
  <2> QED BY <2>1, FreshReply, FreshStart
<1>4. ASSUME NEW r \in Requests,
             \/ \E max \in 1..MaxCeiling : UpdateOrganization(r, max)
             \/ DeactivateOrganization(r)
      PROVE  Fresh'
  <2>1. \/ \E reply : Reply(r, reply)
        \/ Arrives(r) /\ \E op, max : GoOnWithOrganization(r, op, max)
    BY <1>4 DEF UpdateOrganization, DeactivateOrganization
  <2> QED BY <2>1, FreshReply, FreshStart
<1>5. ASSUME NEW r \in Requests, CommitMembership(r) \/ CommitOrganization(r)
      PROVE  Fresh'
  <2>1. Committed(r) \/ \E reply : Reply(r, reply)
    BY <1>5 DEF CommitMembership, CommitOrganization
  <2> QED BY <2>1, FreshReply, FreshCommit
<1>6. ASSUME NEW r \in Requests, Abandon(r)
      PROVE  Fresh'
  BY <1>6, FreshReply DEF Abandon
<1> QED BY <1>1, <1>2, <1>3, <1>4, <1>5, <1>6, FreshGuard DEF Next

\* What becomes of an unraced request in the step that ends it.
LEMMA UnracedEnds ==
    ASSUME Inv, Fresh, [Next]_vars, NEW r \in Requests \ raced
    PROVE  /\ ~Ends(r, "commit", {"conflict", "fault"})
           /\ Ends(r, "count", {"conflict"}) /\ org.active =>
                Verdict(org, Move(req[r])) # "ok"
<1> USE DEF Inv
<1>1. \A reply : Reply(r, reply) => req'[r].reply = reply
  BY DEF Reply, Idle, TypeOK
<1>2. Abandon(r) => req'[r].reply = "none"
  BY <1>1 DEF Abandon
<1>3. Committed(r) => req'[r].reply = "ok"
  BY DEF Committed, Idle, TypeOK
<1>4. req[r].pc # "idle" => FreshJob(req[r], org, row[req[r].user])
  BY DEF Fresh
<1>5. ASSUME Ends(r, "commit", {"conflict", "fault"}) PROVE FALSE
  <2>1. req[r].pc = "commit" /\ req'[r] # req[r] /\ req'[r].reply \in {"conflict", "fault"}
    BY <1>5 DEF Ends
  <2>2. CommitMembership(r) \/ CommitOrganization(r)
    BY <1>2, <2>1, OneRequest DEF ReadCeiling, Guard
  <2>3. ~Committed(r)
    BY <1>3, <2>1
  <2>4. CASE CommitMembership(r)
    BY <1>4, <2>1, <2>3, <2>4 DEF CommitMembership, FreshJob
  <2>5. CASE CommitOrganization(r)
    BY <1>4, <2>1, <2>3, <2>5 DEF CommitOrganization, FreshJob
  <2> QED BY <2>2, <2>4, <2>5
<1>6. ASSUME Ends(r, "count", {"conflict"}), org.active
      PROVE  Verdict(org, Move(req[r])) # "ok"
  <2>1. req[r].pc = "count" /\ req'[r] # req[r] /\ req'[r].pc = "idle"
        /\ req'[r].reply = "conflict"
    BY <1>6 DEF Ends
  <2>2. Guard(r)
    BY <1>2, <2>1, OneRequest
       DEF ReadCeiling, CommitMembership, CommitOrganization
  <2>3. ~GuardHolds(req[r])
    <3> SUFFICES ASSUME GuardHolds(req[r]) PROVE FALSE
      OBVIOUS
    <3>1. req[r] \in MembershipJob
      BY <2>1, JobType
    <3>2. req'[r] = [req[r] EXCEPT !.pc = "commit", !.delta = 0, !.max = 0]
      BY <2>2 DEF Guard, TypeOK
    <3>3. req'[r].pc = "commit"
      BY <3>1, <3>2 DEF MembershipJob
    <3> QED BY <2>1, <3>3
  <2>4. req[r] \in MembershipJob /\ org.exists
    BY <2>1, JobType, AtWork
  <2>5. req[r].max = org.max /\ req[r].delta = Move(req[r])
    BY <1>4, <2>1, <2>4 DEF FreshJob, Move, MembershipJob
  <2>6. Verdict(org, req[r].delta) # "ok"
    BY <1>6, <2>3, <2>4, <2>5, GuardIsVerdict
  <2> QED BY <2>5, <2>6
<1> QED BY <1>5, <1>6

\* For any number of requests: what comes between a request's own checks and
\* the database's is a write of somebody else, and nothing but that.
THEOREM RefusalsAreRaces == Spec => OnlyRacesAreRefused
<1>1. Init => Fresh
  BY DEF Init, Fresh, Idle
<1>2. Inv /\ Fresh /\ [Next]_vars => Fresh'
  BY FreshNext
<1>3. Inv /\ Fresh /\ [Next]_vars =>
        [\A r \in Requests \ raced :
           /\ ~Ends(r, "commit", {"conflict", "fault"})
           /\ Ends(r, "count", {"conflict"}) /\ org.active =>
                Verdict(org, Move(req[r])) # "ok"]_vars
  BY UnracedEnds
<1> QED BY <1>1, <1>2, <1>3, Invariance, PTL DEF Spec, OnlyRacesAreRefused

-----------------------------------------------------------------------------
\* Rows are written by a founder and by commits only.
LEMMA OtherSteps ==
    ASSUME [Next]_vars
    PROVE  \/ UNCHANGED <<org, row>>
           \/ \E u \in Users, kind \in Kinds : CreateOrganization(u, kind)
           \/ \E r \in Requests : CommitMembership(r) \/ CommitOrganization(r)
<1>1. ASSUME NEW r \in Requests, NEW u \in Users,
             \/ \E role \in Roles : Invite(r, u, role) \/ ChangeRole(r, u, role)
             \/ Accept(r, u) \/ Deactivate(r, u) \/ Reinstate(r, u)
      PROVE  UNCHANGED <<org, row>>
  BY <1>1 DEF Invite, ChangeRole, Accept, Deactivate, Reinstate, Reply, GoOn
<1>2. ASSUME NEW r \in Requests,
             \/ \E max \in 1..MaxCeiling : UpdateOrganization(r, max)
             \/ DeactivateOrganization(r)
             \/ ReadCeiling(r) \/ Guard(r) \/ Abandon(r)
      PROVE  UNCHANGED <<org, row>>
  BY <1>2 DEF UpdateOrganization, DeactivateOrganization, ReadCeiling, Guard,
              Abandon, Reply, GoOnWithOrganization
<1>3. UNCHANGED vars => UNCHANGED <<org, row>>
  BY DEF vars
<1> QED BY <1>1, <1>2, <1>3 DEF Next

\* Whoever a commit makes active has joined.
THEOREM ActiveHaveJoined == Spec => []ActiveMeansJoined
<1>1. Init => ActiveMeansJoined
  BY DEF Init, ActiveMeansJoined, NoRow
<1>2. ActiveMeansJoined /\ TypeOK /\ [Next]_vars => ActiveMeansJoined'
  <2> SUFFICES ASSUME ActiveMeansJoined, TypeOK, [Next]_vars PROVE ActiveMeansJoined'
    OBVIOUS
  <2>1. CASE UNCHANGED row
    BY <2>1 DEF ActiveMeansJoined
  <2>2. ASSUME NEW u \in Users, NEW kind \in Kinds, CreateOrganization(u, kind)
        PROVE  ActiveMeansJoined'
    BY <2>2 DEF CreateOrganization, ActiveMeansJoined, TypeOK
  <2>3. ASSUME NEW r \in Requests, CommitMembership(r), ~UNCHANGED row
        PROVE  ActiveMeansJoined'
    <3> DEFINE u == req[r].user
               n == Written(req[r], row[u])
    <3>1. row' = [row EXCEPT ![u] = n]
      BY <2>3 DEF CommitMembership, Reply
    <3>2. req[r] \in MembershipJob /\ u \in Users /\ row[u] \in Membership
      BY <2>3, JobType DEF CommitMembership, TypeOK, MembershipJob
    <3>3. n.status = "active" => n.joined
      BY <3>2 DEF Written, MembershipJob, MembershipOps, Membership, ActiveMeansJoined
    <3> HIDE DEF n
    <3> QED BY <3>1, <3>2, <3>3 DEF ActiveMeansJoined, TypeOK
  <2>4. CASE \E r \in Requests : CommitOrganization(r)
    BY <2>1, <2>4 DEF CommitOrganization, Reply
  <2> QED BY <2>1, <2>2, <2>3, <2>4, OtherSteps
<1> QED BY <1>1, <1>2, TypeCorrect, PTL DEF Spec

-----------------------------------------------------------------------------
\* Who is in a personal organization, and what requests there are about: the
\* rows alone are not inductive, for an invitation under way would add one.
Alone ==
    /\ ~org.exists => \A u \in Users : row[u].status = "absent"
    /\ org.kind = "personal" =>
         \A r \in Requests : req[r].pc # "idle" /\ req[r].op \in MembershipOps =>
           req[r].op # "invite" /\ row[req[r].user].status # "absent"

\* A step of r that writes no row leaves the others with what they had.
LEMMA AloneQuiet ==
    ASSUME Inv, Alone, NEW r \in Requests, NEW e, req' = [req EXCEPT ![r] = e],
           UNCHANGED row, org'.kind = org.kind, org.exists => org'.exists,
           org.kind = "personal" /\ e.pc # "idle" /\ e.op \in MembershipOps =>
             e.op # "invite" /\ row[e.user].status # "absent"
    PROVE  Alone'
BY DEF Alone, Inv, TypeOK

LEMMA AloneReply ==
    ASSUME Inv, Alone, NEW r \in Requests, NEW reply, Reply(r, reply)
    PROVE  Alone'
<1>1. req' = [req EXCEPT ![r] = Idle(reply)] /\ UNCHANGED <<org, row>>
  BY DEF Reply
<1>2. Idle(reply).pc = "idle"
  BY DEF Idle
<1> QED BY <1>1, <1>2, AloneQuiet

LEMMA AloneGoOn ==
    ASSUME Inv, Alone, NEW r \in Requests, NEW op, NEW u, NEW role, NEW d,
           GoOn(r, op, u, role, d),
           org.kind = "personal" => op # "invite" /\ row[u].status # "absent"
    PROVE  Alone'
<1> DEFINE e == [pc |-> IF d = 0 THEN "commit" ELSE "guard",
                 op |-> op, user |-> u, role |-> role, delta |-> d, max |-> 0]
<1>1. req' = [req EXCEPT ![r] = e] /\ UNCHANGED <<org, row>>
  BY DEF GoOn
<1>2. e.op = op /\ e.user = u
  OBVIOUS
<1> HIDE DEF e
<1> QED BY <1>1, <1>2, AloneQuiet

LEMMA AloneGoOnWithOrganization ==
    ASSUME Inv, Alone, NEW r \in Requests, NEW op \in OrganizationOps, NEW max,
           GoOnWithOrganization(r, op, max)
    PROVE  Alone'
<1> DEFINE e == [pc |-> "commit", op |-> op, max |-> max]
<1>1. req' = [req EXCEPT ![r] = e] /\ UNCHANGED <<org, row>>
  BY DEF GoOnWithOrganization
<1>2. e.op \notin MembershipOps
  BY DEF OrganizationOps, MembershipOps
<1> HIDE DEF e
<1> QED BY <1>1, <1>2, AloneQuiet

LEMMA AloneCommit ==
    ASSUME Inv, Alone, PersonalStaysSolo, NEW r \in Requests, CommitMembership(r)
    PROVE  Alone' /\ PersonalStaysSolo'
<1>1. CASE \E reply : Reply(r, reply)
  BY <1>1, AloneReply DEF Reply, PersonalStaysSolo
<1>2. CASE \A reply : ~Reply(r, reply)
  <2> DEFINE u == req[r].user
             n == Written(req[r], row[u])
             d == Delta(row[u], n)
  <2>1. /\ row' = [row EXCEPT ![u] = n] /\ org' = Adjusted(org, d)
        /\ req' = [req EXCEPT ![r] = Idle("ok")]
        /\ req[r].pc = "commit" /\ req[r].op \in MembershipOps
    BY <1>2 DEF CommitMembership, Committed
  <2>2. req[r] \in MembershipJob /\ u \in Users /\ row[u] \in Membership
    BY <2>1, JobType DEF Inv, TypeOK, MembershipJob
  <2>3. org'.kind = org.kind /\ org'.exists = org.exists /\ org.exists
    BY <2>1, AtWork DEF Adjusted, Inv, TypeOK, Organization
  <2>4. row[u].status # "absent" => n.status # "absent"
    BY <2>2 DEF Written, MembershipJob, MembershipOps, Membership
  <2>5. org.kind = "personal" => row[u].status # "absent"
    BY <2>1 DEF Alone
  <2>6. Idle("ok").pc = "idle"
    BY DEF Idle
  <2> HIDE DEF n, u, d
  <2>7. org.kind = "personal" =>
          \A v \in Users : row[v].status # "absent" <=> row'[v].status # "absent"
    BY <2>1, <2>2, <2>4, <2>5 DEF Inv, TypeOK
  <2>8. \A s \in Requests : req'[s] = req[s] \/ req'[s].pc = "idle"
    BY <2>1, <2>6 DEF Inv, TypeOK
  <2>9. ASSUME org.kind = "personal", NEW s \in Requests, req'[s].pc # "idle",
               req'[s].op \in MembershipOps
        PROVE  req'[s].op # "invite" /\ row'[req'[s].user].status # "absent"
    <3>1. /\ req'[s] = req[s] /\ req[s].op # "invite"
          /\ row[req[s].user].status # "absent"
      BY <2>8, <2>9 DEF Alone
    <3>2. req[s].user \in Users
      BY <2>9, <3>1, JobType DEF Inv, MembershipJob
    <3> QED BY <2>7, <2>9, <3>1, <3>2
  <2>10. Alone'
    BY <2>3, <2>9 DEF Alone
  <2> QED BY <2>3, <2>7, <2>10 DEF PersonalStaysSolo
<1> QED BY <1>1, <1>2

LEMMA AloneNext ==
    ASSUME Inv, Alone, PersonalStaysSolo, [Next]_vars
    PROVE  Alone' /\ PersonalStaysSolo'
<1>1. ASSUME UNCHANGED row, org'.kind = org.kind PROVE PersonalStaysSolo'
  BY <1>1 DEF PersonalStaysSolo
<1>2. ASSUME NEW u \in Users, NEW kind \in Kinds, CreateOrganization(u, kind)
      PROVE  Alone' /\ PersonalStaysSolo'
  <2>1. /\ \A v \in Users : row[v].status = "absent"
        /\ \A r \in Requests : req[r].pc = "idle"
    BY <1>2 DEF CreateOrganization, Alone, Inv, Founded
  <2> QED BY <1>2, <2>1 DEF CreateOrganization, Alone, PersonalStaysSolo, Inv, TypeOK
<1>3. ASSUME NEW r \in Requests, NEW u \in Users, NEW role \in Roles, Invite(r, u, role)
      PROVE  Alone' /\ PersonalStaysSolo'
  <2>1. UNCHANGED <<org, row>>
    BY <1>3 DEF Invite, Reply, GoOn
  <2>2. org.kind = "team" => org.kind # "personal"
    OBVIOUS
  <2> QED BY <1>1, <1>3, <2>1, <2>2, AloneReply, AloneGoOn DEF Invite
<1>4. ASSUME NEW r \in Requests, NEW u \in Users, NEW role \in Roles, ChangeRole(r, u, role)
      PROVE  Alone' /\ PersonalStaysSolo'
  <2>1. UNCHANGED <<org, row>>
    BY <1>4 DEF ChangeRole, Reply, GoOn
  <2> QED BY <1>1, <1>4, <2>1, AloneReply, AloneGoOn DEF ChangeRole
<1>5. ASSUME NEW r \in Requests, NEW u \in Users,
             Accept(r, u) \/ Deactivate(r, u) \/ Reinstate(r, u)
      PROVE  Alone' /\ PersonalStaysSolo'
  <2>1. UNCHANGED <<org, row>>
    BY <1>5 DEF Accept, Deactivate, Reinstate, Reply, GoOn
  <2>2. Accept(r, u) => Alone'
    BY AloneReply, AloneGoOn DEF Accept
  <2>3. Deactivate(r, u) => Alone'
    BY AloneReply, AloneGoOn DEF Deactivate
  <2>4. Reinstate(r, u) => Alone'
    BY AloneReply, AloneGoOn DEF Reinstate
  <2> QED BY <1>1, <1>5, <2>1, <2>2, <2>3, <2>4
<1>6. ASSUME NEW r \in Requests, NEW max \in 1..MaxCeiling,
             UpdateOrganization(r, max) \/ DeactivateOrganization(r)
      PROVE  Alone' /\ PersonalStaysSolo'
  <2>1. UNCHANGED <<org, row>>
    BY <1>6 DEF UpdateOrganization, DeactivateOrganization, Reply, GoOnWithOrganization
  <2> QED BY <1>1, <1>6, <2>1, AloneReply, AloneGoOnWithOrganization
          DEF UpdateOrganization, DeactivateOrganization, OrganizationOps
<1>7. ASSUME NEW r \in Requests, Abandon(r)
      PROVE  Alone' /\ PersonalStaysSolo'
  <2>1. UNCHANGED <<org, row>>
    BY <1>7 DEF Abandon, Reply
  <2> QED BY <1>1, <1>7, <2>1, AloneReply DEF Abandon
<1>8. ASSUME NEW r \in Requests, ReadCeiling(r) \/ Guard(r)
      PROVE  Alone' /\ PersonalStaysSolo'
  <2>1. UNCHANGED <<org, row>>
    BY <1>8 DEF ReadCeiling, Guard, Reply
  <2>2. CASE \E reply : Reply(r, reply)
    BY <1>1, <2>1, <2>2, AloneReply
  <2>3. CASE \A reply : ~Reply(r, reply)
    <3> DEFINE e == req'[r]
    <3>1. req[r] \in MembershipJob /\ req[r].pc # "idle"
      BY <1>8, JobType DEF ReadCeiling, Guard, Inv
    <3>2. req' = [req EXCEPT ![r] = e]
      BY <1>8, <2>3 DEF ReadCeiling, Guard, Inv, TypeOK
    <3>3. e.op = req[r].op /\ e.user = req[r].user
      BY <1>8, <2>3, GuardGoesOn DEF Inv
    <3>4. org.kind = "personal" /\ e.op \in MembershipOps =>
            e.op # "invite" /\ row[e.user].status # "absent"
      BY <3>1, <3>3 DEF Alone
    <3> HIDE DEF e
    <3> QED BY <1>1, <2>1, <3>2, <3>4, AloneQuiet
  <2> QED BY <2>2, <2>3
<1>9. ASSUME NEW r \in Requests, CommitOrganization(r)
      PROVE  Alone' /\ PersonalStaysSolo'
  <2>1. UNCHANGED row /\ org'.kind = org.kind /\ org'.exists = org.exists
    BY <1>9 DEF CommitOrganization, Reply, Inv, TypeOK, Organization
  <2>2. \E reply : req' = [req EXCEPT ![r] = Idle(reply)]
    BY <1>9 DEF CommitOrganization, Reply, Committed
  <2>3. \A reply : Idle(reply).pc = "idle"
    BY DEF Idle
  <2> QED BY <1>1, <2>1, <2>2, <2>3, AloneQuiet
<1>10. CASE UNCHANGED vars
  BY <1>10 DEF vars, Alone, PersonalStaysSolo
<1>11. 1 \in 1..MaxCeiling
  BY CeilingAssumption
<1> QED BY <1>2, <1>3, <1>4, <1>5, <1>6, <1>7, <1>8, <1>9, <1>10, <1>11, AloneCommit DEF Next

\* A personal organization has its founder and nobody else, although nothing
\* but the check of one operation says so, and that long before it commits.
THEOREM PersonalSolo == Spec => []PersonalStaysSolo
<1>1. Init => Alone /\ PersonalStaysSolo
  BY DEF Init, Alone, PersonalStaysSolo, NoRow, NoOrganization, Idle
<1>2. Inv /\ Alone /\ PersonalStaysSolo /\ [Next]_vars => Alone' /\ PersonalStaysSolo'
  BY AloneNext
<1> QED BY <1>1, <1>2, Invariance, PTL DEF Spec

-----------------------------------------------------------------------------
(* The cache in front of these rows: MembershipCache.                      *)

LEMMA StandingType ==
    ASSUME NEW m \in Row, NEW o \in BOOLEAN
    PROVE  StandingOf(m, o) \in Standings
BY DEF StandingOf, Standings, Row

LEMMA RewritesType ==
    ASSUME NEW m \in Row, NEW n \in Rewrites(m)
    PROVE  n \in Row
BY DEF Rewrites, Row, Roles, Statuses

LEMMA LearnType ==
    ASSUME CacheTypeOK, NEW s \in Standings, NEW t \in BOOLEAN, Learn(s, t)
    PROVE  reader' \in [Readers -> Reader] /\ hist' \in History
<1>1. reader' \in [Readers -> Reader]
  BY DEF CacheTypeOK, Learn, Reader
<1>2. hist' \in History
  BY DEF CacheTypeOK, Learn, History
<1> QED
  BY <1>1, <1>2

THEOREM CacheTypeCorrect == CacheSpec => []CacheTypeOK
<1>1. CacheInit => CacheTypeOK
  <2> SUFFICES ASSUME CacheInit PROVE CacheTypeOK
    OBVIOUS
  <2>1. caller \in Row
    BY DEF CacheInit, FirstRows, Row, Roles, Statuses
  <2>2. Standing \in Standings
    BY <2>1, StandingType DEF Standing, CacheInit
  <2>3. hist \in History
    BY <2>2 DEF CacheInit, History
  <2> QED BY <2>1, <2>3 DEF CacheInit, CacheTypeOK, Entry, NoEntry, IdleReader, Reader
<1>2. CacheTypeOK /\ [CacheNext]_cacheVars => CacheTypeOK'
  <2> SUFFICES ASSUME CacheTypeOK, [CacheNext]_cacheVars PROVE CacheTypeOK'
    OBVIOUS
  <2>0. Standing \in Standings
    BY StandingType DEF Standing, CacheTypeOK
  <2>1. ASSUME NEW r \in Readers, Get(r) PROVE CacheTypeOK'
    <3>1. /\ entry.value \in Roles \cup {"corrupt", "none"}
          /\ hist.may \in SUBSET Standings
      BY DEF CacheTypeOK, Entry, NoEntry, History
    <3> DEFINE next == [pc |-> CASE entry.value \in Roles -> "granted"
                                 [] entry.value = "corrupt" -> "purge"
                                 [] entry.value = "none" -> "read",
                        role |-> IF entry.value \in Roles THEN entry.value
                                 ELSE "none",
                        may |-> hist.may]
    <3>3. next \in Reader
      <4>1. CASE entry.value \in Roles
        <5>1. next = [pc |-> "granted", role |-> entry.value, may |-> hist.may]
          BY <4>1 DEF Roles
        <5> QED
          BY <3>1, <4>1, <5>1 DEF Reader
      <4>2. CASE entry.value = "corrupt"
        <5>1. next = [pc |-> "purge", role |-> "none", may |-> hist.may]
          BY <4>2 DEF Roles
        <5> QED
          BY <3>1, <5>1 DEF Reader
      <4>3. CASE entry.value = "none"
        <5>1. next = [pc |-> "read", role |-> "none", may |-> hist.may]
          BY <4>3 DEF Roles
        <5> QED
          BY <3>1, <5>1 DEF Reader
      <4> QED
        BY <3>1, <4>1, <4>2, <4>3
    <3>4. reader' = [reader EXCEPT ![r] = next]
      BY <2>1 DEF Get
    <3> QED
      BY <2>1, <3>3, <3>4 DEF Get, CacheTypeOK
  <2>2. ASSUME NEW r \in Readers, Purge(r) PROVE CacheTypeOK'
    BY <2>2 DEF Purge, CacheTypeOK, Reader, Entry, History
  <2>3. ASSUME NEW r \in Readers, Read(r) PROVE CacheTypeOK'
    BY <2>0, <2>3 DEF Read, Granting, CacheTypeOK, Reader, IdleReader, Standings
  <2>4. ASSUME NEW r \in Readers, Set(r) PROVE CacheTypeOK'
    <3>1. reader[r].role \in Roles /\ (reader[r].role # Standing) \in BOOLEAN
      BY <2>4 DEF Set, CacheTypeOK, Reader
    <3>2. entry' \in Entry
      BY <2>4, <3>1, TTLAssumption DEF Set, Entry
    <3>a. PICK b \in BOOLEAN : hist' = [hist EXCEPT !.tainted = b]
      BY <2>4, <3>1 DEF Set
    <3>b. hist' \in History
      BY <3>a DEF CacheTypeOK, History
    <3>3. reader' \in [Readers -> Reader]
      BY <2>4 DEF Set, CacheTypeOK, Reader
    <3> QED
      BY <2>4, <3>2, <3>3, <3>b DEF Set, CacheTypeOK
  <2>5. ASSUME NEW r \in Readers, Finish(r) PROVE CacheTypeOK'
    BY <2>5 DEF Finish, CacheTypeOK, Reader, IdleReader, Standings
  <2>6. ASSUME NEW w \in Writers, Commit(w) PROVE CacheTypeOK'
    <3>1. PICK m \in Rewrites(caller) : /\ caller' = m
                                     /\ writer' = [writer EXCEPT ![w] = "owes"]
                                     /\ Learn(StandingOf(m, open), FALSE)
      BY <2>6 DEF Commit
    <3>2. m \in Row /\ StandingOf(m, open) \in Standings
      BY RewritesType, StandingType DEF CacheTypeOK
    <3> QED
      BY <2>6, <3>1, <3>2, LearnType DEF Commit, CacheTypeOK
  <2>7. ASSUME NEW w \in Writers, Invalidate(w) PROVE CacheTypeOK'
    BY <2>0, <2>7 DEF Invalidate, CacheTypeOK, Entry, History
  <2>8. ASSUME NEW w \in Writers, LoseInvalidation(w) PROVE CacheTypeOK'
    BY <2>8 DEF LoseInvalidation, CacheTypeOK, History
  <2>9. CASE CloseOrganization
    <3>1. "none" \in Standings /\ (entry.value # "none") \in BOOLEAN
      BY DEF Standings
    <3> QED
      BY <2>9, <3>1, LearnType DEF CloseOrganization, CacheTypeOK
  <2>10. CASE Tick
    <3>1. entry \in [value : Roles \cup {"corrupt"}, left : 1..TTL]
      BY <2>10 DEF Tick, CacheTypeOK, Entry, NoEntry
    <3>2. entry' \in Entry
      BY <2>10, <3>1, TTLAssumption DEF Tick, Entry
    <3>3. (hist.tainted /\ entry.left # 1) \in BOOLEAN
      OBVIOUS
    <3>4. hist' \in History
      BY <2>10, <3>3 DEF Tick, CacheTypeOK, History
    <3> QED
      BY <2>10, <3>2, <3>4 DEF Tick, CacheTypeOK
  <2>11. CASE Corrupt
    BY <2>11, TTLAssumption DEF Corrupt, CacheTypeOK, Entry
  <2>12. CASE UNCHANGED cacheVars
    BY <2>12 DEF cacheVars, CacheTypeOK
  <2> QED
    BY <2>1, <2>2, <2>3, <2>4, <2>5, <2>6, <2>7, <2>8, <2>9, <2>10, <2>11, <2>12
       DEF CacheNext, Resolve
<1> QED
  BY <1>1, <1>2, PTL DEF CacheSpec

\* The statement the invalidation on every write is meant to give, with every
\* way it fails named by "tainted".
THEOREM CacheCoherent == CacheSpec => []CoherentUnlessTainted
<1>1. CacheInit => CoherentUnlessTainted
  BY DEF CacheInit, NoEntry, CoherentUnlessTainted, Roles
<1>2. CacheTypeOK /\ CoherentUnlessTainted /\ [CacheNext]_cacheVars => CoherentUnlessTainted'
  <2> SUFFICES ASSUME CacheTypeOK, CoherentUnlessTainted, [CacheNext]_cacheVars
               PROVE  CoherentUnlessTainted'
    OBVIOUS
  <2> USE DEF CoherentUnlessTainted, Roles
  <2>1. ASSUME NEW r \in Readers, Get(r) \/ Read(r) \/ Finish(r)
        PROVE  CoherentUnlessTainted'
    BY <2>1 DEF Get, Read, Finish, Standing
  <2>2. ASSUME NEW r \in Readers, Purge(r)
        PROVE  CoherentUnlessTainted'
    BY <2>2 DEF Purge, NoEntry
  <2>3. ASSUME NEW r \in Readers, Set(r)
        PROVE  CoherentUnlessTainted'
    <3>1. hist'.tainted = (reader[r].role # Standing)
      BY <2>3 DEF Set, CacheTypeOK, History
    <3>2. entry'.value = reader[r].role /\ Standing' = Standing
      BY <2>3 DEF Set, Standing
    <3> QED
      BY <3>1, <3>2
  <2>4. ASSUME NEW w \in Writers, Commit(w)
        PROVE  CoherentUnlessTainted'
    BY <2>4 DEF Commit, CacheTypeOK
  <2>5. ASSUME NEW w \in Writers, Invalidate(w)
        PROVE  CoherentUnlessTainted'
    BY <2>5 DEF Invalidate, NoEntry
  <2>6. ASSUME NEW w \in Writers, LoseInvalidation(w)
        PROVE  CoherentUnlessTainted'
    <3>1. hist'.tainted = (entry.value # "none") /\ entry' = entry
      BY <2>6 DEF LoseInvalidation, CacheTypeOK, History
    <3> QED
      BY <3>1
  <2>7. CASE CloseOrganization
    <3>1. hist'.tainted = (hist.tainted \/ entry.value # "none") /\ entry' = entry
      BY <2>7 DEF CloseOrganization, Learn, CacheTypeOK, History
    <3> QED
      BY <3>1
  <2>8. CASE Tick
    <3>1. entry'.value = "none" \/ (entry'.value = entry.value /\ entry.left # 1)
      BY <2>8 DEF Tick, CacheTypeOK, Entry, NoEntry
    <3>2. hist'.tainted = (hist.tainted /\ entry.left # 1)
      BY <2>8 DEF Tick, CacheTypeOK, History
    <3>3. writer' = writer /\ Standing' = Standing
      BY <2>8 DEF Tick, Standing
    <3> QED
      BY <3>1, <3>2, <3>3
  <2>9. CASE Corrupt
    BY <2>9 DEF Corrupt
  <2>10. CASE UNCHANGED cacheVars
    BY <2>10 DEF cacheVars, Standing
  <2> QED
    BY <2>1, <2>2, <2>3, <2>4, <2>5, <2>6, <2>7, <2>8, <2>9, <2>10
       DEF CacheNext, Resolve
<1> QED
  BY <1>1, <1>2, CacheTypeCorrect, PTL DEF CacheSpec

-----------------------------------------------------------------------------
\* The role the caller has now is one the caller ever had: where a role in
\* Redis or in a request first comes from.
StandingIsHeld == Standing \in hist.held \cup {"none"}

LEMMA LearnHolds ==
    ASSUME CacheTypeOK, RolesWereHeld, NEW s \in Standings, NEW t \in BOOLEAN, Learn(s, t),
           entry' = entry, Standing' = s
    PROVE  RolesWereHeld' /\ StandingIsHeld'
<1>1. hist'.held = (hist.held \cup {s}) \cap Roles /\ hist.held \subseteq Roles
  BY DEF Learn, CacheTypeOK, History
<1>2. \A r \in Readers : reader'[r].role = reader[r].role
  BY DEF Learn, CacheTypeOK, Reader
<1>3. hist.held \subseteq hist'.held
  BY <1>1
<1>4. RolesWereHeld'
  BY <1>2, <1>3 DEF RolesWereHeld
<1>5. s \in hist'.held \cup {"none"}
  BY <1>1 DEF Standings
<1> QED BY <1>4, <1>5 DEF StandingIsHeld

\* No role is ever made up on the way through the caller, Redis and a request.
THEOREM RolesHeld == CacheSpec => []RolesWereHeld
<1>1. CacheInit => RolesWereHeld /\ StandingIsHeld
  <2> SUFFICES ASSUME CacheInit PROVE RolesWereHeld /\ StandingIsHeld
    OBVIOUS
  <2>1. Standing \in Roles \cup {"none"}
    BY DEF CacheInit, FirstRows, Standing, StandingOf, Roles
  <2> QED BY <2>1 DEF CacheInit, RolesWereHeld, StandingIsHeld, IdleReader, NoEntry
<1>2. CacheTypeOK /\ RolesWereHeld /\ StandingIsHeld /\ [CacheNext]_cacheVars =>
        RolesWereHeld' /\ StandingIsHeld'
  <2> SUFFICES ASSUME CacheTypeOK, RolesWereHeld, StandingIsHeld, [CacheNext]_cacheVars
               PROVE  RolesWereHeld' /\ StandingIsHeld'
    OBVIOUS
  <2>1. ASSUME UNCHANGED <<caller, open>>, hist'.held = hist.held
        PROVE  StandingIsHeld' /\ Standing' = Standing
    BY <2>1 DEF StandingIsHeld, Standing
  <2>2. ASSUME NEW r \in Readers, Get(r) PROVE RolesWereHeld' /\ StandingIsHeld'
    <3>1. reader'[r].role = IF entry.value \in Roles THEN entry.value ELSE "none"
      BY <2>2 DEF Get, CacheTypeOK
    <3>2. reader'[r].role = "none" \/ reader'[r].role \in hist.held
      BY <3>1 DEF RolesWereHeld, Roles
    <3>3. \A s \in Readers \ {r} : reader'[s] = reader[s]
      BY <2>2 DEF Get, CacheTypeOK
    <3>4. UNCHANGED <<caller, open, entry, hist>>
      BY <2>2 DEF Get
    <3> QED BY <2>1, <3>2, <3>3, <3>4 DEF RolesWereHeld
  <2>3. ASSUME NEW r \in Readers, Purge(r) PROVE RolesWereHeld' /\ StandingIsHeld'
    <3>1. hist'.held = hist.held
      BY <2>3 DEF Purge, CacheTypeOK, History
    <3>2. \A s \in Readers : reader'[s].role = reader[s].role
      BY <2>3 DEF Purge, CacheTypeOK, Reader
    <3> QED BY <2>1, <2>3, <3>1, <3>2 DEF Purge, NoEntry, RolesWereHeld
  <2>4. ASSUME NEW r \in Readers, Read(r) PROVE RolesWereHeld' /\ StandingIsHeld'
    <3>1. reader'[r].role \in {"none", Standing}
      BY <2>4 DEF Read, Granting, CacheTypeOK, Reader, IdleReader
    <3>2. \A s \in Readers \ {r} : reader'[s] = reader[s]
      BY <2>4 DEF Read, CacheTypeOK
    <3>3. UNCHANGED <<caller, open, entry, hist>>
      BY <2>4 DEF Read
    <3> QED BY <2>1, <3>1, <3>2, <3>3 DEF RolesWereHeld, StandingIsHeld
  <2>5. ASSUME NEW r \in Readers, Set(r) PROVE RolesWereHeld' /\ StandingIsHeld'
    <3>1. hist'.held = hist.held
      BY <2>5 DEF Set, CacheTypeOK, History
    <3>2. \A s \in Readers : reader'[s].role = reader[s].role
      BY <2>5 DEF Set, CacheTypeOK, Reader
    <3>3. entry'.value = reader[r].role /\ UNCHANGED <<caller, open>>
      BY <2>5 DEF Set
    <3> QED BY <2>1, <3>1, <3>2, <3>3 DEF RolesWereHeld
  <2>6. ASSUME NEW r \in Readers, Finish(r) PROVE RolesWereHeld' /\ StandingIsHeld'
    <3>1. \A s \in Readers : reader'[s].role \in {reader[s].role, "none"}
      BY <2>6 DEF Finish, CacheTypeOK, IdleReader
    <3>2. UNCHANGED <<caller, open, entry, hist>>
      BY <2>6 DEF Finish
    <3> QED BY <2>1, <3>1, <3>2 DEF RolesWereHeld
  <2>7. ASSUME NEW w \in Writers, Commit(w) PROVE RolesWereHeld' /\ StandingIsHeld'
    <3>1. PICK m \in Rewrites(caller) : caller' = m /\ Learn(StandingOf(m, open), FALSE)
      BY <2>7 DEF Commit
    <3>2. StandingOf(m, open) \in Standings
      BY RewritesType, StandingType DEF CacheTypeOK
    <3>3. Standing' = StandingOf(m, open) /\ entry' = entry
      BY <2>7, <3>1 DEF Commit, Standing
    <3> QED BY <3>1, <3>2, <3>3, LearnHolds
  <2>8. ASSUME NEW w \in Writers, Invalidate(w) \/ LoseInvalidation(w)
        PROVE  RolesWereHeld' /\ StandingIsHeld'
    <3>1. hist'.held = hist.held
      BY <2>8 DEF Invalidate, LoseInvalidation, CacheTypeOK, History
    <3>2. UNCHANGED <<caller, open, reader>> /\ entry' \in {entry, NoEntry}
      BY <2>8 DEF Invalidate, LoseInvalidation
    <3> QED BY <2>1, <3>1, <3>2 DEF RolesWereHeld, NoEntry
  <2>9. CASE CloseOrganization
    <3>1. Learn("none", entry.value # "none") /\ entry' = entry /\ open' = FALSE
      BY <2>9 DEF CloseOrganization
    <3>2. Standing' = "none"
      BY <3>1 DEF Standing, StandingOf
    <3>3. "none" \in Standings /\ (entry.value # "none") \in BOOLEAN
      BY DEF Standings
    <3> QED BY <3>1, <3>2, <3>3, LearnHolds
  <2>10. CASE Tick
    <3>1. hist'.held = hist.held
      BY <2>10 DEF Tick, CacheTypeOK, History
    <3>2. entry'.value \in {entry.value, "none"}
      BY <2>10 DEF Tick, CacheTypeOK, Entry, NoEntry
    <3> QED BY <2>1, <2>10, <3>1, <3>2 DEF Tick, RolesWereHeld
  <2>11. CASE Corrupt
    BY <2>1, <2>11 DEF Corrupt, RolesWereHeld
  <2>12. CASE UNCHANGED cacheVars
    BY <2>1, <2>12 DEF cacheVars, RolesWereHeld
  <2> QED
    BY <2>2, <2>3, <2>4, <2>5, <2>6, <2>7, <2>8, <2>9, <2>10, <2>11, <2>12
       DEF CacheNext, Resolve
<1> QED BY <1>1, <1>2, CacheTypeCorrect, PTL DEF CacheSpec

-----------------------------------------------------------------------------
(* What MembershipCache takes a commit to be is what the commits are.      *)

\* The part of a row that a context is made of.
Seen(u) == [role |-> row[u].role, status |-> row[u].status]

\* The rows move by what MembershipCache lets a writer do, from what it begins
\* with, and an organization that was deactivated stays so.
CommitsAreRewrites ==
    [][\A u \in Users :
         /\ ~org.exists => Seen(u)' \in FirstRows
         /\ org.exists => /\ Seen(u)' \in {Seen(u)} \cup Rewrites(Seen(u))
                          /\ org'.exists /\ (org'.active => org.active)]_vars

\* Before the organization there are no rows, and what a request is about to
\* change is there.
RowsAreThere ==
    /\ ~org.exists => \A u \in Users : row[u] = NoRow
    /\ \A r \in Requests :
         req[r].pc # "idle" /\ req[r].op \in MembershipOps \ {"invite"} =>
           row[req[r].user].status # "absent"

\* A commit changes one row in one of the ways a writer may.
LEMMA CommitRewrites ==
    ASSUME TypeOK, RowsAreThere, NEW r \in Requests, CommitMembership(r), NEW u \in Users
    PROVE  /\ Seen(u)' \in {Seen(u)} \cup Rewrites(Seen(u))
           /\ org'.exists = org.exists /\ org'.active = org.active
<1> DEFINE v == req[r].user
           n == Written(req[r], row[v])
<1>1. req[r] \in MembershipJob /\ req[r].pc # "idle"
  BY JobType DEF CommitMembership
<1>2. v \in Users /\ row[v] \in Membership /\ row[u] \in Membership /\ org \in Organization
  BY <1>1 DEF TypeOK, MembershipJob
<1>3. CASE UNCHANGED <<org, row>>
  BY <1>3 DEF Seen
<1>4. CASE /\ row' = [row EXCEPT ![v] = n]
           /\ org' = Adjusted(org, Delta(row[v], n))
           /\ req[r].op = "invite" => row[v].status = "absent"
  <2>1. org'.exists = org.exists /\ org'.active = org.active
    BY <1>2, <1>4 DEF Adjusted, Organization
  <2>2. CASE u # v
    <3>1. row'[u] = row[u]
      BY <1>4, <2>2 DEF TypeOK
    <3> QED BY <2>1, <3>1 DEF Seen
  <2>3. CASE u = v
    <3>1. row'[u] = n
      BY <1>2, <1>4, <2>3 DEF TypeOK
    <3>2. [role |-> n.role, status |-> n.status] \in {Seen(u)} \cup Rewrites(Seen(u))
      <4>1. CASE req[r].op = "invite"
        <5>1. n = [role |-> req[r].role, status |-> "pending", joined |-> FALSE]
          BY <4>1 DEF Written
        <5>2. req[r].role \in Roles /\ Seen(u).status = "absent"
          BY <1>1, <1>4, <2>3, <4>1 DEF MembershipJob, Seen
        <5> QED BY <5>1, <5>2 DEF Rewrites
      <4>2. CASE req[r].op # "invite"
        <5>1. Seen(u).status # "absent"
          BY <1>1, <2>3, <4>2 DEF RowsAreThere, MembershipJob, Seen
        <5>2. \/ n.role = row[u].role /\ n.status \in {"active", "suspended"}
              \/ n.role \in Roles /\ n.status = row[u].status
          BY <1>1, <1>2, <2>3, <4>2 DEF Written, MembershipJob, MembershipOps, Membership
        <5>3. \/ [role |-> n.role, status |-> n.status] = [Seen(u) EXCEPT !.status = n.status]
              \/ [role |-> n.role, status |-> n.status] = [Seen(u) EXCEPT !.role = n.role]
          BY <5>2 DEF Seen
        <5> HIDE DEF n
        <5>4. CASE n.role = row[u].role /\ n.status \in {"active", "suspended"}
          <6>1. [role |-> n.role, status |-> n.status] = [Seen(u) EXCEPT !.status = n.status]
            BY <5>4 DEF Seen
          <6> QED BY <5>1, <5>4, <6>1 DEF Rewrites
        <5>5. CASE n.role \in Roles /\ n.status = row[u].status
          <6>1. [role |-> n.role, status |-> n.status] = [Seen(u) EXCEPT !.role = n.role]
            BY <5>5 DEF Seen
          <6> QED BY <5>1, <5>5, <6>1 DEF Rewrites
        <5> QED BY <5>2, <5>4, <5>5
      <4> QED BY <4>1, <4>2
    <3> HIDE DEF n
    <3> QED BY <2>1, <3>1, <3>2 DEF Seen
  <2> HIDE DEF n
  <2> QED BY <2>1, <2>2, <2>3
<1> QED BY <1>3, <1>4 DEF CommitMembership, Reply

\* The step of the rows, whoever takes it.
LEMMA StepRewrites ==
    ASSUME Inv, RowsAreThere, [Next]_vars, NEW u \in Users
    PROVE  /\ ~org.exists => row'[u] = NoRow \/ Seen(u)' \in FirstRows
           /\ ~org.exists => org'.exists \/ row'[u] = NoRow
           /\ org.exists => /\ Seen(u)' \in {Seen(u)} \cup Rewrites(Seen(u))
                            /\ org'.exists /\ (org'.active => org.active)
<1>1. ASSUME NEW v \in Users, NEW kind \in Kinds, CreateOrganization(v, kind)
      PROVE  /\ ~org.exists /\ org'.exists
             /\ row'[u] = NoRow \/ Seen(u)' \in FirstRows
  <2>1. ~org.exists /\ org'.exists
    BY <1>1 DEF CreateOrganization
  <2>2. u # v => row'[u] = row[u]
    BY <1>1 DEF CreateOrganization, Inv, TypeOK
  <2>3. u = v => row'[u] = [role |-> "admin", status |-> "active", joined |-> TRUE]
    BY <1>1 DEF CreateOrganization, Inv, TypeOK
  <2>4. u = v => Seen(u)' = [role |-> "admin", status |-> "active"]
    BY <2>3 DEF Seen
  <2> QED BY <2>1, <2>2, <2>4 DEF RowsAreThere, FirstRows
<1>2. ASSUME NEW r \in Requests, CommitMembership(r)
      PROVE  /\ org.exists
             /\ Seen(u)' \in {Seen(u)} \cup Rewrites(Seen(u))
             /\ org'.exists = org.exists /\ org'.active = org.active
  <2>1. org.exists
    BY <1>2, AtWork DEF Inv, CommitMembership
  <2> QED BY <1>2, <2>1, CommitRewrites DEF Inv
<1>3. ASSUME NEW r \in Requests, CommitOrganization(r)
      PROVE  /\ org.exists /\ UNCHANGED row
             /\ org'.exists /\ (org'.active => org.active)
  <2>1. org.exists
    BY <1>3, AtWork DEF Inv, CommitOrganization
  <2> QED BY <1>3, <2>1 DEF CommitOrganization, Reply, Inv, TypeOK, Organization
<1>4. UNCHANGED row => Seen(u)' = Seen(u)
  BY DEF Seen
<1>5. CASE UNCHANGED <<org, row>>
  BY <1>4, <1>5 DEF RowsAreThere
<1> QED BY <1>1, <1>2, <1>3, <1>4, <1>5, OtherSteps DEF RowsAreThere

\* A request that begins to change a row has just read it.
LEMMA ChangesWhatItRead ==
    ASSUME TypeOK, [Next]_vars, NEW r \in Requests, req[r].pc = "idle",
           req'[r].pc # "idle", req'[r].op \in MembershipOps \ {"invite"}
    PROVE  row[req'[r].user].status # "absent"
<1>1. req'[r] # req[r] /\ \A reply : ~Reply(r, reply)
  BY DEF Reply, Idle, TypeOK
<1>2. ASSUME NEW s \in Requests \ {r}, NEW e, req' = [req EXCEPT ![s] = e]
      PROVE  FALSE
  BY <1>1, <1>2 DEF TypeOK
<1>3. ASSUME NEW op, NEW u \in Users, NEW role, NEW d, GoOn(r, op, u, role, d)
      PROVE  req'[r].user = u /\ req'[r].op = op
  BY <1>3 DEF GoOn, TypeOK
<1>4. ASSUME NEW s \in Requests, NEW u \in Users,
             \/ \E role \in Roles : Invite(s, u, role) \/ ChangeRole(s, u, role)
             \/ Accept(s, u) \/ Deactivate(s, u) \/ Reinstate(s, u)
      PROVE  row[req'[r].user].status # "absent"
  <2>1. s = r
    BY <1>2, <1>4 DEF Invite, ChangeRole, Accept, Deactivate, Reinstate, Reply, GoOn
  <2>2. ASSUME NEW role \in Roles, Invite(r, u, role) PROVE FALSE
    BY <1>1, <1>3, <2>2 DEF Invite
  <2>3. \E op, role, d : GoOn(r, op, u, role, d) /\ row[u].status # "absent"
    BY <1>1, <1>4, <2>1, <2>2 DEF ChangeRole, Accept, Deactivate, Reinstate
  <2> QED BY <1>3, <2>3
<1>5. ASSUME NEW s \in Requests, NEW max, NEW op \in OrganizationOps,
             GoOnWithOrganization(s, op, max)
      PROVE  FALSE
  <2>1. s = r
    BY <1>2, <1>5 DEF GoOnWithOrganization
  <2> QED BY <1>5, <2>1 DEF GoOnWithOrganization, TypeOK, OrganizationOps, MembershipOps
<1>6. ASSUME NEW s \in Requests, NEW reply, Reply(s, reply) PROVE FALSE
  BY <1>1, <1>2, <1>6 DEF Reply
<1>7. ASSUME NEW s \in Requests,
             \/ \E max \in 1..MaxCeiling : UpdateOrganization(s, max)
             \/ DeactivateOrganization(s)
      PROVE  FALSE
  BY <1>5, <1>6, <1>7 DEF UpdateOrganization, DeactivateOrganization, OrganizationOps
<1>8. ASSUME NEW s \in Requests,
             \/ ReadCeiling(s) \/ Guard(s) \/ Abandon(s)
             \/ CommitMembership(s) \/ CommitOrganization(s)
      PROVE  FALSE
  <2>1. s # r
    BY <1>8 DEF ReadCeiling, Guard, Abandon, CommitMembership, CommitOrganization
  <2>2. CASE ReadCeiling(s) \/ Guard(s) \/ Abandon(s)
    BY <1>2, <2>1, <2>2 DEF ReadCeiling, Guard, Abandon, Reply, TypeOK
  <2>3. CASE CommitMembership(s) \/ CommitOrganization(s)
    BY <1>2, <2>1, <2>3 DEF CommitMembership, CommitOrganization, Reply, Committed
  <2> QED BY <1>8, <2>2, <2>3
<1>9. ~UNCHANGED vars /\ \A u, kind : ~CreateOrganization(u, kind)
  BY <1>1 DEF vars, CreateOrganization
<1> QED BY <1>4, <1>7, <1>8, <1>9 DEF Next

\* Nothing deletes a row, and nobody changes one they did not find.
LEMMA RowsStayThere ==
    ASSUME Inv, Inv', RowsAreThere, [Next]_vars
    PROVE  RowsAreThere'
<1>1. ASSUME NEW u \in Users, row[u].status # "absent" PROVE row'[u].status # "absent"
  <2>1. org.exists
    BY <1>1 DEF RowsAreThere, NoRow
  <2>2. Seen(u)' \in {Seen(u)} \cup Rewrites(Seen(u)) /\ Seen(u).status # "absent"
    BY <1>1, <2>1, StepRewrites DEF Seen
  <2>3. Seen(u)'.status # "absent"
    BY <2>2 DEF Rewrites, Seen
  <2> QED BY <2>3 DEF Seen
<1>2. ~org'.exists => \A u \in Users : row'[u] = NoRow
  BY StepRewrites
<1>3. ASSUME NEW r \in Requests, req'[r].pc # "idle",
             req'[r].op \in MembershipOps \ {"invite"}
      PROVE  row'[req'[r].user].status # "absent"
  <2>1. req'[r].user \in Users
    BY <1>3 DEF Inv, TypeOK, Request, MembershipJob, OrganizationJob,
                OrganizationOps, MembershipOps
  <2>2. row[req'[r].user].status # "absent"
    <3>1. CASE req[r].pc = "idle"
      BY <1>3, <3>1, ChangesWhatItRead DEF Inv
    <3>2. CASE req[r].pc # "idle"
      <4>1. \A reply : ~Reply(r, reply)
        BY <1>3 DEF Reply, Idle, Inv, TypeOK
      <4>2. req' # [req EXCEPT ![r] = Idle("ok")]
        BY <1>3 DEF Idle, Inv, TypeOK
      <4>3. req'[r] = req[r] \/ ReadCeiling(r) \/ Guard(r)
        BY <3>2, <4>1, <4>2, OneRequest
           DEF Abandon, CommitMembership, CommitOrganization, Committed, Inv
      <4>4. req'[r].user = req[r].user /\ req'[r].op = req[r].op
        BY <4>1, <4>3, GuardGoesOn DEF Inv
      <4> QED BY <1>3, <3>2, <4>4 DEF RowsAreThere
    <3> QED BY <3>1, <3>2
  <2> QED BY <1>1, <2>1, <2>2
<1> QED BY <1>2, <1>3 DEF RowsAreThere

\* Membership, seen from one of its rows, does what MembershipCache takes the
\* writers to do: the cache is checked against all that can happen to a row.
THEOREM CommitsAreTheWrites == Spec => CommitsAreRewrites
<1>1. Init => RowsAreThere
  BY DEF Init, RowsAreThere, Idle
<1>2. Inv /\ Inv' /\ RowsAreThere /\ [Next]_vars => RowsAreThere'
  BY RowsStayThere
<1>3. Inv /\ RowsAreThere /\ [Next]_vars =>
        [\A u \in Users :
           /\ ~org.exists => Seen(u)' \in FirstRows
           /\ org.exists => /\ Seen(u)' \in {Seen(u)} \cup Rewrites(Seen(u))
                            /\ org'.exists /\ (org'.active => org.active)]_vars
  <2>1. \A u \in Users : row'[u] = NoRow => Seen(u)' \in FirstRows
    BY DEF Seen, NoRow, FirstRows
  <2> QED BY <2>1, StepRewrites
<1> QED BY <1>1, <1>2, <1>3, Invariance, PTL DEF Spec, CommitsAreRewrites
=============================================================================
