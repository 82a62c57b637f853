----------------------------- MODULE Membership -----------------------------
(***************************************************************************)
(* Who belongs to one organization, and as what: MembershipService and     *)
(* OrganizationService over the rows of one organization.                  *)
(*                                                                         *)
(* A request runs in steps other requests interleave with.  It reads the   *)
(* rows it decides on; if the number of admins would move, it reads        *)
(* max_admins and then counts the admins (_guard_admin_range, two queries);*)
(* and it commits.  The session flushes only at the commit and writes only *)
(* the columns it changed, so the commit is one step: the write, the       *)
(* trigger and its verdict, on the rows as they are by then.  AdminRangeTx *)
(* shows what makes that one step.  Between the steps nothing is held, and *)
(* what was read may be out of date.                                       *)
(*                                                                         *)
(* A read stands for the moment the request loads the rows it decides on.  *)
(* Whether the caller was entitled to ask is MembershipCache's subject.    *)
(***************************************************************************)
EXTENDS AdminTrigger, FiniteSets

CONSTANTS
    Users,       \* the accounts; each may hold one membership
    Requests,    \* the requests in flight at the same time
    MaxCeiling,  \* the largest max_admins anybody asks for
    DefaultMax   \* max_admins of a new organization

ASSUME UsersAssumption == IsFiniteSet(Users)
ASSUME CeilingAssumption ==
    MaxCeiling \in Nat /\ DefaultMax \in Nat /\ DefaultMax \in 1..MaxCeiling

VARIABLES
    org,  \* the row of organizations
    row,  \* the rows of memberships, by user
    req,  \* what each request in flight has read and decided
    raced \* history: the requests in flight whose rows somebody else wrote

vars == <<org, row, req, raced>>

Kinds == {"personal", "team"}
MembershipOps == {"invite", "accept", "change_role", "reinstate", "deactivate"}
OrganizationOps == {"update", "close"}
Ops == MembershipOps \cup OrganizationOps
Replies == {"ok", "not_found", "conflict", "fault", "none"}

\* joined: joined_at is set.
Membership == [role : Roles, status : Statuses, joined : BOOLEAN]

NoRow == [role |-> "member", status |-> "absent", joined |-> FALSE]

Organization ==
    [exists : BOOLEAN, active : BOOLEAN, kind : Kinds,
     max : 0..MaxCeiling, count : Nat]

NoOrganization ==
    [exists |-> FALSE, active |-> FALSE, kind |-> "team", max |-> 0, count |-> 0]

\* An idle slot remembers the reply to its last request.
Idle(reply) == [pc |-> "idle", reply |-> reply]

\* role is what the body of the request asks for, delta how the request
\* expects to move the number of admins, max the max_admins its guard read.
MembershipJob ==
    [pc : {"guard", "count", "commit"}, op : MembershipOps, user : Users,
     role : Roles, delta : {-1, 0, 1}, max : 0..MaxCeiling]

OrganizationJob ==
    [pc : {"commit"}, op : OrganizationOps, max : 0..MaxCeiling]

Request == [pc : {"idle"}, reply : Replies] \cup MembershipJob \cup OrganizationJob

\* count_active_admins: the rows themselves, not the counter.
ActiveAdmins == {u \in Users : row[u].role = "admin" /\ row[u].status = "active"}

-----------------------------------------------------------------------------
Init ==
    /\ org = NoOrganization
    /\ row = [u \in Users |-> NoRow]
    /\ req = [r \in Requests |-> Idle("ok")]
    /\ raced = {}

Reply(r, reply) ==
    /\ req' = [req EXCEPT ![r] = Idle(reply)]
    /\ raced' = raced \ {r}
    /\ UNCHANGED <<org, row>>

\* The answer to a request that wrote.  The others in flight that may have
\* read what it wrote over, the organization or the row, are raced.
Committed(r) ==
    /\ req' = [req EXCEPT ![r] = Idle("ok")]
    /\ raced' = (raced \ {r}) \cup
                {s \in Requests \ {r} :
                   /\ req[s].pc # "idle"
                   /\ \/ org' # org
                      \/ /\ req[s].op \in MembershipOps
                         /\ row'[req[s].user] # row[req[s].user]}

\* The request goes on: to the guard if it moves the number of admins by d.
GoOn(r, op, u, role, d) ==
    /\ req' = [req EXCEPT ![r] =
                 [pc |-> IF d = 0 THEN "commit" ELSE "guard",
                  op |-> op, user |-> u, role |-> role, delta |-> d, max |-> 0]]
    /\ UNCHANGED <<org, row, raced>>

GoOnWithOrganization(r, op, max) ==
    /\ req' = [req EXCEPT ![r] = [pc |-> "commit", op |-> op, max |-> max]]
    /\ UNCHANGED <<org, row, raced>>

Arrives(r) == req[r].pc = "idle" /\ org.exists

\* Registration writes a personal organization, OrganizationService.create a
\* team; either way the founder's admin membership is in the transaction.
CreateOrganization(u, kind) ==
    /\ ~org.exists
    /\ org' = [exists |-> TRUE, active |-> TRUE, kind |-> kind,
               max |-> DefaultMax, count |-> 1]
    /\ row' = [row EXCEPT ![u] =
                 [role |-> "admin", status |-> "active", joined |-> TRUE]]
    /\ UNCHANGED <<req, raced>>

\* Personal organizations are not told apart.
InviteAnywhere(r, u, role) ==
    /\ Arrives(r)
    /\ \/ ~org.active /\ Reply(r, "not_found")
       \/ org.active /\ row[u].status # "absent" /\ Reply(r, "conflict")
       \/ /\ org.active /\ row[u].status = "absent"
          /\ GoOn(r, "invite", u, role, 0)

Invite(r, u, role) ==
    /\ Arrives(r)
    /\ \/ ~org.active /\ Reply(r, "not_found")
       \/ /\ org.active
          /\ org.kind = "personal" \/ row[u].status # "absent"
          /\ Reply(r, "conflict")
       \/ /\ org.active /\ org.kind = "team"
          /\ row[u].status = "absent"
          /\ GoOn(r, "invite", u, role, 0)

\* The invitee's own request; the organization is not asked if it is active.
Accept(r, u) ==
    /\ Arrives(r)
    /\ \/ row[u].status = "absent" /\ Reply(r, "not_found")
       \/ row[u].status \in {"active", "suspended"} /\ Reply(r, "conflict")
       \/ /\ row[u].status = "pending"
          /\ GoOn(r, "accept", u, "member",
                  IF row[u].role = "admin" THEN 1 ELSE 0)

ChangeRole(r, u, role) ==
    /\ Arrives(r)
    /\ \/ row[u].status = "absent" /\ Reply(r, "not_found")
       \/ row[u].status # "absent" /\ row[u].role = role /\ Reply(r, "ok")
       \/ /\ row[u].status # "absent" /\ row[u].role # role
          /\ GoOn(r, "change_role", u, role,
                  IF row[u].status # "active" THEN 0
                  ELSE IF role = "admin" THEN 1 ELSE -1)

\* suspend, remove and leave share _deactivate.
Deactivate(r, u) ==
    /\ Arrives(r)
    /\ \/ row[u].status = "absent" /\ Reply(r, "not_found")
       \/ row[u].status = "suspended" /\ Reply(r, "conflict")
       \/ /\ row[u].status \in {"pending", "active"}
          /\ GoOn(r, "deactivate", u, "member",
                  IF u \in ActiveAdmins THEN -1 ELSE 0)

Reinstate(r, u) ==
    /\ Arrives(r)
    /\ \/ row[u].status = "absent" /\ Reply(r, "not_found")
       \/ row[u].status \in {"pending", "active"} /\ Reply(r, "conflict")
       \/ /\ row[u].status = "suspended"
          /\ GoOn(r, "reinstate", u, "member",
                  IF row[u].role = "admin" THEN 1 ELSE 0)

UpdateOrganization(r, max) ==
    /\ Arrives(r)
    /\ \/ ~org.active /\ Reply(r, "not_found")
       \/ org.active /\ max < org.count /\ Reply(r, "conflict")
       \/ org.active /\ max >= org.count /\ max = org.max /\ Reply(r, "ok")
       \/ /\ org.active /\ max >= org.count /\ max # org.max
          /\ GoOnWithOrganization(r, "update", max)

DeactivateOrganization(r) ==
    /\ Arrives(r)
    /\ \/ ~org.active /\ Reply(r, "not_found")
       \/ org.active /\ GoOnWithOrganization(r, "close", 0)

-----------------------------------------------------------------------------
\* A guard without its ceiling half.
GuardHoldsFloorOnly(q) == Cardinality(ActiveAdmins) + q.delta >= 1

\* _guard_admin_range counts the rows, not the counter, and holds the number
\* against the max_admins it read before.
GuardHolds(q) == Cardinality(ActiveAdmins) + q.delta \in 1..q.max

ReadCeiling(r) ==
    /\ req[r].pc = "guard"
    /\ req' = [req EXCEPT ![r].pc = "count", ![r].max = org.max]
    /\ UNCHANGED <<org, row, raced>>

Guard(r) ==
    /\ req[r].pc = "count"
    /\ \/ ~GuardHolds(req[r]) /\ Reply(r, "conflict")
       \/ /\ GuardHolds(req[r])
          /\ req' = [req EXCEPT ![r].pc = "commit", ![r].delta = 0, ![r].max = 0]
          /\ UNCHANGED <<org, row, raced>>

\* Reinstating leaves joined_at as it is.
WrittenUnjoined(q, m) ==
    CASE q.op = "invite" ->
           [role |-> q.role, status |-> "pending", joined |-> FALSE]
      [] q.op \in {"accept", "reinstate"} ->
           [m EXCEPT !.status = "active", !.joined = @ \/ q.op = "accept"]
      [] q.op = "change_role" -> [m EXCEPT !.role = q.role]
      [] q.op = "deactivate" -> [m EXCEPT !.status = "suspended"]

\* The row a membership request writes over the row m it finds: an insert
\* or, of a row that exists, the columns the request changed.
Written(q, m) ==
    CASE q.op = "invite" ->
           [role |-> q.role, status |-> "pending", joined |-> FALSE]
      [] q.op \in {"accept", "reinstate"} ->
           [m EXCEPT !.status = "active", !.joined = TRUE]
      [] q.op = "change_role" -> [m EXCEPT !.role = q.role]
      [] q.op = "deactivate" -> [m EXCEPT !.status = "suspended"]

\* Commit and translate: the trigger's verdict comes back as a 409, and a
\* violation of the unique (user, organization) pair as it is, a 500.
CommitMembership(r) ==
    LET q == req[r]
        n == Written(q, row[q.user])
        d == Delta(row[q.user], n)
    IN  /\ q.pc = "commit" /\ q.op \in MembershipOps
        /\ \/ /\ q.op = "invite" /\ row[q.user].status # "absent"
              /\ Reply(r, "fault")
           \/ /\ q.op = "invite" => row[q.user].status = "absent"
              /\ Verdict(org, d) # "ok"
              /\ Reply(r, Translate(Verdict(org, d)))
           \/ /\ q.op = "invite" => row[q.user].status = "absent"
              /\ Verdict(org, d) = "ok"
              /\ row' = [row EXCEPT ![q.user] = n]
              /\ org' = Adjusted(org, d)
              /\ Committed(r)

\* The organization's own writes; a CHECK that fails is re-raised, a 500.
CommitOrganization(r) ==
    LET q == req[r]
        moved == [org EXCEPT !.max = q.max]
    IN  /\ q.pc = "commit" /\ q.op \in OrganizationOps
        /\ \/ /\ q.op = "update" /\ ~RangeCheck(moved)
              /\ Reply(r, "fault")
           \/ /\ q.op = "update" /\ RangeCheck(moved)
              /\ org' = moved
              /\ UNCHANGED row
              /\ Committed(r)
           \/ /\ q.op = "close"
              /\ org' = [org EXCEPT !.active = FALSE]
              /\ UNCHANGED row
              /\ Committed(r)

\* The server dies or the client goes away: the session rolls back.
Abandon(r) ==
    /\ req[r].pc # "idle"
    /\ Reply(r, "none")

Next ==
    \/ \E u \in Users, kind \in Kinds : CreateOrganization(u, kind)
    \/ \E r \in Requests :
         \/ \E u \in Users :
              \/ \E role \in Roles : Invite(r, u, role) \/ ChangeRole(r, u, role)
              \/ Accept(r, u) \/ Deactivate(r, u) \/ Reinstate(r, u)
         \/ \E max \in 1..MaxCeiling : UpdateOrganization(r, max)
         \/ DeactivateOrganization(r)
         \/ ReadCeiling(r) \/ Guard(r)
         \/ CommitMembership(r) \/ CommitOrganization(r)
         \/ Abandon(r)

Spec == Init /\ [][Next]_vars

-----------------------------------------------------------------------------
TypeOK ==
    /\ org \in Organization
    /\ row \in [Users -> Membership]
    /\ req \in [Requests -> Request]
    /\ raced \in SUBSET Requests

\* The counter the trigger keeps is the number of active admins, after
\* every commit of requests that decided on rows they read earlier.
CounterExact == org.count = Cardinality(ActiveAdmins)

\* An organization never has more active admins than max_admins, and while
\* it is active never fewer than one (architecture.md, invariant 4): whatever
\* the guards of concurrent requests counted.
RangeHolds ==
    org.exists =>
      /\ Cardinality(ActiveAdmins) <= org.max
      /\ org.active => Cardinality(ActiveAdmins) >= 1

\* A personal organization has its founder and nobody else (section 7.3).
PersonalStaysSolo ==
    org.kind = "personal" => \A u, v \in Users :
      row[u].status # "absent" /\ row[v].status # "absent" => u = v

\* Whoever is active has a joined_at, by whichever way they became active:
\* founding, accepting, or being reinstated before ever having accepted.
ActiveMeansJoined == \A u \in Users : row[u].status = "active" => row[u].joined

\* The database's verdict on the range reaches the caller of a membership
\* operation as a 409: a 500 is only ever the unique pair of two invitations.
RangeVerdictIsConflict ==
    [][\A r \in Requests :
         /\ req[r].pc = "commit" /\ req[r].op \in MembershipOps \ {"invite"}
         /\ req'[r].pc = "idle"
         => req'[r].reply # "fault"]_vars

\* How a request would move the number of admins at this instant.
Move(q) == Delta(row[q.user], Written(q, row[q.user]))

\* Request r ends in this step with an answer of the given ones.
Ends(r, pc, replies) ==
    req[r].pc = pc /\ req'[r].pc = "idle" /\ req'[r].reply \in replies

\* The checks a request makes beforehand, on rows read one query after the
\* other, are as good as the database's, and staleness is all that can come
\* between the two (the comment of _guard_admin_range).  Unless somebody
\* wrote the organization or the row after the request began, the database
\* refuses it nothing at the commit, neither the range nor the unique pair;
\* and, in an active organization, its guard refuses nothing the database
\* would have let pass.
OnlyRacesAreRefused ==
    [][\A r \in Requests \ raced :
         /\ ~Ends(r, "commit", {"conflict", "fault"})
         /\ Ends(r, "count", {"conflict"}) /\ org.active =>
              Verdict(org, Move(req[r])) # "ok"]_vars

\* The commits refine what the platform promises about admins.
Promise == INSTANCE AdminRange
           WITH admins <- ActiveAdmins, ceiling <- org.max, open <- org.active

ImplementsAdminRange == Promise!Spec
=============================================================================
