---------------------------- MODULE MCMembership ----------------------------
(* Membership on small sets, with the symmetry of users and of requests,   *)
(* and three statements of the repository that its commits do not keep.    *)
EXTENDS Membership, TLC

Symmetry == Permutations(Users) \cup Permutations(Requests)

Commits(r, ops) ==
    req[r].pc = "commit" /\ req[r].op \in ops /\ req'[r].pc = "idle"

\* A suspended membership "grants nothing until reinstated" (members.py:103):
\* the only commit that makes it active again is a reinstatement.
OnlyReinstateReturns ==
    [][\A u \in Users :
         row[u].status = "suspended" /\ row'[u].status = "active" =>
           \E r \in Requests : Commits(r, {"reinstate"}) /\ req[r].user = u]_vars

\* Becoming a member takes the invitee's consent: "an invitation nobody has
\* to accept is just an assignment" (membership_service.py:187).  Nobody who
\* never joined becomes active but by accepting.
OnlyAcceptJoins ==
    [][\A u \in Users :
         /\ row[u].status \in {"pending", "suspended"} /\ ~row[u].joined
         /\ row'[u].status = "active"
         => \E r \in Requests : Commits(r, {"accept"}) /\ req[r].user = u]_vars

\* A ceiling below the admins who serve is a 409, never the 500 of the CHECK
\* (schemas/organizations.py:47, organization_service.py:132).
CeilingMoveIsNeverFault ==
    [][\A r \in Requests :
         Commits(r, {"update"}) => req'[r].reply # "fault"]_vars
=============================================================================
