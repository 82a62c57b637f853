-------------------------------- MODULE Rbac --------------------------------
(***************************************************************************)
(* Who may do what: the permission catalogue, the role matrix, the         *)
(* permissions the organization-scoped routes declare and the two guards   *)
(* between a request and its handler.                                      *)
(***************************************************************************)

Permissions ==
    {"org:read", "org:update", "org:delete",
     "member:invite", "member:read", "member:update_role", "member:remove",
     "document:create", "document:read", "document:update", "document:delete",
     "document:reprocess",
     "conversation:create", "conversation:read", "conversation:delete",
     "search:execute",
     "evaluation:create", "evaluation:read", "evaluation:run",
     "apikey:create", "apikey:read", "apikey:revoke", "audit:read"}

MemberPermissions ==
    {"org:read", "member:read",
     "document:create", "document:read", "document:update", "document:reprocess",
     "conversation:create", "conversation:read", "conversation:delete",
     "search:execute", "evaluation:read"}

RolePermissions == [admin |-> Permissions, member |-> MemberPermissions]

\* A role the matrix does not know holds nothing.
PermissionsFor(role) ==
    IF role \in DOMAIN RolePermissions THEN RolePermissions[role] ELSE {}

\* What the routes of documents.py declare, by the operation they call.
Declares ==
    [upload   |-> {"document:create"}, add_version      |-> {"document:update"},
     list     |-> {"document:read"},   read             |-> {"document:read"},
     versions |-> {"document:read"},   rename           |-> {"document:update"},
     delete   |-> {"document:delete"}, download         |-> {"document:read"},
                                       download_version |-> {"document:read"}]

Endpoints == DOMAIN Declares

\* scan_permission_declarations: the endpoints whose dependencies carry a
\* marker.
DeclaredEndpoints == {e \in Endpoints : Declares[e] # {}}

\* enforce_declared_permission, on every organization-scoped router.
Unlocked(e) == e \in DeclaredEndpoints

\* require: all of the permissions, never any of them.
Required(e, role) == Declares[e] \subseteq PermissionsFor(role)

\* The roles with which a request gets to the handler.  Without an active
\* membership there is no role, and the answer is that of an organization that
\* does not exist.
Roles(e) == {role \in DOMAIN RolePermissions : Unlocked(e) /\ Required(e, role)}
=============================================================================
