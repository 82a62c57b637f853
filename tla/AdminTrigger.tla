---------------------------- MODULE AdminTrigger ----------------------------
(***************************************************************************)
(* The part of the database that keeps organizations.active_admin_count:   *)
(* the trigger on memberships and the two CHECK constraints of             *)
(* organizations, as operators on a membership row and an organization     *)
(* row.  A row that does not exist has the status "absent".                *)
(***************************************************************************)
EXTENDS Integers

Roles == {"admin", "member"}
Statuses == {"absent", "pending", "active", "suspended"}

\* Only the role decides: what a trigger that forgot the status would count.
CountedByRole(m) == m.role = "admin" /\ m.status # "absent"

\* The conjunction the trigger tests: neither column decides on its own.
Counted(m) == m.role = "admin" /\ m.status = "active"

\* By how much a write that turns row m into row n moves the counter.
Delta(m, n) ==
    (IF Counted(n) THEN 1 ELSE 0) - (IF Counted(m) THEN 1 ELSE 0)

\* The ceiling off by one.
RangeCheckLoose(org) == org.count >= 0 /\ org.count <= org.max + 1

\* ck_organizations_active_admin_count_range and ck_organizations_max_admins_min.
RangeCheck(org) ==
    /\ org.count >= 0
    /\ org.count <= org.max
    /\ org.max >= 1

\* The floor the trigger adds, for organizations that are still active.  That it
\* says nothing of an organization that is being deleted does not come up: no
\* code deletes one.
FloorCheck(org) == org.active => org.count # 0

\* The organization row after organizations_adjust_admin_count.
Adjusted(org, d) == [org EXCEPT !.count = @ + d]

\* Nobody is left, but no exception: a trigger without its floor.
VerdictWithoutFloor(org, d) ==
    IF d # 0 /\ ~RangeCheck(Adjusted(org, d)) THEN "ceiling" ELSE "ok"

\* The verdict on a write to a membership row.  A write that moves nothing
\* never touches the organization, so neither check runs.
Verdict(org, d) ==
    IF d = 0 THEN "ok"
    ELSE IF ~RangeCheck(Adjusted(org, d)) THEN "ceiling"
    ELSE IF ~FloorCheck(Adjusted(org, d)) THEN "floor"
    ELSE "ok"

\* Only the marker of the ceiling is recognized.
TranslateCeilingOnly(verdict) ==
    IF verdict = "ceiling" THEN "conflict" ELSE "fault"

\* The verdict goes out as it came.
TranslateNothing(verdict) == verdict

\* MembershipService._translate: either half of the range is the same 409.
Translate(verdict) ==
    IF verdict \in {"ceiling", "floor"} THEN "conflict" ELSE "fault"
=============================================================================
