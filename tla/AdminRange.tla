----------------------------- MODULE AdminRange -----------------------------
(***************************************************************************)
(* What the platform promises about the administrators of one organization *)
(* (docs/architecture.md, section 7.7 and invariant 4), and nothing about  *)
(* how: there is no counter here, no row, no request and no transaction,   *)
(* only the set of people who administer the organization right now.       *)
(*                                                                         *)
(* Membership implements this module, with the set computed from the       *)
(* membership rows; AdminRangeTx implements it once per organization, with *)
(* the rows other transactions can see.                                    *)
(***************************************************************************)
EXTENDS Naturals, FiniteSets

CONSTANTS
    Users,      \* everybody who may hold a membership
    MaxCeiling  \* the largest value max_admins is ever given

VARIABLES
    admins,     \* the active admins of the organization
    ceiling,    \* max_admins; 0 while there is no organization
    open        \* the organization is active

vars == <<admins, ceiling, open>>

TypeOK ==
    /\ admins \in SUBSET Users
    /\ ceiling \in 0..MaxCeiling
    /\ open \in BOOLEAN

Init ==
    /\ admins = {}
    /\ ceiling = 0
    /\ open = FALSE

\* An organization comes into being with its first admin.
Found(u, c) ==
    /\ ceiling = 0
    /\ c \in 1..MaxCeiling
    /\ admins' = {u}
    /\ ceiling' = c
    /\ open' = TRUE

\* Somebody becomes an admin while the ceiling leaves room.
Admit(u) ==
    /\ ceiling > 0
    /\ u \notin admins
    /\ Cardinality(admins) < ceiling
    /\ admins' = admins \cup {u}
    /\ UNCHANGED <<ceiling, open>>

\* An admin goes; an organization that is open keeps at least one.
Drop(u) ==
    /\ u \in admins
    /\ open => Cardinality(admins) > 1
    /\ admins' = admins \ {u}
    /\ UNCHANGED <<ceiling, open>>

\* The ceiling moves, never below the admins who serve.
MoveCeiling(c) ==
    /\ ceiling > 0
    /\ c \in 1..MaxCeiling
    /\ c >= Cardinality(admins)
    /\ ceiling' = c
    /\ UNCHANGED <<admins, open>>

\* The organization is switched off, for good.
Close ==
    /\ ceiling > 0
    /\ open' = FALSE
    /\ UNCHANGED <<admins, ceiling>>

Next ==
    \/ \E u \in Users : Admit(u) \/ Drop(u)
    \/ \E u \in Users, c \in 1..MaxCeiling : Found(u, c)
    \/ \E c \in 1..MaxCeiling : MoveCeiling(c)
    \/ Close

Spec == Init /\ [][Next]_vars

-----------------------------------------------------------------------------
\* An open organization has between one and max_admins admins, and a closed
\* one never more than max_admins (architecture.md, invariant 4).
InRange ==
    /\ Cardinality(admins) <= ceiling
    /\ open => Cardinality(admins) >= 1
=============================================================================
