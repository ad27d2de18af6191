------------------------------ MODULE Members -------------------------------
(***************************************************************************)
(* The members of one organisation: MemberService (src/services/members/   *)
(* service.ts) over the rows of org_members (src/repositories/             *)
(* member.repository.ts).  Every statement commits by itself, so that the  *)
(* calls of several admins interleave between a check and the write it     *)
(* guards.  A request whose orgId is not the row's is refused without a    *)
(* write, and is left out.  Roles are "owner" and "other" (admin, member). *)
(***************************************************************************)
EXTENDS Naturals, FiniteSets

CONSTANTS
    Member,      \* ids of rows
    User,
    UserOf,      \* UserOf[m]: the user_id of row m
    FirstOwners, \* the rows that exist at first, active owners
    AdminCall    \* calls that can be in flight at once, each repeatedly

ASSUME RowsHaveUsers ==
    /\ IsFiniteSet(Member) /\ UserOf \in [Member -> User]
    /\ FirstOwners \subseteq Member /\ FirstOwners # {}
    /\ \A m, n \in FirstOwners : UserOf[m] = UserOf[n] => m = n

VARIABLES
    membership,   \* membership[m]: "none", "active" or "deleted"
    role,         \* role[m]
    adminCall,    \* adminCall[c]: the operation, its row and where it is
    callsOverlap  \* a demotion or deletion began while another was in flight

memberVars == <<membership, role, adminCall, callsOverlap>>

NoAdminCall == [op |-> "none", row |-> CHOOSE m \in Member : TRUE, at |-> "idle", to |-> "other"]

\* Rows and calls have their types.
MemberTypeOK ==
    /\ membership \in [Member -> {"none", "active", "deleted"}]
    /\ role \in [Member -> {"owner", "other"}]
    /\ adminCall \in [AdminCall -> [op : {"none", "invite", "update", "delete", "restore"}, row : Member,
                                    at : {"idle", "count", "conflict", "write"}, to : {"owner", "other"}]]
    /\ callsOverlap \in BOOLEAN

MemberInit ==
    /\ membership = [m \in Member |-> IF m \in FirstOwners THEN "active" ELSE "none"]
    /\ role = [m \in Member |-> IF m \in FirstOwners THEN "owner" ELSE "other"]
    /\ adminCall = [c \in AdminCall |-> NoAdminCall] /\ callsOverlap = FALSE

activeOwners == {m \in Member : membership[m] = "active" /\ role[m] = "owner"}

\* findActiveByOrgAndUser()
activeRows(u) == {m \in Member : UserOf[m] = u /\ membership[m] = "active"}

endCall(c) == adminCall' = [adminCall EXCEPT ![c] = NoAdminCall]
callAt(c, op, at) == adminCall[c].op = op /\ adminCall[c].at = at
goOn(c, at) == adminCall' = [adminCall EXCEPT ![c].at = at]

guarded == {"update", "delete"}

\* The first query of updateMemberRole() and deleteMember() finds row m active:
\* an owner that is to be demoted or deleted has the owners counted first.
findActiveById(c, m, op, to) ==
    /\ adminCall[c] = NoAdminCall /\ op \in guarded /\ membership[m] = "active"
    /\ adminCall' = [adminCall EXCEPT ![c] =
          [op |-> op, row |-> m, to |-> to,
           at |-> IF role[m] = "owner" /\ (op = "delete" \/ to # "owner") THEN "count" ELSE "write"]]
    /\ callsOverlap' = (callsOverlap \/ \E d \in AdminCall : adminCall[d].op \in guarded)
    /\ UNCHANGED <<membership, role>>

\* Mutant: the guard lets the last owner go.
lastOwnerOffByOne == Cardinality(activeOwners) <= 0

\* ownerCount <= 1
lastOwner == Cardinality(activeOwners) <= 1

countActiveOwners(c) ==
    /\ adminCall[c].op \in guarded /\ adminCall[c].at = "count"
    /\ IF lastOwner THEN endCall(c) ELSE goOn(c, "write")
    /\ UNCHANGED <<membership, role, callsOverlap>>

\* updateRole() and softDelete(), which change active rows only; that no row
\* was changed is then only reported, after another count.
updateRole(c) ==
    LET m == adminCall[c].row
    IN  /\ callAt(c, "update", "write")
        /\ role' = IF membership[m] = "active" THEN [role EXCEPT ![m] = adminCall[c].to] ELSE role
        /\ endCall(c)
        /\ UNCHANGED <<membership, callsOverlap>>

softDelete(c) ==
    LET m == adminCall[c].row
    IN  /\ callAt(c, "delete", "write")
        /\ membership' = IF membership[m] = "active" THEN [membership EXCEPT ![m] = "deleted"] ELSE membership
        /\ endCall(c)
        /\ UNCHANGED <<role, callsOverlap>>

\* inviteMember() finds no active row of the user; it will insert row m.
beginInvite(c, m, to) ==
    /\ adminCall[c] = NoAdminCall /\ membership[m] = "none" /\ activeRows(UserOf[m]) = {}
    /\ \A d \in AdminCall : callAt(d, "invite", "write") => adminCall[d].row # m
    /\ adminCall' = [adminCall EXCEPT ![c] = [op |-> "invite", row |-> m, at |-> "write", to |-> to]]
    /\ UNCHANGED <<membership, role, callsOverlap>>

\* uq_org_members_active lets row m become active.
uniqueActive(m) == activeRows(UserOf[m]) = {}

insert(c) ==
    LET m == adminCall[c].row
    IN  /\ callAt(c, "invite", "write")
        /\ IF uniqueActive(m)
           THEN /\ membership' = [membership EXCEPT ![m] = "active"]
                /\ role' = [role EXCEPT ![m] = adminCall[c].to]
           ELSE UNCHANGED <<membership, role>>
        /\ endCall(c)
        /\ UNCHANGED callsOverlap

\* restoreMember(): the row is deleted, the user has no active row, and the
\* update clears deleted_at if it is still set.
findDeletedById(c, m) ==
    /\ adminCall[c] = NoAdminCall /\ membership[m] = "deleted"
    /\ adminCall' = [adminCall EXCEPT ![c] = [op |-> "restore", row |-> m, at |-> "conflict", to |-> "other"]]
    /\ UNCHANGED <<membership, role, callsOverlap>>

findConflict(c) ==
    /\ callAt(c, "restore", "conflict")
    /\ IF activeRows(UserOf[adminCall[c].row]) # {} THEN endCall(c) ELSE goOn(c, "write")
    /\ UNCHANGED <<membership, role, callsOverlap>>

restore(c) ==
    LET m == adminCall[c].row
    IN  /\ callAt(c, "restore", "write")
        /\ membership' = IF membership[m] = "deleted" /\ uniqueActive(m)
                         THEN [membership EXCEPT ![m] = "active"] ELSE membership
        /\ endCall(c)
        /\ UNCHANGED <<role, callsOverlap>>

MemberNext ==
    \E c \in AdminCall :
        \/ countActiveOwners(c) \/ updateRole(c) \/ softDelete(c)
        \/ insert(c) \/ findConflict(c) \/ restore(c)
        \/ \E m \in Member :
              \/ findDeletedById(c, m)
              \/ \E to \in {"owner", "other"} :
                    beginInvite(c, m, to) \/ findActiveById(c, m, "update", to)
              \/ findActiveById(c, m, "delete", "other")

MemberSpec == MemberInit /\ [][MemberNext]_memberVars

(***************************************************************************)
(* "The service refuses to demote or soft-delete the last active owner of  *)
(* an organisation" (docs/org-member-soft-delete.md:126): there is always  *)
(* one, whatever invitations and restores run, unless two demotions or     *)
(* deletions have overlapped (service.ts:183 and :319 count, then write).  *)
(***************************************************************************)
OwnerRemains == ~callsOverlap => activeOwners # {}

(***************************************************************************)
(* A user has at most one active membership, also when invitations and     *)
(* restores of the same user overlap between their check and their write.  *)
(***************************************************************************)
OneActiveMembership == \A m, n \in Member :
    membership[m] = "active" /\ membership[n] = "active" /\ UserOf[m] = UserOf[n] => m = n
=============================================================================
