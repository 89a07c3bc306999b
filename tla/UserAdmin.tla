------------------------------ MODULE UserAdmin ------------------------------
(***************************************************************************)
(* Administration of accounts: creating them, replacing their roles and    *)
(* deactivating them (api/src/users and the screens that call it).         *)
(*                                                                         *)
(* An update reads the user, opens a transaction, and, when an ADMIN       *)
(* removes their own administration, locks the active ADMIN rows with      *)
(* SELECT ... FOR UPDATE.  PostgreSQL re-reads a locked row after waiting  *)
(* for it, but evaluates the sub-select on user_role with the snapshot the *)
(* statement began with: the statuses are current, the roles may be old.   *)
(* An access token carries the roles of the moment it was issued and       *)
(* outlives a deactivation: whoever signed in as an ADMIN may still act.   *)
(***************************************************************************)
EXTENDS Naturals, FiniteSets

CONSTANTS
    Accounts,         \* app_user ids
    RoleCodes,        \* rows of role
    Updates,          \* PATCH /users requests that may be under way at once
    Unset             \* a field the request leaves out

ASSUME UserAdminAssumption == "ADMIN" \in RoleCodes

VARIABLES
    users,            \* per account: status and roles (user_role.active)
    adminTokens,      \* accounts holding an access token with the ADMIN role
    updates,          \* per request: what it read and what it asks, or NoUpdate
    othersActed,      \* history: somebody else removed an administrator
    staleGuard        \* history: a guard counted a role dropped since it began

userVars == <<users, adminTokens, updates, othersActed, staleGuard>>

NoUpdate == [target |-> Unset]
Absent == [status |-> "absent", roles |-> {}]

UserInit ==
    /\ users = [u \in Accounts |-> Absent]
    /\ adminTokens = {}
    /\ updates = [k \in Updates |-> NoUpdate]
    /\ othersActed = FALSE /\ staleGuard = FALSE

Holders == {u \in Accounts : "ADMIN" \in users[u].roles}
ActiveAdmins == {u \in Holders : users[u].status = "active"}

(* POST /users: the email is taken, or the account is created active.      *)
Create(u, roleCodes) ==
    /\ users[u] = Absent
    /\ roleCodes # {}
    /\ users' = [users EXCEPT ![u] = [status |-> "active", roles |-> roleCodes]]
    /\ UNCHANGED <<adminTokens, updates, othersActed, staleGuard>>

(* The screen an administrator creates accounts from.                      *)
AdminUserCreate(u, roleCodes) == adminTokens # {} /\ Create(u, roleCodes)

(* The bootstrap CLI makes the first administrator of an empty system.     *)
bootstrapFirstAdmin(u) ==
    /\ \A v \in Accounts : users[v] = Absent
    /\ Create(u, {"ADMIN"})

AdminSignsIn(a) ==
    /\ a \in ActiveAdmins
    /\ adminTokens' = adminTokens \cup {a}
    /\ UNCHANGED <<users, updates, othersActed, staleGuard>>

(***************************************************************************)
(* PATCH /users/{id}.  Whether the last-admin guard applies, and which     *)
(* roles are to be revoked, is decided on the user as read.                *)
(***************************************************************************)
SendUpdate(k, a, u, roleCodes, active) ==
    LET revoked == IF roleCodes = {} THEN {} ELSE users[u].roles \ roleCodes IN
    /\ updates[k] = NoUpdate
    /\ users[u] # Absent
    /\ updates' = [updates EXCEPT ![k] =
          [target |-> u, roleCodes |-> roleCodes, active |-> active, revoked |-> revoked,
           guarded |-> u = a /\ (active = "no" \/ "ADMIN" \in revoked),
           seen |-> Unset]]
    /\ UNCHANGED <<users, adminTokens, othersActed, staleGuard>>

saveRoles(k, a, u, roleCodes) == roleCodes # {} /\ SendUpdate(k, a, u, roleCodes, "unset")
setActive(k, a, u, active) == SendUpdate(k, a, u, {}, active)

(* The guard's statement begins: it fixes the user_role rows it can see.   *)
GuardBegins(k) ==
    /\ updates[k] # NoUpdate /\ updates[k].guarded /\ updates[k].seen = Unset
    /\ updates' = [updates EXCEPT ![k].seen = Holders]
    /\ UNCHANGED <<users, adminTokens, othersActed, staleGuard>>

(* The check as it was before the row locks: a count taken when it began.  *)
otherActiveAdmins_Unlocked(k) == updates[k].seen \ {updates[k].target}

(* The rows it returns once it has the locks: status as it is now.         *)
otherActiveAdmins(k) ==
    {u \in updates[k].seen \ {updates[k].target} : users[u].status = "active"}

(* Roles not asked for are revoked only if they were active when read.     *)
ReplacedRoles(k) ==
    (users[updates[k].target].roles \cup updates[k].roleCodes) \ updates[k].revoked

UpdatedUser(k) ==
    [status |-> CASE updates[k].active = "unset" -> users[updates[k].target].status
                  [] updates[k].active = "yes"   -> "active"
                  [] updates[k].active = "no"    -> "deactivated",
     roles |-> ReplacedRoles(k)]

UpdateRefused(k) ==
    /\ updates[k] # NoUpdate /\ updates[k].guarded /\ updates[k].seen # Unset
    /\ otherActiveAdmins(k) = {}
    /\ updates' = [updates EXCEPT ![k] = NoUpdate]
    /\ UNCHANGED <<users, adminTokens, othersActed, staleGuard>>

Update(k) ==
    LET u == updates[k].target IN
    /\ updates[k] # NoUpdate
    /\ updates[k].guarded => updates[k].seen # Unset /\ otherActiveAdmins(k) # {}
    /\ users' = [users EXCEPT ![u] = UpdatedUser(k)]
    /\ othersActed' = (othersActed \/ (~updates[k].guarded /\ u \in ActiveAdmins
            /\ ~(UpdatedUser(k).status = "active" /\ "ADMIN" \in UpdatedUser(k).roles)))
    /\ staleGuard' = (staleGuard \/
            (updates[k].guarded /\ ~(otherActiveAdmins(k) \subseteq Holders)))
    /\ updates' = [updates EXCEPT ![k] = NoUpdate]
    /\ UNCHANGED adminTokens

UserNext ==
    \/ \E u \in Accounts :
         \/ bootstrapFirstAdmin(u)
         \/ \E rs \in SUBSET RoleCodes : AdminUserCreate(u, rs)
         \/ AdminSignsIn(u)
         \/ \E k \in Updates, a \in adminTokens :
              \/ \E rs \in SUBSET RoleCodes : saveRoles(k, a, u, rs)
              \/ \E b \in {"yes", "no"} : setActive(k, a, u, b)
    \/ \E k \in Updates : GuardBegins(k) \/ UpdateRefused(k) \/ Update(k)

UserSpec == UserInit /\ [][UserNext]_userVars

-----------------------------------------------------------------------------

UserTypeOK ==
    users \in [Accounts -> [status : {"absent", "active", "deactivated"}, roles : SUBSET RoleCodes]]

(* The system never runs out of administrators through people deactivating *)
(* themselves, however their requests overlap: once there are accounts and *)
(* nobody can administer them, somebody removed somebody else, or a guard  *)
(* counted an ADMIN role dropped since its statement began.  The second    *)
(* exception is two people dropping their own roles at once: the locks are *)
(* on account rows, which that does not change (UsersService.update).      *)
AnAdminRemains ==
    (\E u \in Accounts : users[u] # Absent) => ActiveAdmins # {} \/ othersActed \/ staleGuard
=============================================================================
