----------------------------- MODULE AreaScopes -----------------------------
(***************************************************************************)
(* Areas, and the areas one person is restricted to.  A person without any *)
(* active scope sees every area, so taking areas away and restricting are  *)
(* the same request with different sets: the save replaces the set row by  *)
(* row in a READ COMMITTED transaction.  Administrators keep the area list *)
(* and the person's page open in several browsers (AdminAreas,             *)
(* AdminUserDetail, AreasService, UsersService.setAreaScopes).             *)
(***************************************************************************)
EXTENDS Naturals, FiniteSets

CONSTANTS
    AreaIds,
    AdminScreens,     \* browsers showing the person's page
    MaxSaves          \* bound on the saves of area access

ASSUME AreaScopesAssumption == MaxSaves \in Nat

VARIABLES
    areas,            \* area.active, or "absent"
    scopes,           \* the person's active user_area_scope rows, committed
    views,            \* what each page shows: the areas listed active, and held
    saves,            \* each page's PUT under way
    saveCount,
    restricted        \* history: the last save committed asked for some area

scopeVars == <<areas, scopes, views, saves, saveCount, restricted>>

NoSave == [step |-> "none", desired |-> {}, before |-> {}, on |-> {}, off |-> {}]
NoView == [listed |-> {}, held |-> {}, loaded |-> FALSE]

ScopeInit ==
    /\ areas = [a \in AreaIds |-> "absent"] /\ scopes = {} /\ restricted = FALSE
    /\ views = [s \in AdminScreens |-> NoView] /\ saves = [s \in AdminScreens |-> NoSave]
    /\ saveCount = 0

AreasThat(status) == {a \in AreaIds : areas[a] = status}

(* --- Areas. ---------------------------------------------------------------- *)
(* A code in use is a conflict.                                               *)
createArea(a) ==
    /\ areas[a] = "absent" /\ areas' = [areas EXCEPT ![a] = "active"]
    /\ UNCHANGED <<scopes, views, saves, saveCount, restricted>>

(* Deactivating an area leaves the scopes on it.                              *)
setAreaActive(a, active) ==
    /\ areas[a] # "absent" /\ areas[a] # active /\ areas' = [areas EXCEPT ![a] = active]
    /\ UNCHANGED <<scopes, views, saves, saveCount, restricted>>

(* --- The person's page. ----------------------------------------------------- *)
loadUser(s) ==
    /\ saves[s] = NoSave
    /\ views' = [views EXCEPT ![s] = [listed |-> AreasThat("active"), held |-> scopes, loaded |-> TRUE]]
    /\ UNCHANGED <<areas, scopes, saves, saveCount, restricted>>

(* Areas that can be ticked: the active ones and those held.                  *)
selectableAreas(s) == views[s].listed \cup views[s].held

(* Any ticking and unticking, then Save area access.                          *)
saveAreas(s, desired) ==
    /\ views[s].loaded /\ saves[s] = NoSave /\ saveCount < MaxSaves
    /\ saves' = [saves EXCEPT ![s] = [NoSave EXCEPT !.step = "sent", !.desired = desired]]
    /\ saveCount' = saveCount + 1
    /\ UNCHANGED <<areas, scopes, views, restricted>>

(* --- The transaction. -------------------------------------------------------- *)
(* Refused for an unknown or a deactivated area, done if nothing changes;     *)
(* otherwise the set as read decides what is taken away.                      *)
readScopes(s) ==
    LET asked == saves[s].desired IN
    /\ saves[s].step = "sent"
    /\ saves' = [saves EXCEPT ![s] =
          IF asked \subseteq AreasThat("active") /\ scopes # asked
          THEN [@ EXCEPT !.step = "writing", !.before = scopes]
          ELSE NoSave]
    /\ views' = [views EXCEPT ![s].held = IF scopes = asked THEN scopes ELSE @]
    /\ UNCHANGED <<areas, scopes, saveCount, restricted>>

(* A row written by a transaction is locked until that transaction ends.       *)
LockedBy(s) == saves[s].on \cup saves[s].off
RowFree(s, a) == \A t \in AdminScreens \ {s} : a \notin LockedBy(t)

(* Only the areas not held yet are written.                                    *)
ToUpsert_Missing(s) == (saves[s].desired \ saves[s].before) \ saves[s].on

(* Every area asked for is upserted, held or not, and so locked.               *)
ToUpsert(s) == saves[s].desired \ saves[s].on
ToRevoke(s) == (saves[s].before \ saves[s].desired) \ saves[s].off

upsertScope(s, a) ==
    /\ saves[s].step = "writing" /\ a \in ToUpsert(s) /\ RowFree(s, a)
    /\ saves' = [saves EXCEPT ![s].on = @ \cup {a}]
    /\ UNCHANGED <<areas, scopes, views, saveCount, restricted>>

revokeScope(s, a) ==
    /\ saves[s].step = "writing" /\ ToUpsert(s) = {} /\ a \in ToRevoke(s) /\ RowFree(s, a)
    /\ saves' = [saves EXCEPT ![s].off = @ \cup {a}]
    /\ UNCHANGED <<areas, scopes, views, saveCount, restricted>>

commitScopes(s) ==
    /\ saves[s].step = "writing" /\ ToUpsert(s) \cup ToRevoke(s) = {}
    /\ scopes' = (scopes \cup saves[s].on) \ saves[s].off
    /\ restricted' = (saves[s].desired # {})
    /\ views' = [views EXCEPT ![s].held = scopes']
    /\ saves' = [saves EXCEPT ![s] = NoSave]
    /\ UNCHANGED <<areas, saveCount>>

NextRows(s) == IF ToUpsert(s) # {} THEN ToUpsert(s) ELSE ToRevoke(s)

(* Two transactions wait for each other: the database aborts one of them.      *)
deadlockAborts(s) ==
    /\ saves[s].step = "writing"
    /\ \E t \in AdminScreens \ {s} :
          /\ saves[t].step = "writing"
          /\ NextRows(s) \cap LockedBy(t) # {} /\ NextRows(t) \cap LockedBy(s) # {}
    /\ saves' = [saves EXCEPT ![s] = NoSave]
    /\ UNCHANGED <<areas, scopes, views, saveCount, restricted>>

(* getAllowedAreaIds: no active scope means no restriction.                    *)
Unrestricted == scopes = {}

ScopeNext ==
    \/ \E a \in AreaIds : createArea(a) \/ \E x \in {"active", "retired"} : setAreaActive(a, x)
    \/ \E s \in AdminScreens :
          \/ loadUser(s) \/ readScopes(s) \/ commitScopes(s) \/ deadlockAborts(s)
          \/ \E desired \in SUBSET selectableAreas(s) : saveAreas(s, desired)
          \/ \E a \in AreaIds : upsertScope(s, a) \/ revokeScope(s, a)

ScopeSpec == ScopeInit /\ [][ScopeNext]_scopeVars

----------------------------------------------------------------------------
(* The variables stay in their types; a save holds rows only while writing.   *)
ScopeTypeOK ==
    /\ areas \in [AreaIds -> {"absent", "active", "retired"}] /\ scopes \subseteq AreaIds
    /\ views \in [AdminScreens -> [listed : SUBSET AreaIds, held : SUBSET AreaIds, loaded : BOOLEAN]]
    /\ saves \in [AdminScreens -> [step : {"none", "sent", "writing"}, desired : SUBSET AreaIds,
                                   before : SUBSET AreaIds, on : SUBSET AreaIds, off : SUBSET AreaIds]]
    /\ saveCount \in 0..MaxSaves /\ restricted \in BOOLEAN

(* Narrowing never adds up to no restriction at all: after a save that asked  *)
(* for some area the person stays restricted until a save asks for none,      *)
(* however saves of several administrators overlap                            *)
(* (UsersService.setAreaScopes, AreaScopeService.getAllowedAreaIds).          *)
UnrestrictedByChoice == restricted => ~Unrestricted

=============================================================================
