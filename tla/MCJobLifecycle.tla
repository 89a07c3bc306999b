--------------------------- MODULE MCJobLifecycle ---------------------------
(***************************************************************************)
(* A job with two stages, a technician, a team leader who is also an        *)
(* engineer (the case the distinct-person rule is about), and an engineer   *)
(* who is also an administrator.                                            *)
(***************************************************************************)
EXTENDS JobLifecycle, TLC

CONSTANTS s, a, b, f1, f2, r1, r2

MCUsers == {s, a, b}
MCRoleOf == s :> {"MAINTAINER"} @@ a :> {"TEAM_LEADER", "ENGINEER"}
            @@ b :> {"ENGINEER", "ADMIN"}
MCStageRoles == <<{"TEAM_LEADER"}, {"ENGINEER"}>>
MCOneStage == <<{"TEAM_LEADER", "ENGINEER"}>>
MCAssignable == {s}
MCFields == {f1}
MCTwoFields == {f1, f2}
MCSecondField == {f2}
MCRequests == {r1, r2}
MCSymmetry == Permutations(MCRequests)

=============================================================================
