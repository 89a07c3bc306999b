---------------------------- MODULE MCScheduling ----------------------------
(***************************************************************************)
(* Two instances of Scheduling for TLC in one: one worker and a form with  *)
(* monthly and quarterly items, of which a re-issue withdraws the          *)
(* quarterly ones and another the rest ("frequencies"); two workers whose  *)
(* sweeps may overlap and a form with monthly items only ("overlap").      *)
(***************************************************************************)
EXTENDS Scheduling

CONSTANTS w1, Monthly    \* the worker of the first; the revision of the second

VARIABLE instance

MCRevisionItems == <<{1, 3}, {1}, {}>>
MCCascadeOverride == [r \in 1..3 |-> [f \in {1, 3} |-> {}]]

mcVars == <<schedVars, instance>>

MCSchedInit == SchedInit /\ instance \in {"frequencies", "overlap"}

(* Before anything else the form of the second instance is re-issued until *)
(* it has monthly items only.                                              *)
MCSchedNext ==
  /\ SchedNext
  /\ UNCHANGED instance
  /\ instance = "overlap" /\ current < Monthly => current' = current + 1
  /\ instance = "frequencies" => \A w \in Workers \ {w1} : sweep'[w] = Idle

MCSchedSpec == MCSchedInit /\ [][MCSchedNext]_mcVars

MCSchedFairSpec ==
  /\ MCSchedSpec
  /\ \A w \in Workers : WF_mcVars((instance = "overlap" \/ w = w1) /\ SweepStep(w) /\ UNCHANGED instance)
  /\ WF_mcVars(LockExpires /\ UNCHANGED instance)
  /\ WF_mcVars(AdhocInsert /\ UNCHANGED instance)
  /\ WF_mcVars(VoidCommit /\ UNCHANGED instance)
=============================================================================
