---- MODULE MCGatewaySettlement ----
(***************************************************************************)
(* Instances of GatewaySettlement for TLC.  From one plan to the next only *)
(* the policy changes, a Workspace is added or removed, or the Gateway     *)
(* configuration changes.                                                  *)
(***************************************************************************)
EXTENDS GatewaySettlement

BasePlan   == [pol |-> 1, prin |-> {}, cfg |-> 1]
PolicyPlan == [pol |-> 2, prin |-> {}, cfg |-> 1]
EntryPlan  == [pol |-> 1, prin |-> {"w"}, cfg |-> 1]
ConfigPlan == [pol |-> 2, prin |-> {"w"}, cfg |-> 2]

AllPlans    == {BasePlan, PolicyPlan, EntryPlan, ConfigPlan}

IDs == 1..7

AllDrifts == {"stop", "stopPrepared", "start", "lose", "upgrade"}
====
