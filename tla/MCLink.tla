-------------------------------- MODULE MCLink --------------------------------
(***************************************************************************)
(* QualiAir with its LED task, button and reset task at rest: nothing      *)
(* reads what they would write, so the life of the link and of the         *)
(* services is explored at a fraction of the states.                       *)
(***************************************************************************)
EXTENDS QualiAir

LinkNext ==
  \/ ByMain \/ ByEventLoop \/ ByRadio \/ ByAccessPoint \/ ByPhone
  \/ ByMqttTask \/ ByPublishTask \/ PowerCycle

LinkSpec == Init /\ [][LinkNext]_vars

LinkFairSpec ==
  /\ LinkSpec
  /\ WF_vars(ByMain)
  /\ WF_vars(ByEventLoop)
  /\ WF_vars(ByPublishTask)
  /\ RadioFairness
=============================================================================
