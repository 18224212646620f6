-------------------------------- MODULE MCReset --------------------------------
(***************************************************************************)
(* QualiAir with a broker that never answers and its LED task at rest: the *)
(* button, the restarts and the provisioning that follows them.            *)
(***************************************************************************)
EXTENDS QualiAir

ResetNext ==
  \/ ByMain \/ ByEventLoop \/ ByRadio \/ ByAccessPoint \/ ByPhone
  \/ ByResetTask \/ ByUser \/ Restart \/ PowerCycle

ResetSpec == Init /\ [][ResetNext]_vars

ResetFairSpec ==
  /\ ResetSpec
  /\ WF_vars(ByMain)
  /\ WF_vars(ByEventLoop)
  /\ WF_vars(ByResetTask)
  /\ WF_vars(Restart)
  /\ RadioFairness
=============================================================================
