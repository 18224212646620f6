-------------------------------- MODULE BringUp --------------------------------
(***************************************************************************)
(* What the firmware promises about bringing its services up after a boot: *)
(* first the ones that need an address (mDNS, SNTP), then the MQTT client, *)
(* then the sensors, and only then readings to publish.  A service that is *)
(* up stays up: the only way back is a restart, which takes them all down. *)
(***************************************************************************)
EXTENDS Naturals

VARIABLE stage   (* how many of Stages have been reached *)

Stages == <<"network services", "mqtt client", "sensors", "readings">>

Init == stage = 0

Advance == stage < 4 /\ stage' = stage + 1

Restart == stage' = 0

Next == Advance \/ Restart

Spec == Init /\ [][Next]_stage
=============================================================================
