--------------------------------- MODULE Nvs ---------------------------------
(***************************************************************************)
(* The non-volatile storage as the firmware uses it (an ESP-IDF service,   *)
(* not part of this repository): the Wi-Fi credentials it keeps across     *)
(* restarts.  "good" credentials open the access point, "bad" ones (a      *)
(* wrong password, an unknown network) never do.                           *)
(***************************************************************************)

VARIABLES
  creds,  (* the credentials in flash                                      *)
  nvs     (* "open" between nvs_flash_init and nvs_flash_erase             *)

nvsVars == <<creds, nvs>>

Credentials == {"none", "good", "bad"}

NvsTypeOK ==
  /\ creds \in Credentials
  /\ nvs \in {"closed", "open"}

(* nvs_flash_init, and the erase-and-retry of a full or outdated partition. *)
nvs_flash_init ==
  /\ nvs' = "open"
  /\ creds' \in {creds, "none"}

(* nvs_flash_erase also closes the storage: later writes fail. *)
nvs_flash_erase ==
  /\ nvs' = "closed"
  /\ creds' = "none"

(* A write of the Wi-Fi configuration reaches the flash of an open storage. *)
nvs_store(c) ==
  /\ creds' = IF nvs = "open" THEN c ELSE creds
  /\ UNCHANGED nvs
=============================================================================
