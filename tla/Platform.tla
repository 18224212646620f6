------------------------------- MODULE Platform -------------------------------
(***************************************************************************)
(* What the firmware gets from ESP-IDF, as far as src/ uses it: the queue  *)
(* of the default event loop, the Wi-Fi driver and its access point, the   *)
(* BLE provisioning manager with the phone at its other end, and the       *)
(* clock that SNTP sets.  None of it is code of this repository: each      *)
(* definition is the weakest service the calls in src/ rely on.            *)
(*                                                                         *)
(* Events that event_handler only logs (STA_START, STA_CONNECTED, PROV_INIT,*)
(* CRED_SUCCESS, PROV_DEINIT) are never queued here.                       *)
(***************************************************************************)
EXTENDS Naturals, Sequences, Nvs

CONSTANT MaxOutages   (* how often the access point may go away            *)

ASSUME PlatformAssumption == MaxOutages \in Nat

VARIABLES
  evq,       (* the events posted to the default loop, oldest first        *)
  wifi,      (* the station interface                                      *)
  sta_cfg,   (* the credentials the driver works with                      *)
  ap,        (* is the access point reachable                              *)
  outages,   (* how often it went away                                     *)
  prov,      (* the provisioning manager                                   *)
  endpoint,  (* its device_info endpoint                                   *)
  app_told,  (* has device_info answered with an IP address                *)
  early_ok,  (* has the phone said OK before it was told one               *)
  device_ip, (* is the static device_ip filled in (wifi_manager.c)         *)
  synced,    (* has the wall clock been set                                *)
  sntp_on    (* does the SNTP client run                                   *)

radioVars == <<wifi, sta_cfg>>
apVars    == <<ap, outages>>
phoneVars == <<app_told, early_ok>>
provVars  == <<prov, endpoint, phoneVars>>
clockVars == <<synced, sntp_on>>
platformVars == <<evq, radioVars, apVars, provVars, device_ip, clockVars>>

Events == {"PROV_START", "PROV_CRED_RECV", "PROV_CRED_FAIL", "PROV_END",
           "STA_DISCONNECTED", "STA_GOT_IP"}

LinkStates == {"off", "idle", "connecting", "associated", "up"}

ProvStates == {"absent", "started", "cred_recv", "success", "fail",
               "stopping", "ended"}

PlatformTypeOK ==
  /\ evq \in Seq(Events)
  /\ wifi \in LinkStates
  /\ sta_cfg \in Credentials
  /\ ap \in BOOLEAN
  /\ outages \in 0..MaxOutages
  /\ prov \in ProvStates
  /\ endpoint \in {"absent", "created", "registered"}
  /\ app_told \in BOOLEAN
  /\ early_ok \in BOOLEAN
  /\ device_ip \in BOOLEAN
  /\ synced \in BOOLEAN
  /\ sntp_on \in BOOLEAN

(* The volatile part of the state, as every boot finds it. *)
PlatformBoot ==
  /\ evq = <<>>
  /\ wifi = "off"
  /\ sta_cfg = "none"
  /\ prov = "absent"
  /\ endpoint = "absent"
  /\ app_told = FALSE
  /\ early_ok = FALSE
  /\ device_ip = FALSE
  /\ sntp_on = FALSE

PlatformReboots ==
  /\ evq' = <<>>
  /\ wifi' = "off"
  /\ sta_cfg' = "none"
  /\ prov' = "absent"
  /\ endpoint' = "absent"
  /\ app_told' = FALSE
  /\ early_ok' = FALSE
  /\ device_ip' = FALSE
  /\ sntp_on' = FALSE

-----------------------------------------------------------------------------
(* The Wi-Fi driver. *)

(* esp_wifi_connect starts an attempt unless one runs or has succeeded. *)
AfterConnect(w) == IF w = "idle" THEN "connecting" ELSE w

esp_wifi_connect == wifi' = AfterConnect(wifi)

WifiAssociates ==
  /\ wifi = "connecting"
  /\ ap /\ sta_cfg = "good"
  /\ wifi' = "associated"
  /\ UNCHANGED <<evq, sta_cfg, apVars, provVars, device_ip, clockVars, nvsVars>>

DhcpLease ==
  /\ wifi = "associated"
  /\ ap
  /\ wifi' = "up"
  /\ evq' = Append(evq, "STA_GOT_IP")
  /\ UNCHANGED <<sta_cfg, apVars, provVars, device_ip, clockVars, nvsVars>>

(* A failed attempt and a lost link are reported by the same event. *)
WifiDrops ==
  /\ \/ wifi = "connecting" /\ (~ap \/ sta_cfg # "good")
     \/ wifi \in {"associated", "up"} /\ ~ap
  /\ wifi' = "idle"
  /\ evq' = Append(evq, "STA_DISCONNECTED")
  /\ UNCHANGED <<sta_cfg, apVars, provVars, device_ip, clockVars, nvsVars>>

ApGoes ==
  /\ ap /\ outages < MaxOutages
  /\ ap' = FALSE
  /\ outages' = outages + 1
  /\ UNCHANGED <<evq, radioVars, provVars, device_ip, clockVars, nvsVars>>

ApReturns ==
  /\ ~ap
  /\ ap' = TRUE
  /\ UNCHANGED <<evq, radioVars, outages, provVars, device_ip, clockVars, nvsVars>>

(* SNTP sets the clock when it reaches a server. *)
SntpSync ==
  /\ sntp_on /\ ~synced /\ wifi = "up"
  /\ synced' = TRUE
  /\ UNCHANGED <<evq, radioVars, apVars, provVars, device_ip, sntp_on, nvsVars>>

-----------------------------------------------------------------------------
(* The provisioning manager and the phone. *)

ProvRunning == prov \in {"started", "cred_recv", "success", "fail"}

(* The manager stores and applies the credentials, starts an attempt and   *)
(* posts CRED_RECV.  It takes them once: nothing in src/ resets its state. *)
PhoneSendsCredentials(c) ==
  /\ prov = "started"
  /\ prov' = "cred_recv"
  /\ nvs_store(c)
  /\ sta_cfg' = c
  /\ esp_wifi_connect
  /\ evq' = Append(evq, "PROV_CRED_RECV")
  /\ UNCHANGED <<apVars, endpoint, phoneVars, device_ip, clockVars>>

(* What the manager itself does on a Wi-Fi event while it waits for the    *)
(* outcome: the events it posts, and its own new state.                    *)
ProvPosts(e) ==
  IF prov = "cred_recv" /\ e = "STA_DISCONNECTED" THEN <<"PROV_CRED_FAIL">> ELSE <<>>

ProvAfter(e) ==
  IF prov # "cred_recv" THEN prov
  ELSE CASE e = "STA_DISCONNECTED" -> "fail"
         [] e = "STA_GOT_IP" -> "success"
         [] OTHER -> prov

(* The delayed clean-up of wifi_prov_mgr_stop_provisioning. *)
ProvEnds ==
  /\ prov = "stopping"
  /\ prov' = "ended"
  /\ evq' = Append(evq, "PROV_END")
  /\ UNCHANGED <<radioVars, apVars, endpoint, phoneVars, device_ip, clockVars, nvsVars>>

Radio == WifiAssociates \/ DhcpLease \/ WifiDrops \/ SntpSync \/ ProvEnds
=============================================================================
