----------------------------- MODULE StateMachine -----------------------------
(***************************************************************************)
(* state_machine.c with the two tasks that drive it: app_main's start-up   *)
(* sequence and event_handler of wifi_manager.c, which runs in the task of *)
(* the default event loop and calls sm_transition for every change of      *)
(* state.  The transition to STATE_ONLINE sleeps inside the handler, so it *)
(* is cut at its vTaskDelay: while ev_pc is not "idle" no event is taken   *)
(* from the queue.                                                         *)
(***************************************************************************)
EXTENDS Platform, MqttManager

CONSTANT SyncRetries   (* attempts of STATE_ONLINE's wait for the clock *)

ASSUME SyncRetriesAssumption == SyncRetries \in Nat \ {0}

VARIABLES
  main_pc,       (* the next step of app_main                              *)
  current_state,
  ev_pc,         (* where the event loop's task waits inside a handler     *)
  sync_retry,    (* the attempts of this wait                              *)
  inited,        (* the *_initialized flags that are set                   *)
  starts,        (* how often each of them was brought up since boot       *)
  bt             (* is the Bluetooth controller's memory still there       *)

smVars == <<main_pc, current_state, ev_pc, sync_retry, inited, starts, bt>>

Services == {"mdns", "sntp", "mqtt", "sensors"}

DeviceStates == {"STATE_UNPROVISIONED", "STATE_PROVISIONING", "STATE_CONNECTING",
                 "STATE_ONLINE", "STATE_ERROR"}

SmTypeOK ==
  /\ main_pc \in {"create", "nvs", "led", "wifi", "sm", "register", "done"}
  /\ current_state \in DeviceStates
  /\ ev_pc \in {"idle", "mdns", "sync", "mqtt", "sensors"}
  /\ sync_retry \in 0..SyncRetries
  /\ inited \in SUBSET Services
  /\ starts \in [Services -> Nat]
  /\ bt \in {"held", "released"}

SmBoot ==
  /\ main_pc = "create"
  /\ current_state = "STATE_UNPROVISIONED"
  /\ ev_pc = "idle"
  /\ sync_retry = 0
  /\ inited = {}
  /\ starts = [s \in Services |-> 0]
  /\ bt = "held"

SmReboots ==
  /\ main_pc' = "create"
  /\ current_state' = "STATE_UNPROVISIONED"
  /\ ev_pc' = "idle"
  /\ sync_retry' = 0
  /\ inited' = {}
  /\ starts' = [s \in Services |-> 0]
  /\ bt' = "held"

(* Mutant: the flags are not looked at. *)
InitAlways(S) ==
  /\ inited' = inited \cup S
  /\ starts' = [s \in Services |-> IF s \in S THEN starts[s] + 1 ELSE starts[s]]

(* Bring up the services of S whose flag is still clear. *)
InitOnce(S) ==
  /\ inited' = inited \cup S
  /\ starts' = [s \in Services |-> IF s \in S \ inited THEN starts[s] + 1 ELSE starts[s]]

-----------------------------------------------------------------------------
(* app_main after the reset task exists. *)

MainOpensNvs ==
  /\ main_pc = "nvs"
  /\ nvs_flash_init
  /\ main_pc' = "led"
  /\ UNCHANGED <<current_state, ev_pc, sync_retry, inited, starts, bt,
                 ledVars, mqttVars, platformVars>>

MainInitsLed ==
  /\ main_pc = "led"
  /\ led_manager_init
  /\ main_pc' = "wifi"
  /\ UNCHANGED <<current_state, ev_pc, sync_retry, inited, starts, bt,
                 mqttVars, platformVars, nvsVars>>

(* wifi_manager_init: the driver starts with the stored configuration, and  *)
(* does not start at all when the storage has been closed under it.         *)
MainStartsWifi ==
  /\ main_pc = "wifi"
  /\ wifi' = IF nvs = "open" THEN "idle" ELSE "off"
  /\ sta_cfg' = creds
  /\ main_pc' = "sm"
  /\ UNCHANGED <<current_state, ev_pc, sync_retry, inited, starts, bt, evq, apVars,
                 provVars, device_ip, clockVars, ledVars, mqttVars, nvsVars>>

(* sm_init, then sm_start with credentials: wifi_prov_mgr_deinit, whose     *)
(* FREE_BTDM handler releases Bluetooth's memory, and STATE_CONNECTING.     *)
MainConnects ==
  /\ main_pc = "sm"
  /\ wifi # "off" /\ sta_cfg # "none"
  /\ bt' = "released"
  /\ current_state' = "STATE_CONNECTING"
  /\ esp_wifi_connect
  /\ led_manager_set_state("LED_MODE_WIFI_CONNECTING")
  /\ main_pc' = "done"
  /\ UNCHANGED <<ev_pc, sync_retry, inited, starts, evq, sta_cfg, apVars,
                 provVars, device_ip, clockVars, mqttVars, nvsVars>>

(* Mutant: sm_start gives the manager back before it looks at provisioned.  *)
MainProvisionsDeinited ==
  /\ main_pc = "sm"
  /\ wifi = "off" \/ sta_cfg = "none"
  /\ bt' = "released"
  /\ current_state' = "STATE_UNPROVISIONED"
  /\ endpoint' = "created"
  /\ \/ wifi # "off" /\ prov' = "started" /\ evq' = Append(evq, "PROV_START")
     \/ wifi = "off" /\ UNCHANGED <<prov, evq>>
  /\ main_pc' = "register"
  /\ UNCHANGED <<ev_pc, sync_retry, inited, starts, radioVars, apVars, phoneVars,
                 device_ip, clockVars, ledVars, mqttVars, nvsVars>>

(* sm_init, then sm_start without credentials: STATE_UNPROVISIONED creates  *)
(* the endpoint and starts the BLE service, whose START event may be        *)
(* handled before this task registers the endpoint's handler.               *)
MainProvisions ==
  /\ main_pc = "sm"
  /\ wifi = "off" \/ sta_cfg = "none"
  /\ current_state' = "STATE_UNPROVISIONED"
  /\ endpoint' = "created"
  /\ \/ wifi # "off" /\ prov' = "started" /\ evq' = Append(evq, "PROV_START")
     \/ wifi = "off" /\ UNCHANGED <<prov, evq>>
  /\ main_pc' = "register"
  /\ UNCHANGED <<ev_pc, sync_retry, inited, starts, bt, radioVars, apVars, phoneVars,
                 device_ip, clockVars, ledVars, mqttVars, nvsVars>>

(* Mutant: sm_transition assigns current_state after its switch. *)
MainRegistersLate ==
  /\ main_pc = "register"
  /\ endpoint' = "registered"
  /\ current_state' = "STATE_UNPROVISIONED"
  /\ main_pc' = "done"
  /\ UNCHANGED <<ev_pc, sync_retry, inited, starts, bt, evq, radioVars,
                 apVars, prov, phoneVars, device_ip, clockVars, ledVars, mqttVars, nvsVars>>

MainRegisters ==
  /\ main_pc = "register"
  /\ endpoint' = "registered"
  /\ main_pc' = "done"
  /\ UNCHANGED <<current_state, ev_pc, sync_retry, inited, starts, bt, evq, radioVars,
                 apVars, prov, phoneVars, device_ip, clockVars, ledVars, mqttVars, nvsVars>>

AppMain == MainOpensNvs \/ MainInitsLed \/ MainStartsWifi \/ MainConnects
           \/ MainProvisions \/ MainRegisters

-----------------------------------------------------------------------------
(* event_handler: one event at a time, from the head of the queue.          *)

Handles(e) == ev_pc = "idle" /\ evq # <<>> /\ Head(evq) = e

HandleProvStart ==
  /\ Handles("PROV_START")
  /\ evq' = Tail(evq)
  /\ current_state' = "STATE_PROVISIONING"
  /\ UNCHANGED <<main_pc, ev_pc, sync_retry, inited, starts, bt, radioVars, apVars,
                 provVars, device_ip, clockVars, ledVars, mqttVars, nvsVars>>

HandleCredRecv ==
  /\ Handles("PROV_CRED_RECV")
  /\ evq' = Tail(evq)
  /\ current_state' = "STATE_CONNECTING"
  /\ esp_wifi_connect
  /\ led_manager_set_state("LED_MODE_WIFI_CONNECTING")
  /\ UNCHANGED <<main_pc, ev_pc, sync_retry, inited, starts, bt, sta_cfg, apVars,
                 provVars, device_ip, clockVars, mqttVars, nvsVars>>

HandleCredFail ==
  /\ Handles("PROV_CRED_FAIL")
  /\ evq' = Tail(evq)
  /\ current_state' = "STATE_ERROR"
  /\ UNCHANGED <<main_pc, ev_pc, sync_retry, inited, starts, bt, radioVars, apVars,
                 provVars, device_ip, clockVars, ledVars, mqttVars, nvsVars>>

HandleProvEnd ==
  /\ Handles("PROV_END")
  /\ evq' = Tail(evq)
  /\ bt' = "released"
  /\ UNCHANGED <<main_pc, current_state, ev_pc, sync_retry, inited, starts, radioVars,
                 apVars, provVars, device_ip, clockVars, ledVars, mqttVars, nvsVars>>

(* Mutant: a link is re-established in the wrong state. *)
ReconnectsConnecting == current_state = "STATE_CONNECTING"

Reconnects == current_state = "STATE_ONLINE"

(* The provisioning manager registered its own handler first, so what it    *)
(* posts is queued before ours runs.                                        *)
HandleDisconnected ==
  /\ Handles("STA_DISCONNECTED")
  /\ evq' = Tail(evq) \o ProvPosts("STA_DISCONNECTED")
  /\ prov' = ProvAfter("STA_DISCONNECTED")
  /\ IF Reconnects THEN esp_wifi_connect ELSE UNCHANGED wifi
  /\ UNCHANGED <<smVars, sta_cfg, apVars, endpoint, phoneVars, device_ip, clockVars,
                 ledVars, mqttVars, nvsVars>>

(* STATE_ONLINE up to its first vTaskDelay: now starts at 0, so there       *)
(* always is one.                                                           *)
GoesOnline ==
  /\ current_state' = "STATE_ONLINE"
  /\ InitOnce({"mdns", "sntp"})
  /\ sntp_on' = TRUE
  /\ sync_retry' = 0
  /\ ev_pc' = "sync"

TakesAddress ==
  /\ Handles("STA_GOT_IP")
  /\ evq' = Tail(evq)
  /\ prov' = ProvAfter("STA_GOT_IP")
  /\ device_ip' = TRUE

(* The first address of a boot: mdns_init, then mdns_hostname_set, which    *)
(* blocks the handler on action_sema until the mdns task has executed it.   *)
HandleFirstIp ==
  /\ TakesAddress
  /\ "mdns" \notin inited
  /\ ev_pc' = "mdns"
  /\ UNCHANGED <<main_pc, current_state, sync_retry, inited, starts, bt, radioVars, apVars,
                 endpoint, phoneVars, clockVars, ledVars, mqttVars, nvsVars>>

(* The semaphore is given, or mdns_init had failed and nobody waits for it. *)
HostnameIsSet ==
  /\ ev_pc = "mdns"
  /\ GoesOnline
  /\ UNCHANGED <<main_pc, bt, evq, radioVars, apVars, provVars, device_ip, synced,
                 ledVars, mqttVars, nvsVars>>

HandleGotIp ==
  /\ TakesAddress
  /\ "mdns" \in inited
  /\ GoesOnline
  /\ UNCHANGED <<main_pc, bt, radioVars, apVars, endpoint, phoneVars, synced,
                 ledVars, mqttVars, nvsVars>>

(* Mutants: one attempt too many; the attempts are not counted. *)
SyncWaitOneMore ==
  /\ ev_pc = "sync"
  /\ sync_retry' = sync_retry + 1
  /\ ev_pc' = IF ~synced /\ sync_retry + 1 <= SyncRetries THEN "sync" ELSE "mqtt"
  /\ UNCHANGED <<main_pc, current_state, inited, starts, bt, platformVars,
                 ledVars, mqttVars, nvsVars>>

SyncWaitForever ==
  /\ ev_pc = "sync"
  /\ ev_pc' = IF synced THEN "mqtt" ELSE "sync"
  /\ UNCHANGED <<main_pc, current_state, sync_retry, inited, starts, bt, platformVars,
                 ledVars, mqttVars, nvsVars>>

(* One second later: another attempt, or on to MQTT, synced or not. *)
SyncWait ==
  /\ ev_pc = "sync"
  /\ sync_retry' = sync_retry + 1
  /\ ev_pc' = IF ~synced /\ sync_retry + 1 < SyncRetries THEN "sync" ELSE "mqtt"
  /\ UNCHANGED <<main_pc, current_state, inited, starts, bt, platformVars,
                 ledVars, mqttVars, nvsVars>>

(* Mutant: the transition returns before the sensors are set up. *)
StartMqttOnly ==
  /\ ev_pc = "mqtt"
  /\ InitOnce({"mqtt"})
  /\ mqtt_manager_connect
  /\ ev_pc' = "idle"
  /\ UNCHANGED <<main_pc, current_state, sync_retry, bt, platformVars, ledVars, nvsVars>>

(* mqtt_manager_init once, mqtt_manager_connect always. *)
StartMqtt ==
  /\ ev_pc = "mqtt"
  /\ InitOnce({"mqtt"})
  /\ mqtt_manager_connect
  /\ ev_pc' = "sensors"
  /\ UNCHANGED <<main_pc, current_state, sync_retry, bt, platformVars, ledVars, nvsVars>>

InitSensors ==
  /\ ev_pc = "sensors"
  /\ sensor_manager_init
  /\ InitOnce({"sensors"})
  /\ ev_pc' = "idle"
  /\ UNCHANGED <<main_pc, current_state, sync_retry, bt, platformVars, ledVars, nvsVars>>

EventTask ==
  \/ HandleProvStart \/ HandleCredRecv \/ HandleCredFail \/ HandleProvEnd
  \/ HandleDisconnected \/ HandleFirstIp \/ HostnameIsSet \/ HandleGotIp
  \/ SyncWait \/ StartMqtt \/ InitSensors

-----------------------------------------------------------------------------
(* device_info_handler, in the task of the BLE transport. *)

EndpointAnswers == endpoint = "registered" /\ ProvRunning /\ bt = "held"

PhoneAsksInfo ==
  /\ EndpointAnswers
  /\ app_told' = (app_told \/ device_ip)
  /\ UNCHANGED <<smVars, evq, radioVars, apVars, prov, endpoint, early_ok, device_ip, clockVars,
                 ledVars, mqttVars, nvsVars>>

(* "OK" stops the service, whatever the state of the device. *)
PhoneSaysOk ==
  /\ EndpointAnswers
  /\ prov' = "stopping"
  /\ early_ok' = (early_ok \/ ~app_told)
  /\ UNCHANGED <<smVars, evq, radioVars, apVars, endpoint, app_told, device_ip, clockVars,
                 ledVars, mqttVars, nvsVars>>
=============================================================================
