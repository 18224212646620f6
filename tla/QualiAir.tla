------------------------------- MODULE QualiAir -------------------------------
(***************************************************************************)
(* The whole firmware: app_main and its reset task, the event loop's task  *)
(* with the state machine, the MQTT client's task and the publish task,    *)
(* the LED task, and around them the radio, the access point, the phone,   *)
(* the user's finger and the power supply.                                 *)
(*                                                                         *)
(* A restart, asked for by the reset task or forced by the power supply,   *)
(* loses everything but the flash; the clock survives a restart without    *)
(* loss of power.                                                          *)
(***************************************************************************)
EXTENDS StateMachine, ResetButton

CONSTANTS
  MaxPresses,     (* how often the user presses the button                 *)
  MaxPowerCycles  (* how often the power fails                             *)

ASSUME UserAssumption == MaxPresses \in Nat /\ MaxPowerCycles \in Nat

VARIABLES
  presses,      (* how often the button was pressed                        *)
  power_cycles  (* how often the power failed                              *)

userVars == <<presses, power_cycles>>
vars == <<nvsVars, ledVars, resetVars, platformVars, mqttVars, smVars, userVars>>

TypeOK ==
  /\ NvsTypeOK
  /\ LedTypeOK
  /\ ResetTypeOK
  /\ PlatformTypeOK
  /\ MqttTypeOK
  /\ SmTypeOK
  /\ presses \in 0..MaxPresses
  /\ power_cycles \in 0..MaxPowerCycles

Init ==
  /\ LedInit
  /\ ResetInit
  /\ PlatformBoot
  /\ MqttBoot
  /\ SmBoot
  /\ creds \in Credentials
  /\ nvs = "closed"
  /\ ap \in BOOLEAN
  /\ outages = 0
  /\ synced = FALSE
  /\ presses = 0
  /\ power_cycles = 0

-----------------------------------------------------------------------------
(* Each part steps while the rest stands still. *)

ByMain ==
  /\ \/ /\ main_pc = "create"
        /\ CreateResetTask
        /\ main_pc' = "nvs"
        /\ UNCHANGED <<current_state, ev_pc, sync_retry, inited, starts, bt,
                       ledVars, mqttVars, platformVars, nvsVars>>
     \/ AppMain /\ UNCHANGED resetVars
  /\ UNCHANGED userVars

ByEventLoop == EventTask /\ UNCHANGED <<resetVars, userVars>>

ByRadio == Radio /\ UNCHANGED <<smVars, mqttVars, ledVars, resetVars, userVars>>

ByAccessPoint ==
  /\ ApGoes \/ ApReturns
  /\ UNCHANGED <<smVars, mqttVars, ledVars, resetVars, userVars>>

(* A message of a running BLE session may arrive between the erasure of the *)
(* flash and esp_restart; but no session is opened in that time with a      *)
(* service that app_main only starts then, after it has opened the storage  *)
(* again.                                                                   *)
SessionPossible == reset_pc = "erased" => nvs = "closed"

ByPhone ==
  /\ SessionPossible
  /\ \/ /\ \E c \in {"good", "bad"} : PhoneSendsCredentials(c)
        /\ UNCHANGED <<smVars, mqttVars, ledVars>>
     \/ PhoneAsksInfo
     \/ PhoneSaysOk
  /\ UNCHANGED <<resetVars, userVars>>

ByMqttTask ==
  /\ MqttConnected(wifi = "up") \/ MqttDisconnected
  /\ UNCHANGED <<smVars, platformVars, nvsVars, resetVars, userVars>>

(* The publish task starts after the client does, inside STATE_ONLINE, and *)
(* its delay of a second is longer than what is left of that transition,   *)
(* the set-up of the sensors with its I2C timeouts of 100 ms.              *)
ByPublishTask ==
  /\ \/ PublishTask(synced)
     \/ PubDelayEnds /\ ev_pc \notin {"mqtt", "sensors"}
  /\ UNCHANGED <<smVars, platformVars, nvsVars, resetVars, userVars>>

ByLedTask == LedTask /\ UNCHANGED <<smVars, mqttVars, platformVars, nvsVars, resetVars, userVars>>

ByResetTask == ResetTask /\ UNCHANGED <<smVars, mqttVars, platformVars, userVars>>

ByUser ==
  /\ \/ Press /\ presses < MaxPresses /\ presses' = presses + 1
     \/ Release /\ UNCHANGED presses
     \/ HoldTick /\ UNCHANGED presses
  /\ UNCHANGED <<smVars, mqttVars, platformVars, power_cycles>>

-----------------------------------------------------------------------------
(* Restarts. *)

(* What every boot finds; a finger stays where it is. *)
Boots ==
  /\ LedReboots
  /\ reset_pc' = "absent" /\ hold_time' = 0
  /\ PlatformReboots
  /\ MqttReboots
  /\ SmReboots
  /\ nvs' = "closed"
  /\ UNCHANGED <<creds, ap, outages, button, held, presses>>

(* esp_restart *)
Restart ==
  /\ reset_pc = "erased"
  /\ Boots
  /\ UNCHANGED <<synced, power_cycles>>

PowerCycle ==
  /\ power_cycles < MaxPowerCycles
  /\ power_cycles' = power_cycles + 1
  /\ Boots
  /\ synced' = FALSE

Next ==
  \/ ByMain \/ ByEventLoop \/ ByRadio \/ ByAccessPoint \/ ByPhone
  \/ ByMqttTask \/ ByPublishTask \/ ByLedTask \/ ByResetTask \/ ByUser
  \/ Restart \/ PowerCycle

Spec == Init /\ [][Next]_vars

-----------------------------------------------------------------------------
(* Fairness: every task is scheduled as long as it has something to do (the *)
(* scheduler is preemptive and every loop gives up the processor), an        *)
(* attempt to connect or to get an address ends.  Nothing obliges the access *)
(* point, the phone, the broker, SNTP, the user or the power supply to do    *)
(* anything.                                                                 *)

TaskFairness ==
  /\ WF_vars(ByMain)
  /\ WF_vars(ByEventLoop)
  /\ WF_vars(ByPublishTask)
  /\ WF_vars(ByLedTask)
  /\ WF_vars(ByResetTask)
  /\ WF_vars(Restart)

RadioFairness ==
  /\ WF_vars(WifiAssociates /\ ByRadio)
  /\ WF_vars(DhcpLease /\ ByRadio)
  /\ WF_vars(WifiDrops /\ ByRadio)

FairSpec == Spec /\ TaskFairness /\ RadioFairness

-----------------------------------------------------------------------------
(* Safety. *)

Queued(e) == \E i \in 1..Len(evq) : evq[i] = e

(* In STATE_ONLINE a link that is down and not being re-established has an  *)
(* STA_DISCONNECTED waiting, whose handler will call esp_wifi_connect: no   *)
(* interleaving of a lost link with the wait for the clock, a late GOT_IP   *)
(* or a stale event leaves the device online in name only.                  *)
RetryPending ==
  current_state = "STATE_ONLINE" /\ wifi = "idle" => Queued("STA_DISCONNECTED")

(* mDNS, SNTP, the MQTT client and the sensors are brought up at most once  *)
(* per boot, however often the device gets an address, and one publish task *)
(* exists, however often the client reconnects (mqtt_manager.c:68).         *)
OncePerBoot == (\A s \in Services : starts[s] <= 1) /\ publishers <= 1

(* sensor_manager_read never runs before sensor_manager_init has wired up   *)
(* the drivers it calls through (bme.delay_us is a NULL pointer until then).*)
SensorsReadyBeforeRead == sample.ready

(* The state of a boot only moves forward: provisioning, connecting, online *)
(* or failed.  In particular the START event, handled while app_main is     *)
(* still inside sm_transition, is not undone by it.                         *)
Rank(st) == CASE st = "STATE_UNPROVISIONED" -> 0
              [] st = "STATE_PROVISIONING" -> 1
              [] st = "STATE_CONNECTING" -> 2
              [] OTHER -> 3

LifecycleForward ==
  [][main_pc' = "create" \/ Rank(current_state') >= Rank(current_state)]_vars

(* Bluetooth is given up by a boot that found credentials                    *)
(* (state_machine.c:149), or at the end of a provisioning that has stored     *)
(* ones that work (wifi_manager.c:100), never under a session; what is        *)
(* excepted is a phone that confirmed before it was told an address.          *)
BluetoothFreedWhenProvisioned ==
  bt = "released" =>
    IF prov = "absent" THEN nvs = "open" => creds # "none"
    ELSE prov = "ended" /\ (early_ok \/ (nvs = "open" => creds = "good"))

(* The restart that ends a reset finds no credentials: no write of the      *)
(* provisioning manager slips in between the erasure and esp_restart.       *)
ResetForgets ==
  [][reset_pc = "erased" /\ main_pc' = "create" => creds' = "none"]_vars

(* The services come up in the order BringUp promises, and go down together.*)
StageReached ==
  IF pub_pc \in {"read", "publish", "period"} THEN 4
  ELSE IF "sensors" \in inited THEN 3
  ELSE IF "mqtt" \in inited THEN 2
  ELSE IF {"mdns", "sntp"} \subseteq inited THEN 1
  ELSE 0

Promise == INSTANCE BringUp WITH stage <- StageReached

ServicesInOrder == Promise!Spec

-----------------------------------------------------------------------------
(* Liveness. *)

(* While the access point stays, a device in STATE_ONLINE that has lost its *)
(* link gets it back, unless a late CRED_FAIL has moved it to STATE_ERROR.  *)
OnlineLinkRecovers ==
  <>[]ap => [](current_state = "STATE_ONLINE" /\ wifi = "idle"
                 => <>(wifi = "up" \/ current_state # "STATE_ONLINE"))

(* The handler that sleeps inside the event loop always comes back to it,   *)
(* although nothing makes SNTP answer.                                      *)
EventLoopReturns == ev_pc # "idle" ~> ev_pc = "idle"

(* Once the publish task exists it publishes again and again, whatever      *)
(* becomes of the link and the broker.                                      *)
KeepsPublishing ==
  [](publish_task_handle => <>(pub_pc = "publish" \/ ~publish_task_handle))

(* A completed reset leads to a device that offers provisioning again, once *)
(* the button is let go: held down, it resets every boot anew.              *)
ResetReprovisions ==
  <>[](button = "up") =>
    [](reset_pc = "erased" => <>(prov = "started" /\ reset_pc # "erased"))

(* A button that stays down resets the device.                              *)
HoldingResets ==
  button = "down" /\ reset_pc = "poll" ~> button = "up" \/ reset_pc = "erased"

(* While the device connects and nobody sets another mode the LED blinks,   *)
(* and an LED that is switched off ends dark, even if that was during one   *)
(* of the blinks.                                                           *)
LedShowsMode ==
  /\ <>[](current_mode = "LED_MODE_WIFI_CONNECTING" /\ led_pc # "absent")
       => []<>(led_level = 1) /\ []<>(led_level = 0)
  /\ <>[](current_mode = "LED_MODE_OFF") => <>[](led_level = 0)

-----------------------------------------------------------------------------
(* What the code says of itself and does not do: each is violated.           *)

(* "Reset button pressed, hold for 5 seconds to reset" (main.c:30): an       *)
(* erasure while the button is down comes after five seconds of holding it. *)
HeldFiveSeconds ==
  [][reset_pc = "hold" /\ reset_pc' = "erased" /\ button = "down"
       => held = HoldTarget]_vars

(* "LED_MODE_RESET, // blink then off" (led_states.h:5): the mode ends, if    *)
(* only because another takes its place.                                     *)
BlinkThenOff == current_mode = "LED_MODE_RESET" ~> current_mode # "LED_MODE_RESET"

(* "Fast blink during reset hold" (led_manager.c:35): the LED task does not  *)
(* take the mode away while the reset task counts.                           *)
BlinksDuringHold ==
  [][ByLedTask /\ reset_pc = "hold" /\ current_mode = "LED_MODE_RESET"
       => current_mode' = "LED_MODE_RESET"]_vars

(* "Free BLE memory, no longer needed after provisioning"                    *)
(* (wifi_manager.c:99): what gives it up has credentials.                    *)
FreedOnceProvisioned == bt = "released" /\ nvs = "open" => creds # "none"
=============================================================================
