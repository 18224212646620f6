----------------------------- MODULE QualiAirProofs ---------------------------
(***************************************************************************)
(* The properties of QualiAir, proved for every value of its constants:    *)
(* its types, how the services come up, who may retry a lost link, what a  *)
(* reset leaves behind.                                                    *)
(***************************************************************************)
EXTENDS QualiAir, TLAPS

-----------------------------------------------------------------------------
(* Types.  The counters of the two waits for the clock stay in range only  *)
(* because a wait that goes on has an attempt left.                        *)

WaitsBounded ==
  /\ ev_pc = "sync" => sync_retry < SyncRetries
  /\ pub_pc \in {"wait_delay", "wait_check"} => pub_retry < PubRetries

TypeInv == TypeOK /\ WaitsBounded

(* Everything but the platform and the MQTT manager. *)
Control ==
  /\ NvsTypeOK /\ LedTypeOK /\ ResetTypeOK /\ SmTypeOK /\ WaitsBounded
  /\ presses \in 0..MaxPresses /\ power_cycles \in 0..MaxPowerCycles

USE HoldTargetAssumption, PlatformAssumption, PubRetriesAssumption, SyncRetriesAssumption,
    UserAssumption

USE DEF TypeInv, Control, WaitsBounded, TypeOK, NvsTypeOK, LedTypeOK, ResetTypeOK, PlatformTypeOK,
        MqttTypeOK, SmTypeOK, Credentials, LedModes, Events, LinkStates, ProvStates,
        Samples, DeviceStates, Services,
        nvsVars, ledVars, resetVars, platformVars, radioVars, apVars, provVars, phoneVars, clockVars,
        mqttVars, pubVars, sensorVars, smVars, userVars

LEMMA TypeInit == Init => TypeInv
<1> SUFFICES ASSUME Init PROVE TypeInv
  OBVIOUS
<1> USE DEF Init, LedInit, ResetInit, PlatformBoot, MqttBoot, SmBoot
<1>1. NvsTypeOK /\ LedTypeOK /\ ResetTypeOK /\ SmTypeOK
  OBVIOUS
<1>2. PlatformTypeOK
  <2>1. evq \in Seq(Events) /\ wifi \in LinkStates /\ sta_cfg \in Credentials
        /\ prov \in ProvStates /\ endpoint \in {"absent", "created", "registered"}
        /\ outages \in 0..MaxOutages
    OBVIOUS
  <2>2. ap \in BOOLEAN
    OBVIOUS
  <2>3. app_told \in BOOLEAN /\ early_ok \in BOOLEAN /\ device_ip \in BOOLEAN
    OBVIOUS
  <2>4. synced \in BOOLEAN /\ sntp_on \in BOOLEAN
    OBVIOUS
  <2> QED
    BY <2>1, <2>2, <2>3, <2>4, Zenon
<1>3. MqttTypeOK
  <2>1. client \in {"NULL", "started"} /\ publishers \in Nat /\ pub_retry \in 0..PubRetries
        /\ pub_pc \in {"absent", "wait_delay", "wait_check", "read", "publish", "period"}
        /\ delivery \in {"none", "sent", "stored", "failed"}
    OBVIOUS
  <2>2. mqtt_up \in BOOLEAN /\ publish_task_handle \in BOOLEAN
    OBVIOUS
  <2>3. sensors_ready \in BOOLEAN
    OBVIOUS
  <2>4. sample \in Samples
    OBVIOUS
  <2> QED
    BY <2>1, <2>2, <2>3, <2>4, Zenon
<1>4. presses \in 0..MaxPresses /\ power_cycles \in 0..MaxPowerCycles /\ WaitsBounded
  OBVIOUS
<1> QED
  BY <1>1, <1>2, <1>3, <1>4

(* Bringing up services keeps the counters counters. *)
LEMMA InitOnceCounts ==
  ASSUME starts \in [Services -> Nat], NEW S, InitOnce(S)
  PROVE  (starts \in [Services -> Nat])'
<1>1. \A s \in Services : starts[s] \in Nat /\ starts[s] + 1 \in Nat
  OBVIOUS
<1> QED
  BY <1>1 DEF InitOnce

(* What the provisioning manager posts on a lost link are events. *)
LEMMA ProvPostsEvents ==
  ASSUME evq \in Seq(Events), evq # <<>>
  PROVE  Tail(evq) \o ProvPosts("STA_DISCONNECTED") \in Seq(Events)
<1>1. Tail(evq) \in Seq(Events)
  OBVIOUS
<1>2. <<"PROV_CRED_FAIL">> \in Seq(Events) /\ <<>> \in Seq(Events)
  BY DEF Events
<1>3. ProvPosts("STA_DISCONNECTED") \in Seq(Events)
  BY <1>2 DEF ProvPosts
<1> QED
  BY <1>1, <1>3

LEMMA MainKeepsTypes == TypeInv /\ ByMain => TypeInv'
<1> SUFFICES ASSUME TypeInv, ByMain PROVE TypeInv'
  OBVIOUS
<1>1. CASE /\ CreateResetTask /\ main_pc' = "nvs"
            /\ UNCHANGED <<current_state, ev_pc, sync_retry, inited, starts, bt,
                           ledVars, mqttVars, platformVars, nvsVars, userVars>>
  <2> USE <1>1 DEF CreateResetTask
  <2>1. Control'
    OBVIOUS
  <2>2. PlatformTypeOK'
    OBVIOUS
  <2>3. MqttTypeOK'
    OBVIOUS
  <2> QED
    BY <2>1, <2>2, <2>3
<1>2. CASE MainOpensNvs /\ UNCHANGED <<resetVars, userVars>>
  <2> USE <1>2 DEF MainOpensNvs, nvs_flash_init
  <2>1. Control'
    OBVIOUS
  <2>2. PlatformTypeOK'
    OBVIOUS
  <2>3. MqttTypeOK'
    OBVIOUS
  <2> QED
    BY <2>1, <2>2, <2>3
<1>3. CASE MainInitsLed /\ UNCHANGED <<resetVars, userVars>>
  <2> USE <1>3 DEF MainInitsLed, led_manager_init
  <2>1. Control'
    OBVIOUS
  <2>2. PlatformTypeOK'
    OBVIOUS
  <2>3. MqttTypeOK'
    OBVIOUS
  <2> QED
    BY <2>1, <2>2, <2>3
<1>4. CASE MainStartsWifi /\ UNCHANGED <<resetVars, userVars>>
  <2> USE <1>4 DEF MainStartsWifi
  <2>1. Control'
    OBVIOUS
  <2>2. PlatformTypeOK'
    OBVIOUS
  <2>3. MqttTypeOK'
    OBVIOUS
  <2> QED
    BY <2>1, <2>2, <2>3
<1>5. CASE MainConnects /\ UNCHANGED <<resetVars, userVars>>
  <2> USE <1>5 DEF MainConnects, led_manager_set_state, esp_wifi_connect, AfterConnect
  <2>1. Control'
    OBVIOUS
  <2>2. PlatformTypeOK'
    OBVIOUS
  <2>3. MqttTypeOK'
    OBVIOUS
  <2> QED
    BY <2>1, <2>2, <2>3
<1>6. CASE MainProvisions /\ UNCHANGED <<resetVars, userVars>>
  <2> USE <1>6 DEF MainProvisions
  <2>1. Control'
    OBVIOUS
  <2>2. PlatformTypeOK'
    <3>1. (evq \in Seq(Events))'
      OBVIOUS
    <3>2. (wifi \in LinkStates /\ sta_cfg \in Credentials /\ outages \in 0..MaxOutages)'
      OBVIOUS
    <3>3. (prov \in ProvStates /\ endpoint \in {"absent", "created", "registered"})'
      OBVIOUS
    <3>4. (ap \in BOOLEAN /\ device_ip \in BOOLEAN)'
      OBVIOUS
    <3>5. (app_told \in BOOLEAN /\ early_ok \in BOOLEAN)'
      OBVIOUS
    <3>6. (synced \in BOOLEAN /\ sntp_on \in BOOLEAN)'
      OBVIOUS
    <3> QED
      BY <3>1, <3>2, <3>3, <3>4, <3>5, <3>6
  <2>3. MqttTypeOK'
    OBVIOUS
  <2> QED
    BY <2>1, <2>2, <2>3
<1>7. CASE MainRegisters /\ UNCHANGED <<resetVars, userVars>>
  <2> USE <1>7 DEF MainRegisters
  <2>1. Control'
    OBVIOUS
  <2>2. PlatformTypeOK'
    OBVIOUS
  <2>3. MqttTypeOK'
    OBVIOUS
  <2> QED
    BY <2>1, <2>2, <2>3
<1> QED
  BY <1>1, <1>2, <1>3, <1>4, <1>5, <1>6, <1>7
  DEF ByMain, AppMain

LEMMA EventLoopKeepsTypes == TypeInv /\ ByEventLoop => TypeInv'
<1> SUFFICES ASSUME TypeInv, ByEventLoop PROVE TypeInv'
  OBVIOUS
<1>1. CASE HandleProvStart /\ UNCHANGED <<resetVars, userVars>>
  <2> USE <1>1 DEF HandleProvStart, Handles
  <2>1. Control'
    OBVIOUS
  <2>2. PlatformTypeOK'
    <3>1. (evq \in Seq(Events))'
      OBVIOUS
    <3>2. (wifi \in LinkStates /\ sta_cfg \in Credentials /\ outages \in 0..MaxOutages)'
      OBVIOUS
    <3>3. (prov \in ProvStates /\ endpoint \in {"absent", "created", "registered"})'
      OBVIOUS
    <3>4. (ap \in BOOLEAN /\ device_ip \in BOOLEAN)'
      OBVIOUS
    <3>5. (app_told \in BOOLEAN /\ early_ok \in BOOLEAN)'
      OBVIOUS
    <3>6. (synced \in BOOLEAN /\ sntp_on \in BOOLEAN)'
      OBVIOUS
    <3> QED
      BY <3>1, <3>2, <3>3, <3>4, <3>5, <3>6
  <2>3. MqttTypeOK'
    OBVIOUS
  <2> QED
    BY <2>1, <2>2, <2>3
<1>2. CASE HandleCredRecv /\ UNCHANGED <<resetVars, userVars>>
  <2> USE <1>2 DEF HandleCredRecv, Handles, esp_wifi_connect, AfterConnect,
             led_manager_set_state
  <2>1. Control'
    OBVIOUS
  <2>2. PlatformTypeOK'
    <3>1. (evq \in Seq(Events))'
      OBVIOUS
    <3>2. (wifi \in LinkStates /\ sta_cfg \in Credentials /\ outages \in 0..MaxOutages)'
      OBVIOUS
    <3>3. (prov \in ProvStates /\ endpoint \in {"absent", "created", "registered"})'
      OBVIOUS
    <3>4. (ap \in BOOLEAN /\ device_ip \in BOOLEAN)'
      OBVIOUS
    <3>5. (app_told \in BOOLEAN /\ early_ok \in BOOLEAN)'
      OBVIOUS
    <3>6. (synced \in BOOLEAN /\ sntp_on \in BOOLEAN)'
      OBVIOUS
    <3> QED
      BY <3>1, <3>2, <3>3, <3>4, <3>5, <3>6
  <2>3. MqttTypeOK'
    OBVIOUS
  <2> QED
    BY <2>1, <2>2, <2>3
<1>3. CASE HandleCredFail /\ UNCHANGED <<resetVars, userVars>>
  <2> USE <1>3 DEF HandleCredFail, Handles
  <2>1. Control'
    OBVIOUS
  <2>2. PlatformTypeOK'
    <3>1. (evq \in Seq(Events))'
      OBVIOUS
    <3>2. (wifi \in LinkStates /\ sta_cfg \in Credentials /\ outages \in 0..MaxOutages)'
      OBVIOUS
    <3>3. (prov \in ProvStates /\ endpoint \in {"absent", "created", "registered"})'
      OBVIOUS
    <3>4. (ap \in BOOLEAN /\ device_ip \in BOOLEAN)'
      OBVIOUS
    <3>5. (app_told \in BOOLEAN /\ early_ok \in BOOLEAN)'
      OBVIOUS
    <3>6. (synced \in BOOLEAN /\ sntp_on \in BOOLEAN)'
      OBVIOUS
    <3> QED
      BY <3>1, <3>2, <3>3, <3>4, <3>5, <3>6
  <2>3. MqttTypeOK'
    OBVIOUS
  <2> QED
    BY <2>1, <2>2, <2>3
<1>4. CASE HandleProvEnd /\ UNCHANGED <<resetVars, userVars>>
  <2> USE <1>4 DEF HandleProvEnd, Handles
  <2>1. Control'
    OBVIOUS
  <2>2. PlatformTypeOK'
    <3>1. (evq \in Seq(Events))'
      OBVIOUS
    <3>2. (wifi \in LinkStates /\ sta_cfg \in Credentials /\ outages \in 0..MaxOutages)'
      OBVIOUS
    <3>3. (prov \in ProvStates /\ endpoint \in {"absent", "created", "registered"})'
      OBVIOUS
    <3>4. (ap \in BOOLEAN /\ device_ip \in BOOLEAN)'
      OBVIOUS
    <3>5. (app_told \in BOOLEAN /\ early_ok \in BOOLEAN)'
      OBVIOUS
    <3>6. (synced \in BOOLEAN /\ sntp_on \in BOOLEAN)'
      OBVIOUS
    <3> QED
      BY <3>1, <3>2, <3>3, <3>4, <3>5, <3>6
  <2>3. MqttTypeOK'
    OBVIOUS
  <2> QED
    BY <2>1, <2>2, <2>3
<1>5. CASE HandleDisconnected /\ UNCHANGED <<resetVars, userVars>>
  <2> USE <1>5 DEF HandleDisconnected, Handles, esp_wifi_connect, AfterConnect,
             ProvPosts, ProvAfter
  <2>1. Control'
    OBVIOUS
  <2>2. PlatformTypeOK'
    <3>1. (evq \in Seq(Events))'
      BY ProvPostsEvents
    <3>2. (wifi \in LinkStates /\ sta_cfg \in Credentials /\ outages \in 0..MaxOutages)'
      OBVIOUS
    <3>3. (prov \in ProvStates /\ endpoint \in {"absent", "created", "registered"})'
      OBVIOUS
    <3>4. (ap \in BOOLEAN /\ device_ip \in BOOLEAN)'
      OBVIOUS
    <3>5. (app_told \in BOOLEAN /\ early_ok \in BOOLEAN)'
      OBVIOUS
    <3>6. (synced \in BOOLEAN /\ sntp_on \in BOOLEAN)'
      OBVIOUS
    <3> QED
      BY <3>1, <3>2, <3>3, <3>4, <3>5, <3>6
  <2>3. MqttTypeOK'
    OBVIOUS
  <2> QED
    BY <2>1, <2>2, <2>3
<1>6. CASE HandleGotIp /\ UNCHANGED <<resetVars, userVars>>
  <2> USE <1>6 DEF HandleGotIp, TakesAddress, GoesOnline, Handles, ProvAfter, InitOnce
  <2>1. Control'
    <3>1. (NvsTypeOK /\ LedTypeOK /\ ResetTypeOK /\ WaitsBounded)'
      OBVIOUS
    <3>2. (starts \in [Services -> Nat])'
      BY InitOnceCounts
    <3>3. SmTypeOK'
      BY <3>2
    <3> QED
      BY <3>1, <3>3
  <2>2. PlatformTypeOK'
    <3>1. (evq \in Seq(Events))'
      OBVIOUS
    <3>2. (wifi \in LinkStates /\ sta_cfg \in Credentials /\ outages \in 0..MaxOutages)'
      OBVIOUS
    <3>3. (prov \in ProvStates /\ endpoint \in {"absent", "created", "registered"})'
      OBVIOUS
    <3>4. (ap \in BOOLEAN /\ device_ip \in BOOLEAN)'
      OBVIOUS
    <3>5. (app_told \in BOOLEAN /\ early_ok \in BOOLEAN)'
      OBVIOUS
    <3>6. (synced \in BOOLEAN /\ sntp_on \in BOOLEAN)'
      OBVIOUS
    <3> QED
      BY <3>1, <3>2, <3>3, <3>4, <3>5, <3>6
  <2>3. MqttTypeOK'
    OBVIOUS
  <2> QED
    BY <2>1, <2>2, <2>3
<1>7. CASE SyncWait /\ UNCHANGED <<resetVars, userVars>>
  <2> USE <1>7 DEF SyncWait
  <2>1. Control'
    OBVIOUS
  <2>2. PlatformTypeOK'
    OBVIOUS
  <2>3. MqttTypeOK'
    OBVIOUS
  <2> QED
    BY <2>1, <2>2, <2>3
<1>8. CASE StartMqtt /\ UNCHANGED <<resetVars, userVars>>
  <2> USE <1>8 DEF StartMqtt, mqtt_manager_connect, InitOnce
  <2>1. Control'
    OBVIOUS
  <2>2. PlatformTypeOK'
    OBVIOUS
  <2>3. MqttTypeOK'
    OBVIOUS
  <2> QED
    BY <2>1, <2>2, <2>3
<1>9. CASE InitSensors /\ UNCHANGED <<resetVars, userVars>>
  <2> USE <1>9 DEF InitSensors, sensor_manager_init, InitOnce
  <2>1. Control'
    OBVIOUS
  <2>2. PlatformTypeOK'
    OBVIOUS
  <2>3. MqttTypeOK'
    OBVIOUS
  <2> QED
    BY <2>1, <2>2, <2>3
<1>10. CASE HandleFirstIp /\ UNCHANGED <<resetVars, userVars>>
  <2> USE <1>10 DEF HandleFirstIp, TakesAddress, Handles, ProvAfter
  <2>1. Control'
    OBVIOUS
  <2>2. PlatformTypeOK'
    <3>1. (evq \in Seq(Events))'
      OBVIOUS
    <3>2. (wifi \in LinkStates /\ sta_cfg \in Credentials /\ outages \in 0..MaxOutages)'
      OBVIOUS
    <3>3. (prov \in ProvStates /\ endpoint \in {"absent", "created", "registered"})'
      OBVIOUS
    <3>4. (ap \in BOOLEAN /\ device_ip \in BOOLEAN)'
      OBVIOUS
    <3>5. (app_told \in BOOLEAN /\ early_ok \in BOOLEAN)'
      OBVIOUS
    <3>6. (synced \in BOOLEAN /\ sntp_on \in BOOLEAN)'
      OBVIOUS
    <3> QED
      BY <3>1, <3>2, <3>3, <3>4, <3>5, <3>6
  <2>3. MqttTypeOK'
    OBVIOUS
  <2> QED
    BY <2>1, <2>2, <2>3
<1>11. CASE HostnameIsSet /\ UNCHANGED <<resetVars, userVars>>
  <2> USE <1>11 DEF HostnameIsSet, GoesOnline, InitOnce
  <2>1. Control'
    <3>1. (NvsTypeOK /\ LedTypeOK /\ ResetTypeOK /\ WaitsBounded)'
      OBVIOUS
    <3>2. (starts \in [Services -> Nat])'
      BY InitOnceCounts
    <3>3. SmTypeOK'
      BY <3>2
    <3> QED
      BY <3>1, <3>3
  <2>2. PlatformTypeOK'
    <3>1. (evq \in Seq(Events))'
      OBVIOUS
    <3>2. (wifi \in LinkStates /\ sta_cfg \in Credentials /\ outages \in 0..MaxOutages)'
      OBVIOUS
    <3>3. (prov \in ProvStates /\ endpoint \in {"absent", "created", "registered"})'
      OBVIOUS
    <3>4. (ap \in BOOLEAN /\ device_ip \in BOOLEAN)'
      OBVIOUS
    <3>5. (app_told \in BOOLEAN /\ early_ok \in BOOLEAN)'
      OBVIOUS
    <3>6. (synced \in BOOLEAN /\ sntp_on \in BOOLEAN)'
      OBVIOUS
    <3> QED
      BY <3>1, <3>2, <3>3, <3>4, <3>5, <3>6
  <2>3. MqttTypeOK'
    OBVIOUS
  <2> QED
    BY <2>1, <2>2, <2>3
<1> QED
  BY <1>1, <1>2, <1>3, <1>4, <1>5, <1>6, <1>7, <1>8, <1>9, <1>10, <1>11
  DEF ByEventLoop, EventTask

LEMMA RadioKeepsTypes == TypeInv /\ ByRadio => TypeInv'
<1> SUFFICES ASSUME TypeInv, ByRadio PROVE TypeInv'
  OBVIOUS
<1>1. CASE WifiAssociates /\ UNCHANGED <<smVars, mqttVars, ledVars, resetVars, userVars>>
  <2> USE <1>1 DEF WifiAssociates
  <2>1. Control'
    OBVIOUS
  <2>2. PlatformTypeOK'
    OBVIOUS
  <2>3. MqttTypeOK'
    OBVIOUS
  <2> QED
    BY <2>1, <2>2, <2>3
<1>2. CASE DhcpLease /\ UNCHANGED <<smVars, mqttVars, ledVars, resetVars, userVars>>
  <2> USE <1>2 DEF DhcpLease
  <2>1. Control'
    OBVIOUS
  <2>2. PlatformTypeOK'
    <3>1. (evq \in Seq(Events))'
      OBVIOUS
    <3>2. (wifi \in LinkStates /\ sta_cfg \in Credentials /\ outages \in 0..MaxOutages)'
      OBVIOUS
    <3>3. (prov \in ProvStates /\ endpoint \in {"absent", "created", "registered"})'
      OBVIOUS
    <3>4. (ap \in BOOLEAN /\ device_ip \in BOOLEAN)'
      OBVIOUS
    <3>5. (app_told \in BOOLEAN /\ early_ok \in BOOLEAN)'
      OBVIOUS
    <3>6. (synced \in BOOLEAN /\ sntp_on \in BOOLEAN)'
      OBVIOUS
    <3> QED
      BY <3>1, <3>2, <3>3, <3>4, <3>5, <3>6
  <2>3. MqttTypeOK'
    OBVIOUS
  <2> QED
    BY <2>1, <2>2, <2>3
<1>3. CASE WifiDrops /\ UNCHANGED <<smVars, mqttVars, ledVars, resetVars, userVars>>
  <2> USE <1>3 DEF WifiDrops
  <2>1. Control'
    OBVIOUS
  <2>2. PlatformTypeOK'
    <3>1. (evq \in Seq(Events))'
      OBVIOUS
    <3>2. (wifi \in LinkStates /\ sta_cfg \in Credentials /\ outages \in 0..MaxOutages)'
      OBVIOUS
    <3>3. (prov \in ProvStates /\ endpoint \in {"absent", "created", "registered"})'
      OBVIOUS
    <3>4. (ap \in BOOLEAN /\ device_ip \in BOOLEAN)'
      OBVIOUS
    <3>5. (app_told \in BOOLEAN /\ early_ok \in BOOLEAN)'
      OBVIOUS
    <3>6. (synced \in BOOLEAN /\ sntp_on \in BOOLEAN)'
      OBVIOUS
    <3> QED
      BY <3>1, <3>2, <3>3, <3>4, <3>5, <3>6
  <2>3. MqttTypeOK'
    OBVIOUS
  <2> QED
    BY <2>1, <2>2, <2>3
<1>4. CASE SntpSync /\ UNCHANGED <<smVars, mqttVars, ledVars, resetVars, userVars>>
  <2> USE <1>4 DEF SntpSync
  <2>1. Control'
    OBVIOUS
  <2>2. PlatformTypeOK'
    OBVIOUS
  <2>3. MqttTypeOK'
    OBVIOUS
  <2> QED
    BY <2>1, <2>2, <2>3
<1>5. CASE ProvEnds /\ UNCHANGED <<smVars, mqttVars, ledVars, resetVars, userVars>>
  <2> USE <1>5 DEF ProvEnds
  <2>1. Control'
    OBVIOUS
  <2>2. PlatformTypeOK'
    <3>1. (evq \in Seq(Events))'
      OBVIOUS
    <3>2. (wifi \in LinkStates /\ sta_cfg \in Credentials /\ outages \in 0..MaxOutages)'
      OBVIOUS
    <3>3. (prov \in ProvStates /\ endpoint \in {"absent", "created", "registered"})'
      OBVIOUS
    <3>4. (ap \in BOOLEAN /\ device_ip \in BOOLEAN)'
      OBVIOUS
    <3>5. (app_told \in BOOLEAN /\ early_ok \in BOOLEAN)'
      OBVIOUS
    <3>6. (synced \in BOOLEAN /\ sntp_on \in BOOLEAN)'
      OBVIOUS
    <3> QED
      BY <3>1, <3>2, <3>3, <3>4, <3>5, <3>6
  <2>3. MqttTypeOK'
    OBVIOUS
  <2> QED
    BY <2>1, <2>2, <2>3
<1> QED
  BY <1>1, <1>2, <1>3, <1>4, <1>5
  DEF ByRadio, Radio

LEMMA AccessPointKeepsTypes == TypeInv /\ ByAccessPoint => TypeInv'
<1> SUFFICES ASSUME TypeInv, ByAccessPoint PROVE TypeInv'
  OBVIOUS
<1>1. CASE ApGoes /\ UNCHANGED <<smVars, mqttVars, ledVars, resetVars, userVars>>
  <2> USE <1>1 DEF ApGoes
  <2>1. Control'
    OBVIOUS
  <2>2. PlatformTypeOK'
    <3>1. (evq \in Seq(Events))'
      OBVIOUS
    <3>2. (wifi \in LinkStates /\ sta_cfg \in Credentials /\ outages \in 0..MaxOutages)'
      OBVIOUS
    <3>3. (prov \in ProvStates /\ endpoint \in {"absent", "created", "registered"})'
      OBVIOUS
    <3>4. (ap \in BOOLEAN /\ device_ip \in BOOLEAN)'
      OBVIOUS
    <3>5. (app_told \in BOOLEAN /\ early_ok \in BOOLEAN)'
      OBVIOUS
    <3>6. (synced \in BOOLEAN /\ sntp_on \in BOOLEAN)'
      OBVIOUS
    <3> QED
      BY <3>1, <3>2, <3>3, <3>4, <3>5, <3>6
  <2>3. MqttTypeOK'
    OBVIOUS
  <2> QED
    BY <2>1, <2>2, <2>3
<1>2. CASE ApReturns /\ UNCHANGED <<smVars, mqttVars, ledVars, resetVars, userVars>>
  <2> USE <1>2 DEF ApReturns
  <2>1. Control'
    OBVIOUS
  <2>2. PlatformTypeOK'
    <3>1. (evq \in Seq(Events))'
      OBVIOUS
    <3>2. (wifi \in LinkStates /\ sta_cfg \in Credentials /\ outages \in 0..MaxOutages)'
      OBVIOUS
    <3>3. (prov \in ProvStates /\ endpoint \in {"absent", "created", "registered"})'
      OBVIOUS
    <3>4. (ap \in BOOLEAN /\ device_ip \in BOOLEAN)'
      OBVIOUS
    <3>5. (app_told \in BOOLEAN /\ early_ok \in BOOLEAN)'
      OBVIOUS
    <3>6. (synced \in BOOLEAN /\ sntp_on \in BOOLEAN)'
      OBVIOUS
    <3> QED
      BY <3>1, <3>2, <3>3, <3>4, <3>5, <3>6
  <2>3. MqttTypeOK'
    OBVIOUS
  <2> QED
    BY <2>1, <2>2, <2>3
<1> QED
  BY <1>1, <1>2
  DEF ByAccessPoint

LEMMA PhoneKeepsTypes == TypeInv /\ ByPhone => TypeInv'
<1> SUFFICES ASSUME TypeInv, ByPhone PROVE TypeInv'
  OBVIOUS
<1>1. CASE /\ \E c \in {"good", "bad"} : PhoneSendsCredentials(c)
            /\ UNCHANGED <<smVars, mqttVars, ledVars, resetVars, userVars>>
  <2> USE <1>1 DEF PhoneSendsCredentials, nvs_store, esp_wifi_connect, AfterConnect
  <2>1. Control'
    OBVIOUS
  <2>2. PlatformTypeOK'
    <3>1. (evq \in Seq(Events))'
      OBVIOUS
    <3>2. (wifi \in LinkStates /\ sta_cfg \in Credentials /\ outages \in 0..MaxOutages)'
      OBVIOUS
    <3>3. (prov \in ProvStates /\ endpoint \in {"absent", "created", "registered"})'
      OBVIOUS
    <3>4. (ap \in BOOLEAN /\ device_ip \in BOOLEAN)'
      OBVIOUS
    <3>5. (app_told \in BOOLEAN /\ early_ok \in BOOLEAN)'
      OBVIOUS
    <3>6. (synced \in BOOLEAN /\ sntp_on \in BOOLEAN)'
      OBVIOUS
    <3> QED
      BY <3>1, <3>2, <3>3, <3>4, <3>5, <3>6
  <2>3. MqttTypeOK'
    OBVIOUS
  <2> QED
    BY <2>1, <2>2, <2>3
<1>2. CASE PhoneAsksInfo /\ UNCHANGED <<resetVars, userVars>>
  <2> USE <1>2 DEF PhoneAsksInfo
  <2>1. Control'
    OBVIOUS
  <2>2. PlatformTypeOK'
    <3>1. (evq \in Seq(Events))'
      OBVIOUS
    <3>2. (wifi \in LinkStates /\ sta_cfg \in Credentials /\ outages \in 0..MaxOutages)'
      OBVIOUS
    <3>3. (prov \in ProvStates /\ endpoint \in {"absent", "created", "registered"})'
      OBVIOUS
    <3>4. (ap \in BOOLEAN /\ device_ip \in BOOLEAN)'
      OBVIOUS
    <3>5. (app_told \in BOOLEAN /\ early_ok \in BOOLEAN)'
      OBVIOUS
    <3>6. (synced \in BOOLEAN /\ sntp_on \in BOOLEAN)'
      OBVIOUS
    <3> QED
      BY <3>1, <3>2, <3>3, <3>4, <3>5, <3>6
  <2>3. MqttTypeOK'
    OBVIOUS
  <2> QED
    BY <2>1, <2>2, <2>3
<1>3. CASE PhoneSaysOk /\ UNCHANGED <<resetVars, userVars>>
  <2> USE <1>3 DEF PhoneSaysOk
  <2>1. Control'
    OBVIOUS
  <2>2. PlatformTypeOK'
    OBVIOUS
  <2>3. MqttTypeOK'
    OBVIOUS
  <2> QED
    BY <2>1, <2>2, <2>3
<1> QED
  BY <1>1, <1>2, <1>3
  DEF ByPhone

LEMMA MqttTaskKeepsTypes == TypeInv /\ ByMqttTask => TypeInv'
<1> SUFFICES ASSUME TypeInv, ByMqttTask PROVE TypeInv'
  OBVIOUS
<1>1. CASE MqttConnected(wifi = "up") /\ UNCHANGED <<smVars, platformVars, nvsVars, resetVars, userVars>>
  <2> USE <1>1 DEF MqttConnected, PublishTaskEntry, NoPublisher
  <2>1. Control'
    OBVIOUS
  <2>2. PlatformTypeOK'
    OBVIOUS
  <2>3. MqttTypeOK'
    <3>1. (/\ client \in {"NULL", "started"} /\ publishers \in Nat /\ pub_retry \in 0..PubRetries
          /\ pub_pc \in {"absent", "wait_delay", "wait_check", "read", "publish", "period"}
          /\ delivery \in {"none", "sent", "stored", "failed"})'
      OBVIOUS
    <3>2. (mqtt_up \in BOOLEAN /\ publish_task_handle \in BOOLEAN)'
      OBVIOUS
    <3>3. (sensors_ready \in BOOLEAN)'
      OBVIOUS
    <3>4. (sample \in Samples)'
      OBVIOUS
    <3> QED
      BY <3>1, <3>2, <3>3, <3>4
  <2> QED
    BY <2>1, <2>2, <2>3
<1>2. CASE MqttDisconnected /\ UNCHANGED <<smVars, platformVars, nvsVars, resetVars, userVars>>
  <2> USE <1>2 DEF MqttDisconnected
  <2>1. Control'
    OBVIOUS
  <2>2. PlatformTypeOK'
    OBVIOUS
  <2>3. MqttTypeOK'
    OBVIOUS
  <2> QED
    BY <2>1, <2>2, <2>3
<1> QED
  BY <1>1, <1>2
  DEF ByMqttTask

LEMMA PublishTaskKeepsTypes == TypeInv /\ ByPublishTask => TypeInv'
<1> SUFFICES ASSUME TypeInv, ByPublishTask PROVE TypeInv'
  OBVIOUS
<1>1. CASE PubDelayEnds /\ UNCHANGED <<smVars, platformVars, nvsVars, resetVars, userVars>>
  <2> USE <1>1 DEF PubDelayEnds
  <2>1. Control'
    OBVIOUS
  <2>2. PlatformTypeOK'
    OBVIOUS
  <2>3. MqttTypeOK'
    OBVIOUS
  <2> QED
    BY <2>1, <2>2, <2>3
<1>2. CASE PubChecksClock(synced) /\ UNCHANGED <<smVars, platformVars, nvsVars, resetVars, userVars>>
  <2> USE <1>2 DEF PubChecksClock
  <2>1. Control'
    OBVIOUS
  <2>2. PlatformTypeOK'
    OBVIOUS
  <2>3. MqttTypeOK'
    OBVIOUS
  <2> QED
    BY <2>1, <2>2, <2>3
<1>3. CASE PubReads(synced) /\ UNCHANGED <<smVars, platformVars, nvsVars, resetVars, userVars>>
  <2> USE <1>3 DEF PubReads
  <2>1. Control'
    OBVIOUS
  <2>2. PlatformTypeOK'
    OBVIOUS
  <2>3. MqttTypeOK'
    <3>1. (/\ client \in {"NULL", "started"} /\ publishers \in Nat /\ pub_retry \in 0..PubRetries
          /\ pub_pc \in {"absent", "wait_delay", "wait_check", "read", "publish", "period"}
          /\ delivery \in {"none", "sent", "stored", "failed"})'
      OBVIOUS
    <3>2. (mqtt_up \in BOOLEAN /\ publish_task_handle \in BOOLEAN)'
      OBVIOUS
    <3>3. (sensors_ready \in BOOLEAN)'
      OBVIOUS
    <3>4. (sample \in Samples)'
      OBVIOUS
    <3> QED
      BY <3>1, <3>2, <3>3, <3>4
  <2> QED
    BY <2>1, <2>2, <2>3
<1>4. CASE PubPublishes /\ UNCHANGED <<smVars, platformVars, nvsVars, resetVars, userVars>>
  <2> USE <1>4 DEF PubPublishes, led_manager_set_state
  <2>1. Control'
    OBVIOUS
  <2>2. PlatformTypeOK'
    OBVIOUS
  <2>3. MqttTypeOK'
    OBVIOUS
  <2> QED
    BY <2>1, <2>2, <2>3
<1>5. CASE PubPeriodEnds /\ UNCHANGED <<smVars, platformVars, nvsVars, resetVars, userVars>>
  <2> USE <1>5 DEF PubPeriodEnds
  <2>1. Control'
    OBVIOUS
  <2>2. PlatformTypeOK'
    OBVIOUS
  <2>3. MqttTypeOK'
    OBVIOUS
  <2> QED
    BY <2>1, <2>2, <2>3
<1> QED
  BY <1>1, <1>2, <1>3, <1>4, <1>5
  DEF ByPublishTask, PublishTask

LEMMA LedTaskKeepsTypes == TypeInv /\ ByLedTask => TypeInv'
<1> SUFFICES ASSUME TypeInv, ByLedTask PROVE TypeInv'
  OBVIOUS
<1> USE DEF ByLedTask, LedTask, LedSwitchOff, LedSwitchSending, LedSwitchBlink,
             LedBlinkDark, LedNextRound, LedSendingDone
<1>1. Control'
  OBVIOUS
<1>2. PlatformTypeOK'
  OBVIOUS
<1>3. MqttTypeOK'
  OBVIOUS
<1> QED
  BY <1>1, <1>2, <1>3

LEMMA ResetTaskKeepsTypes == TypeInv /\ ByResetTask => TypeInv'
<1> SUFFICES ASSUME TypeInv, ByResetTask PROVE TypeInv'
  OBVIOUS
<1> USE DEF ByResetTask, ResetTask, ResetSeesPress, ResetCounts, ResetIgnores,
             ResetErases, led_manager_set_state, nvs_flash_erase
<1>1. Control'
  OBVIOUS
<1>2. PlatformTypeOK'
  OBVIOUS
<1>3. MqttTypeOK'
  OBVIOUS
<1> QED
  BY <1>1, <1>2, <1>3

LEMMA UserKeepsTypes == TypeInv /\ ByUser => TypeInv'
<1> SUFFICES ASSUME TypeInv, ByUser PROVE TypeInv'
  OBVIOUS
<1> USE DEF ByUser, Press, Release, HoldTick
<1>1. Control'
  OBVIOUS
<1>2. PlatformTypeOK'
  OBVIOUS
<1>3. MqttTypeOK'
  OBVIOUS
<1> QED
  BY <1>1, <1>2, <1>3

LEMMA RestartKeepsTypes == TypeInv /\ Restart => TypeInv'
<1> SUFFICES ASSUME TypeInv, Restart PROVE TypeInv'
  OBVIOUS
<1> USE DEF Restart, Boots, LedReboots, PlatformReboots, MqttReboots, SmReboots
<1>1. Control'
  OBVIOUS
<1>2. PlatformTypeOK'
  <2>1. (evq \in Seq(Events))'
    OBVIOUS
  <2>2. (wifi \in LinkStates /\ sta_cfg \in Credentials /\ outages \in 0..MaxOutages)'
    OBVIOUS
  <2>3. (prov \in ProvStates /\ endpoint \in {"absent", "created", "registered"})'
    OBVIOUS
  <2>4. (ap \in BOOLEAN /\ device_ip \in BOOLEAN)'
    OBVIOUS
  <2>5. (app_told \in BOOLEAN /\ early_ok \in BOOLEAN)'
    OBVIOUS
  <2>6. (synced \in BOOLEAN /\ sntp_on \in BOOLEAN)'
    OBVIOUS
  <2> QED
    BY <2>1, <2>2, <2>3, <2>4, <2>5, <2>6
<1>3. MqttTypeOK'
  <2>1. (/\ client \in {"NULL", "started"} /\ publishers \in Nat /\ pub_retry \in 0..PubRetries
        /\ pub_pc \in {"absent", "wait_delay", "wait_check", "read", "publish", "period"}
        /\ delivery \in {"none", "sent", "stored", "failed"})'
    OBVIOUS
  <2>2. (mqtt_up \in BOOLEAN /\ publish_task_handle \in BOOLEAN)'
    OBVIOUS
  <2>3. (sensors_ready \in BOOLEAN)'
    OBVIOUS
  <2>4. (sample \in Samples)'
    OBVIOUS
  <2> QED
    BY <2>1, <2>2, <2>3, <2>4
<1> QED
  BY <1>1, <1>2, <1>3

LEMMA PowerCycleKeepsTypes == TypeInv /\ PowerCycle => TypeInv'
<1> SUFFICES ASSUME TypeInv, PowerCycle PROVE TypeInv'
  OBVIOUS
<1> USE DEF PowerCycle, Boots, LedReboots, PlatformReboots, MqttReboots, SmReboots
<1>1. Control'
  OBVIOUS
<1>2. PlatformTypeOK'
  <2>1. (evq \in Seq(Events))'
    OBVIOUS
  <2>2. (wifi \in LinkStates /\ sta_cfg \in Credentials /\ outages \in 0..MaxOutages)'
    OBVIOUS
  <2>3. (prov \in ProvStates /\ endpoint \in {"absent", "created", "registered"})'
    OBVIOUS
  <2>4. (ap \in BOOLEAN /\ device_ip \in BOOLEAN)'
    OBVIOUS
  <2>5. (app_told \in BOOLEAN /\ early_ok \in BOOLEAN)'
    OBVIOUS
  <2>6. (synced \in BOOLEAN /\ sntp_on \in BOOLEAN)'
    OBVIOUS
  <2> QED
    BY <2>1, <2>2, <2>3, <2>4, <2>5, <2>6
<1>3. MqttTypeOK'
  <2>1. (/\ client \in {"NULL", "started"} /\ publishers \in Nat /\ pub_retry \in 0..PubRetries
        /\ pub_pc \in {"absent", "wait_delay", "wait_check", "read", "publish", "period"}
        /\ delivery \in {"none", "sent", "stored", "failed"})'
    OBVIOUS
  <2>2. (mqtt_up \in BOOLEAN /\ publish_task_handle \in BOOLEAN)'
    OBVIOUS
  <2>3. (sensors_ready \in BOOLEAN)'
    OBVIOUS
  <2>4. (sample \in Samples)'
    OBVIOUS
  <2> QED
    BY <2>1, <2>2, <2>3, <2>4
<1> QED
  BY <1>1, <1>2, <1>3

LEMMA NextKeepsTypes == TypeInv /\ [Next]_vars => TypeInv'
<1>1. TypeInv /\ Next => TypeInv'
  BY MainKeepsTypes, EventLoopKeepsTypes, RadioKeepsTypes, AccessPointKeepsTypes,
     PhoneKeepsTypes, MqttTaskKeepsTypes, PublishTaskKeepsTypes, LedTaskKeepsTypes,
     ResetTaskKeepsTypes, UserKeepsTypes, RestartKeepsTypes, PowerCycleKeepsTypes
  DEF Next
<1>2. TypeInv /\ UNCHANGED vars => TypeInv'
  <2> SUFFICES ASSUME TypeInv, UNCHANGED vars PROVE TypeInv'
    OBVIOUS
  <2> USE DEF vars
  <2>1. Control'
    OBVIOUS
  <2>2. PlatformTypeOK'
    OBVIOUS
  <2>3. MqttTypeOK'
    OBVIOUS
  <2> QED
    BY <2>1, <2>2, <2>3
<1> QED
  BY <1>1, <1>2

(* Every variable of the firmware keeps its type; in particular neither wait *)
(* for the clock counts past its last attempt.                               *)
THEOREM TypeCorrect == Spec => []TypeOK
<1>1. TypeInv => TypeOK
  OBVIOUS
<1> QED
  BY <1>1, TypeInit, NextKeepsTypes, PTL DEF Spec
HIDE DEF TypeInv, Control, WaitsBounded, TypeOK, NvsTypeOK, LedTypeOK, ResetTypeOK, PlatformTypeOK,
         MqttTypeOK, SmTypeOK, Credentials, LedModes, Events, LinkStates, ProvStates,
         Samples, DeviceStates, Services

-----------------------------------------------------------------------------
(* The services.  The flags, the handle and the order in which one pass    *)
(* through STATE_ONLINE sets them tie together everything a service needs. *)

ServicesInv ==
  /\ starts = [s \in Services |-> IF s \in inited THEN 1 ELSE 0]
  /\ publishers = IF publish_task_handle THEN 1 ELSE 0
  /\ publishers = 0 => pub_pc = "absent"
  /\ "mdns" \in inited <=> "sntp" \in inited
  /\ "mqtt" \in inited => "sntp" \in inited
  /\ "sensors" \in inited => "mqtt" \in inited
  /\ ev_pc \notin {"idle", "mdns"} => "sntp" \in inited
  /\ ev_pc = "sensors" => "mqtt" \in inited
  /\ "mqtt" \in inited /\ "sensors" \notin inited => ev_pc = "sensors"
  /\ client = "started" => "mqtt" \in inited
  /\ "sensors" \in inited => sensors_ready = TRUE
  /\ pub_pc # "absent" => client = "started"
  /\ pub_pc \notin {"absent", "wait_delay"} => "sensors" \in inited
  /\ sample.ready = TRUE

serviceVars == <<ev_pc, inited, starts, client, pubVars, sensors_ready, sample>>

LEMMA ServicesInit == Init => ServicesInv
  BY DEF Init, MqttBoot, SmBoot, ServicesInv

(* The steps that touch the services, with what they leave alone. *)
LEMMA ServiceSteps ==
  ASSUME [Next]_vars
  PROVE  \/ UNCHANGED serviceVars
         \/ HandleFirstIp \/ HostnameIsSet \/ HandleGotIp \/ SyncWait \/ StartMqtt \/ InitSensors
         \/ UNCHANGED smVars /\ MqttConnected(wifi = "up")
         \/ UNCHANGED smVars /\ PubDelayEnds /\ ev_pc \notin {"mqtt", "sensors"}
         \/ UNCHANGED smVars /\ PublishTask(synced)
         \/ Boots
<1> USE DEF serviceVars, vars
<1>1. CASE ByMain
  BY <1>1 DEF ByMain, AppMain, MainOpensNvs, MainInitsLed, MainStartsWifi, MainConnects,
              MainProvisions, MainRegisters
<1>2. CASE ByEventLoop
  BY <1>2 DEF ByEventLoop, EventTask, HandleProvStart, HandleCredRecv, HandleCredFail,
              HandleProvEnd, HandleDisconnected
<1>3. CASE ByRadio \/ ByAccessPoint
  BY <1>3 DEF ByRadio, ByAccessPoint
<1>4. CASE ByPhone
  BY <1>4 DEF ByPhone, PhoneAsksInfo, PhoneSaysOk
<1>5. CASE ByMqttTask
  BY <1>5 DEF ByMqttTask, MqttDisconnected
<1>6. CASE ByPublishTask
  BY <1>6 DEF ByPublishTask
<1>7. CASE ByLedTask \/ ByResetTask \/ ByUser
  BY <1>7 DEF ByLedTask, ByResetTask, ByUser
<1>8. CASE Restart \/ PowerCycle
  BY <1>8 DEF Restart, PowerCycle
<1>9. CASE UNCHANGED vars
  BY <1>9
<1> QED
  BY <1>1, <1>2, <1>3, <1>4, <1>5, <1>6, <1>7, <1>8, <1>9 DEF Next

LEMMA ServicesStep == TypeInv /\ ServicesInv /\ [Next]_vars => ServicesInv'
<1> SUFFICES ASSUME TypeInv, ServicesInv, [Next]_vars PROVE ServicesInv'
  OBVIOUS
<1> USE DEF ServicesInv
<1>1. CASE UNCHANGED serviceVars
  BY <1>1 DEF serviceVars
<1>2. CASE HandleGotIp \/ HostnameIsSet
  <2>1. /\ ev_pc \in {"idle", "mdns"} /\ ev_pc' = "sync" /\ GoesOnline
        /\ UNCHANGED <<client, publish_task_handle, publishers, pub_pc, sensors_ready, sample>>
    BY <1>2 DEF HandleGotIp, HostnameIsSet, TakesAddress, GoesOnline, Handles
  <2>2. inited' = inited \cup {"mdns", "sntp"}
    BY <2>1 DEF GoesOnline, InitOnce
  <2>3. starts' = [s \in Services |-> IF s \in inited' THEN 1 ELSE 0]
    BY <2>1, <2>2 DEF GoesOnline, InitOnce, Services
  <2> QED
    BY <2>1, <2>2, <2>3
<1>10. CASE HandleFirstIp
  BY <1>10 DEF HandleFirstIp, TakesAddress, Handles
<1>3. CASE SyncWait
  BY <1>3 DEF SyncWait
<1>4. CASE StartMqtt
  BY <1>4 DEF StartMqtt, InitOnce, mqtt_manager_connect, Services
<1>5. CASE InitSensors
  BY <1>5 DEF InitSensors, InitOnce, sensor_manager_init, Services
<1>6. CASE UNCHANGED smVars /\ MqttConnected(wifi = "up")
  BY <1>6 DEF MqttConnected, NoPublisher, PublishTaskEntry
<1>7. CASE UNCHANGED smVars /\ PubDelayEnds /\ ev_pc \notin {"mqtt", "sensors"}
  BY <1>7 DEF PubDelayEnds
<1>8. CASE UNCHANGED smVars /\ PublishTask(synced)
  BY <1>8 DEF PublishTask, PubChecksClock, PubReads, PubPublishes, PubPeriodEnds
<1>9. CASE Boots
  BY <1>9 DEF Boots, MqttReboots, SmReboots
<1> QED
  BY ServiceSteps, <1>1, <1>2, <1>3, <1>4, <1>5, <1>6, <1>7, <1>8, <1>9, <1>10

(* Each service is brought up at most once per boot, one publish task      *)
(* exists at most, and no reading precedes the set-up of the sensors.      *)
THEOREM ServicesSafe ==
  Spec => [](OncePerBoot /\ SensorsReadyBeforeRead)
<1>1. ServicesInv => OncePerBoot /\ SensorsReadyBeforeRead
  BY DEF ServicesInv, OncePerBoot, SensorsReadyBeforeRead
<1> QED
  BY <1>1, TypeInit, ServicesInit, NextKeepsTypes, ServicesStep, PTL DEF Spec

(* The services of every boot come up in the order of BringUp: the         *)
(* firmware implements it.                                                 *)
THEOREM BringUpImplemented == Spec => ServicesInOrder
<1>1. Init => Promise!Init
  BY DEF Init, MqttBoot, SmBoot, Promise!Init, StageReached
<1>2. TypeInv /\ ServicesInv /\ ServicesInv' /\ [Next]_vars => [Promise!Next]_StageReached
  <2> SUFFICES ASSUME TypeInv, ServicesInv, ServicesInv', [Next]_vars
               PROVE  [Promise!Next]_StageReached
    OBVIOUS
  <2> USE DEF ServicesInv, StageReached, Promise!Next, Promise!Advance, Promise!Restart
  <2>1. CASE UNCHANGED serviceVars
    BY <2>1 DEF serviceVars
  <2>2. CASE HandleGotIp \/ HostnameIsSet
    BY <2>2 DEF HandleGotIp, HostnameIsSet, TakesAddress, GoesOnline, InitOnce, Handles
  <2>10. CASE HandleFirstIp
    BY <2>10 DEF HandleFirstIp, TakesAddress, Handles
  <2>3. CASE SyncWait
    BY <2>3 DEF SyncWait
  <2>4. CASE StartMqtt
    BY <2>4 DEF StartMqtt, InitOnce, mqtt_manager_connect
  <2>5. CASE InitSensors
    BY <2>5 DEF InitSensors, InitOnce, sensor_manager_init
  <2>6. CASE UNCHANGED smVars /\ MqttConnected(wifi = "up")
    BY <2>6 DEF MqttConnected, NoPublisher, PublishTaskEntry
  <2>7. CASE UNCHANGED smVars /\ PubDelayEnds /\ ev_pc \notin {"mqtt", "sensors"}
    BY <2>7 DEF PubDelayEnds
  <2>8. CASE UNCHANGED smVars /\ PublishTask(synced)
    BY <2>8 DEF PublishTask, PubChecksClock, PubReads, PubPublishes, PubPeriodEnds
  <2>9. CASE Boots
    BY <2>9 DEF Boots, MqttReboots, SmReboots
  <2> QED
    BY ServiceSteps, <2>1, <2>2, <2>3, <2>4, <2>5, <2>6, <2>7, <2>8, <2>9, <2>10
<1> QED
  BY <1>1, <1>2, TypeInit, ServicesInit, NextKeepsTypes, ServicesStep, PTL
  DEF Spec, ServicesInOrder, Promise!Spec

-----------------------------------------------------------------------------
(* The link.  A link that went down announces itself behind every          *)
(* announcement that it came up, so whoever makes the device online finds   *)
(* the disconnection still waiting behind it.                              *)

HasDisconnect(q) == \E i \in 1..Len(q) : q[i] = "STA_DISCONNECTED"

Covered(q) ==
  \A i \in 1..Len(q) :
    q[i] = "STA_GOT_IP" => \E j \in (i + 1)..Len(q) : q[j] = "STA_DISCONNECTED"

LEMMA AppendFacts ==
  ASSUME NEW q \in Seq(Events), NEW e \in Events
  PROVE  /\ Append(q, e) \in Seq(Events)
         /\ HasDisconnect(q) => HasDisconnect(Append(q, e))
         /\ e = "STA_DISCONNECTED" => HasDisconnect(Append(q, e)) /\ Covered(Append(q, e))
         /\ Covered(q) /\ e # "STA_GOT_IP" => Covered(Append(q, e))
<1> DEFINE r == Append(q, e)
<1>1. r \in Seq(Events) /\ Len(r) = Len(q) + 1 /\ r[Len(q) + 1] = e
      /\ \A i \in 1..Len(q) : r[i] = q[i]
  OBVIOUS
<1> HIDE DEF r
<1>2. HasDisconnect(q) => HasDisconnect(r)
  BY <1>1 DEF HasDisconnect
<1>3. ASSUME e = "STA_DISCONNECTED" PROVE HasDisconnect(r) /\ Covered(r)
  BY <1>1, <1>3 DEF HasDisconnect, Covered
<1>4. ASSUME Covered(q), e # "STA_GOT_IP" PROVE Covered(r)
  BY <1>1, <1>4 DEF Covered
<1> QED
  BY <1>1, <1>2, <1>3, <1>4 DEF r

LEMMA TailFacts ==
  ASSUME NEW q \in Seq(Events), q # <<>>
  PROVE  /\ Tail(q) \in Seq(Events)
         /\ HasDisconnect(q) /\ Head(q) # "STA_DISCONNECTED" => HasDisconnect(Tail(q))
         /\ Covered(q) => Covered(Tail(q))
         /\ Covered(q) /\ Head(q) = "STA_GOT_IP" => HasDisconnect(Tail(q))
<1> DEFINE r == Tail(q)
<1>1. r \in Seq(Events) /\ Len(q) = Len(r) + 1 /\ Head(q) = q[1]
      /\ \A i \in 1..Len(r) : r[i] = q[i + 1]
  OBVIOUS
<1> HIDE DEF r
<1>2. ASSUME HasDisconnect(q), Head(q) # "STA_DISCONNECTED" PROVE HasDisconnect(r)
  <2>1. PICK i \in 1..Len(q) : q[i] = "STA_DISCONNECTED"
    BY <1>2 DEF HasDisconnect
  <2>2. i - 1 \in 1..Len(r) /\ r[i - 1] = q[i]
    BY <1>1, <1>2, <2>1
  <2> QED
    BY <2>1, <2>2 DEF HasDisconnect
<1>3. ASSUME Covered(q) PROVE Covered(r)
  <2> SUFFICES ASSUME NEW i \in 1..Len(r), r[i] = "STA_GOT_IP"
               PROVE  \E j \in (i + 1)..Len(r) : r[j] = "STA_DISCONNECTED"
    BY DEF Covered
  <2>1. PICK j \in (i + 2)..Len(q) : q[j] = "STA_DISCONNECTED"
    BY <1>1, <1>3 DEF Covered
  <2>2. j - 1 \in (i + 1)..Len(r) /\ r[j - 1] = q[j]
    BY <1>1, <2>1
  <2> QED
    BY <2>1, <2>2
<1>4. ASSUME Covered(q), Head(q) = "STA_GOT_IP" PROVE HasDisconnect(r)
  <2>1. PICK j \in 2..Len(q) : q[j] = "STA_DISCONNECTED"
    BY <1>1, <1>4 DEF Covered
  <2>2. j - 1 \in 1..Len(r) /\ r[j - 1] = q[j]
    BY <1>1, <2>1
  <2> QED
    BY <2>1, <2>2 DEF HasDisconnect
<1> QED
  BY <1>1, <1>2, <1>3, <1>4 DEF r

(* Until app_main has started the driver nothing can be announced. *)
QuietStart ==
  main_pc \in {"create", "nvs", "led", "wifi"} =>
    /\ wifi = "off" /\ evq = <<>> /\ prov = "absent" /\ ev_pc = "idle"
    /\ current_state = "STATE_UNPROVISIONED"

(* At ev_pc = "mdns" the device is about to be online.                     *)
LinkInv ==
  /\ (current_state = "STATE_ONLINE" \/ ev_pc = "mdns") /\ wifi = "idle" => HasDisconnect(evq)
  /\ wifi = "idle" => Covered(evq)
  /\ QuietStart

linkVars == <<evq, wifi, current_state, ev_pc, main_pc, prov>>

LEMMA LinkInit == Init => LinkInv
  BY DEF Init, PlatformBoot, SmBoot, LinkInv, QuietStart

(* The steps that only take an event other than a disconnection from the   *)
(* queue, or leave the link alone altogether.                              *)
LEMMA QueueType == TypeInv => evq \in Seq(Events) /\ wifi \in LinkStates
  BY DEF TypeInv, TypeOK, PlatformTypeOK

LEMMA MainKeepsLink == TypeInv /\ LinkInv /\ ByMain => LinkInv'
<1> SUFFICES ASSUME TypeInv, LinkInv, ByMain PROVE LinkInv'
  OBVIOUS
<1> USE QueueType DEF LinkInv, QuietStart, Events
<1>1. CASE main_pc = "create" /\ main_pc' = "nvs" /\ UNCHANGED <<evq, wifi, current_state, ev_pc, prov>>
  BY <1>1
<1>2. CASE MainOpensNvs
  BY <1>2 DEF MainOpensNvs
<1>3. CASE MainInitsLed
  BY <1>3 DEF MainInitsLed
<1>4. CASE MainStartsWifi
  BY <1>4 DEF MainStartsWifi, Covered
<1>5. CASE MainConnects
  BY <1>5 DEF MainConnects, esp_wifi_connect, AfterConnect
<1>6. CASE MainProvisions
  <2>1. evq' = evq \/ evq' = Append(evq, "PROV_START")
    BY <1>6 DEF MainProvisions
  <2>2. (Covered(evq) => Covered(evq')) /\ (HasDisconnect(evq) => HasDisconnect(evq'))
    BY <2>1, AppendFacts
  <2> QED
    BY <2>2, <1>6 DEF MainProvisions
<1>7. CASE MainRegisters
  BY <1>7 DEF MainRegisters
<1> QED
  BY <1>1, <1>2, <1>3, <1>4, <1>5, <1>6, <1>7 DEF ByMain, AppMain

LEMMA EventLoopKeepsLink == TypeInv /\ LinkInv /\ ByEventLoop => LinkInv'
<1> SUFFICES ASSUME TypeInv, LinkInv, ByEventLoop PROVE LinkInv'
  OBVIOUS
<1> USE QueueType DEF LinkInv, QuietStart, Events
<1>1. CASE HandleProvStart \/ HandleCredFail \/ HandleProvEnd
  <2>1. evq # <<>> /\ evq' = Tail(evq) /\ Head(evq) # "STA_DISCONNECTED" /\ wifi' = wifi
    BY <1>1 DEF HandleProvStart, HandleCredFail, HandleProvEnd, Handles
  <2>2. (Covered(evq) => Covered(evq')) /\ (HasDisconnect(evq) => HasDisconnect(evq'))
    BY <2>1, TailFacts
  <2> QED
    BY <2>1, <2>2, <1>1 DEF HandleProvStart, HandleCredFail, HandleProvEnd
<1>2. CASE HandleCredRecv
  BY <1>2 DEF HandleCredRecv, Handles, esp_wifi_connect, AfterConnect
<1>3. CASE HandleDisconnected
  <2>1. evq # <<>> /\ evq' = Tail(evq) \o ProvPosts("STA_DISCONNECTED") /\ ev_pc' = "idle"
    BY <1>3 DEF HandleDisconnected, Handles
  <2>2. Tail(evq) \in Seq(Events) /\ (Covered(evq) => Covered(Tail(evq)))
    BY <2>1, TailFacts
  <2>3. evq' = Tail(evq) \/ evq' = Append(Tail(evq), "PROV_CRED_FAIL")
    BY <2>1, <2>2 DEF ProvPosts
  <2>4. Covered(evq) => Covered(evq')
    BY <2>2, <2>3, AppendFacts
  <2> QED
    BY <2>1, <2>4, <1>3
    DEF HandleDisconnected, Reconnects, esp_wifi_connect, AfterConnect
<1>4. CASE HandleFirstIp \/ HandleGotIp
  <2>1. evq # <<>> /\ evq' = Tail(evq) /\ Head(evq) = "STA_GOT_IP" /\ wifi' = wifi
    BY <1>4 DEF HandleFirstIp, HandleGotIp, TakesAddress, Handles
  <2>2. Covered(evq) => Covered(evq') /\ HasDisconnect(evq')
    BY <2>1, TailFacts
  <2> QED
    BY <2>1, <2>2, <1>4 DEF HandleFirstIp, HandleGotIp
<1>6. CASE HostnameIsSet
  BY <1>6 DEF HostnameIsSet, GoesOnline
<1>5. CASE SyncWait \/ StartMqtt \/ InitSensors
  BY <1>5 DEF SyncWait, StartMqtt, InitSensors
<1> QED
  BY <1>1, <1>2, <1>3, <1>4, <1>5, <1>6 DEF ByEventLoop, EventTask

LEMMA RadioKeepsLink == TypeInv /\ LinkInv /\ ByRadio => LinkInv'
<1> SUFFICES ASSUME TypeInv, LinkInv, ByRadio PROVE LinkInv'
  OBVIOUS
<1> USE QueueType DEF LinkInv, QuietStart, Events
<1>1. CASE WifiAssociates \/ DhcpLease
  BY <1>1 DEF WifiAssociates, DhcpLease, ByRadio
<1>2. CASE WifiDrops
  BY <1>2, AppendFacts DEF WifiDrops, ByRadio
<1>3. CASE SntpSync
  BY <1>3 DEF SntpSync, ByRadio
<1>4. CASE ProvEnds
  <2>1. (Covered(evq) => Covered(evq')) /\ (HasDisconnect(evq) => HasDisconnect(evq'))
    BY <1>4, AppendFacts DEF ProvEnds
  <2> QED
    BY <1>4, <2>1 DEF ProvEnds, ByRadio
<1> QED
  BY <1>1, <1>2, <1>3, <1>4 DEF ByRadio, Radio

LEMMA PhoneKeepsLink == TypeInv /\ LinkInv /\ ByPhone => LinkInv'
<1> SUFFICES ASSUME TypeInv, LinkInv, ByPhone PROVE LinkInv'
  OBVIOUS
<1> USE QueueType DEF LinkInv, QuietStart, Events
<1>1. CASE UNCHANGED smVars /\ \E c \in {"good", "bad"} : PhoneSendsCredentials(c)
  BY <1>1 DEF PhoneSendsCredentials, esp_wifi_connect, AfterConnect
<1>2. CASE PhoneAsksInfo
  BY <1>2 DEF PhoneAsksInfo
<1>3. CASE PhoneSaysOk
  BY <1>3 DEF PhoneSaysOk, EndpointAnswers, ProvRunning
<1> QED
  BY <1>1, <1>2, <1>3 DEF ByPhone

LEMMA LinkStep == TypeInv /\ LinkInv /\ [Next]_vars => LinkInv'
<1> SUFFICES ASSUME TypeInv, LinkInv, [Next]_vars PROVE LinkInv'
  OBVIOUS
<1>1. CASE UNCHANGED linkVars
  BY <1>1 DEF linkVars, LinkInv, QuietStart
<1>2. CASE ByAccessPoint \/ ByMqttTask \/ ByPublishTask \/ ByLedTask \/ ByResetTask \/ ByUser
  <2>1. UNCHANGED linkVars
    BY <1>2 DEF linkVars, ByAccessPoint, ApGoes, ApReturns, ByMqttTask, ByPublishTask,
                ByLedTask, ByResetTask, ByUser
  <2> QED
    BY <2>1, <1>1
<1>3. CASE Restart \/ PowerCycle
  BY <1>3 DEF Restart, PowerCycle, Boots, PlatformReboots, SmReboots, LinkInv, QuietStart
<1>4. CASE UNCHANGED vars
  BY <1>4, <1>1 DEF vars, linkVars
<1> QED
  BY <1>2, <1>3, <1>4, MainKeepsLink, EventLoopKeepsLink, RadioKeepsLink, PhoneKeepsLink
  DEF Next

(* A device that believes it is online never sits on a dead link with      *)
(* nothing queued that would re-establish it.                              *)
THEOREM RetryAlwaysPending == Spec => []RetryPending
<1>1. LinkInv => RetryPending
  BY DEF LinkInv, RetryPending, Queued, HasDisconnect
<1> QED
  BY <1>1, TypeInit, LinkInit, NextKeepsTypes, LinkStep, PTL DEF Spec

-----------------------------------------------------------------------------
(* The reset.  Between the erasure and the restart nobody can write the    *)
(* credentials back: the storage was closed by the erasure.                *)

ForgetInv == reset_pc = "erased" => creds = "none"

LEMMA ForgetStep == ForgetInv /\ [Next]_vars => ForgetInv'
<1> SUFFICES ASSUME ForgetInv, [Next]_vars PROVE ForgetInv'
  OBVIOUS
<1> USE DEF ForgetInv
<1>1. CASE ByMain
  BY <1>1 DEF ByMain, CreateResetTask, AppMain, MainOpensNvs, nvs_flash_init, MainInitsLed,
              MainStartsWifi, MainConnects, MainProvisions, MainRegisters
<1>2. CASE ByEventLoop
  BY <1>2 DEF ByEventLoop, EventTask, HandleProvStart, HandleCredRecv, HandleCredFail,
              HandleProvEnd, HandleDisconnected, HandleFirstIp, HostnameIsSet, HandleGotIp,
              SyncWait, StartMqtt, InitSensors
<1>3. CASE ByRadio
  BY <1>3 DEF ByRadio, Radio, WifiAssociates, DhcpLease, WifiDrops, SntpSync, ProvEnds
<1>4. CASE ByAccessPoint
  BY <1>4 DEF ByAccessPoint, ApGoes, ApReturns
<1>5. CASE ByPhone
  BY <1>5 DEF ByPhone, SessionPossible, PhoneSendsCredentials, nvs_store, PhoneAsksInfo,
              PhoneSaysOk
<1>6. CASE ByMqttTask \/ ByPublishTask \/ ByLedTask
  BY <1>6 DEF ByMqttTask, ByPublishTask, ByLedTask
<1>7. CASE ByResetTask
  BY <1>7 DEF ByResetTask, ResetTask, ResetSeesPress, ResetCounts, ResetIgnores, ResetErases,
              nvs_flash_erase
<1>8. CASE ByUser
  BY <1>8 DEF ByUser, Press, Release, HoldTick
<1>9. CASE Restart \/ PowerCycle
  BY <1>9 DEF Restart, PowerCycle, Boots
<1>10. CASE UNCHANGED vars
  BY <1>10 DEF vars
<1> QED
  BY <1>1, <1>2, <1>3, <1>4, <1>5, <1>6, <1>7, <1>8, <1>9, <1>10 DEF Next

(* The restart that ends a reset finds no credentials.                     *)
THEOREM ResetAlwaysForgets == Spec => ResetForgets
<1>1. Init => ForgetInv
  BY DEF Init, ResetInit, ForgetInv
<1>2. ForgetInv /\ ForgetInv' /\ [Next]_vars
        => [reset_pc = "erased" /\ main_pc' = "create" => creds' = "none"]_vars
  <2> SUFFICES ASSUME ForgetInv, [Next]_vars, reset_pc = "erased", main_pc' = "create"
               PROVE  creds' = "none" \/ UNCHANGED vars
    OBVIOUS
  <2> USE DEF ForgetInv
  <2>1. CASE Restart \/ PowerCycle
    BY <2>1 DEF Restart, PowerCycle, Boots
  <2>2. CASE reset_pc' = "erased"
    BY <2>2, ForgetStep
  <2>3. CASE ByMain
    BY <2>3 DEF ByMain, AppMain, MainOpensNvs, MainInitsLed, MainStartsWifi, MainConnects,
                MainProvisions, MainRegisters
  <2>4. CASE ByResetTask
    BY <2>4 DEF ByResetTask, ResetTask, ResetSeesPress, ResetCounts, ResetIgnores, ResetErases
  <2>5. CASE ByUser
    BY <2>5, <2>2 DEF ByUser, Press, Release, HoldTick
  <2>6. CASE ByEventLoop \/ ByRadio \/ ByAccessPoint \/ ByPhone \/ ByMqttTask
             \/ ByPublishTask \/ ByLedTask
    BY <2>6, <2>2 DEF ByEventLoop, ByRadio, ByAccessPoint, ByPhone, ByMqttTask, ByPublishTask,
                      ByLedTask
  <2> QED
    BY <2>1, <2>3, <2>4, <2>5, <2>6 DEF Next
<1> QED
  BY <1>1, <1>2, ForgetStep, PTL DEF Spec, ResetForgets

-----------------------------------------------------------------------------
(* The lifecycle.  START stands first in the queue while the device is      *)
(* unprovisioned; the credentials are received before anything that comes   *)
(* of them is queued.                                                       *)

LifeInv ==
  /\ main_pc \in {"create", "nvs", "led", "wifi", "sm"} =>
       /\ wifi \in {"off", "idle"} /\ evq = <<>> /\ prov = "absent"
       /\ current_state = "STATE_UNPROVISIONED"
  /\ prov = "started" =>
       /\ evq = <<>> \/ evq = <<"PROV_START">>
       /\ wifi = "idle" /\ Rank(current_state) <= 1
  /\ \A i \in 1..Len(evq) :
       evq[i] = "PROV_START" => i = 1 /\ current_state = "STATE_UNPROVISIONED"
  /\ \A i \in 1..Len(evq) :
       evq[i] = "PROV_CRED_RECV" =>
         /\ Rank(current_state) <= 1
         /\ \A j \in 1..(i - 1) : evq[j] = "PROV_START"
  /\ ev_pc = "mdns" =>
       /\ prov # "started" /\ main_pc \notin {"create", "nvs", "led", "wifi", "sm"}
       /\ \A i \in 1..Len(evq) : evq[i] \notin {"PROV_START", "PROV_CRED_RECV"}

(* LifeInv and the promise together, as every step keeps them. *)
LifeGoal ==
  LifeInv' /\ (main_pc' = "create" \/ Rank(current_state') >= Rank(current_state))

LEMMA LifeInit == Init => LifeInv
  BY DEF Init, PlatformBoot, SmBoot, LifeInv

LEMMA RankBounds ==
  /\ Rank("STATE_UNPROVISIONED") = 0 /\ Rank("STATE_PROVISIONING") = 1
  /\ Rank("STATE_CONNECTING") = 2 /\ Rank("STATE_ONLINE") = 3 /\ Rank("STATE_ERROR") = 3
  /\ \A st : Rank(st) \in 0..3
  BY DEF Rank

(* An event that is neither START nor CRED_RECV may be queued at any time  *)
(* but while the provisioning service waits for credentials.               *)
LEMMA LifeAppend ==
  ASSUME TypeInv, LifeInv, NEW e \in Events \ {"PROV_START", "PROV_CRED_RECV"},
         evq' = Append(evq, e), prov # "started", prov' # "started",
         main_pc \notin {"create", "nvs", "led", "wifi", "sm"},
         UNCHANGED <<main_pc, current_state, ev_pc>>
  PROVE  LifeGoal
<1>1. evq \in Seq(Events) /\ Len(evq') = Len(evq) + 1 /\ evq'[Len(evq) + 1] = e
      /\ \A i \in 1..Len(evq) : evq'[i] = evq[i]
  BY QueueType
<1> QED
  BY <1>1, RankBounds DEF LifeInv, LifeGoal

(* An event that is neither START nor CRED_RECV has none of them behind it. *)
LEMMA LifeTake ==
  ASSUME TypeInv, LifeInv, evq # <<>>, Head(evq) \notin {"PROV_START", "PROV_CRED_RECV"},
         evq' = Tail(evq) \/ evq' = Append(Tail(evq), "PROV_CRED_FAIL"),
         prov # "started" => prov' # "started",
         UNCHANGED main_pc, Rank(current_state') >= Rank(current_state)
  PROVE  LifeGoal
<1>1. /\ evq \in Seq(Events) /\ Len(evq) >= 1 /\ Head(evq) = evq[1]
      /\ Len(Tail(evq)) = Len(evq) - 1
      /\ \A i \in 1..Len(Tail(evq)) : Tail(evq)[i] = evq[i + 1]
  BY QueueType
<1>2. \A i \in 1..Len(evq) : evq[i] \notin {"PROV_START", "PROV_CRED_RECV"}
  BY <1>1 DEF LifeInv
<1>3. \A i \in 1..Len(Tail(evq)) : Tail(evq)[i] \notin {"PROV_START", "PROV_CRED_RECV"}
  BY <1>1, <1>2
<1>4. \A i \in 1..Len(evq') : evq'[i] \notin {"PROV_START", "PROV_CRED_RECV"}
  <2>1. CASE evq' = Tail(evq)
    BY <2>1, <1>3
  <2>2. CASE evq' = Append(Tail(evq), "PROV_CRED_FAIL")
    <3>1. Tail(evq) \in Seq(Events)
      BY <1>1
    <3>2. Len(evq') = Len(Tail(evq)) + 1 /\ evq'[Len(Tail(evq)) + 1] = "PROV_CRED_FAIL"
          /\ \A i \in 1..Len(Tail(evq)) : evq'[i] = Tail(evq)[i]
      BY <2>2, <3>1
    <3> QED
      BY <1>3, <3>1, <3>2
  <2> QED
    BY <2>1, <2>2
<1>5. prov # "started" /\ main_pc \notin {"create", "nvs", "led", "wifi", "sm"}
  BY <1>1, <1>2 DEF LifeInv
<1> QED
  BY <1>4, <1>5 DEF LifeInv, LifeGoal

LEMMA MainKeepsLife == TypeInv /\ LifeInv /\ ByMain => LifeGoal
<1> SUFFICES ASSUME TypeInv, LifeInv, ByMain PROVE LifeGoal
  OBVIOUS
<1> USE RankBounds DEF LifeInv, LifeGoal
<1>1. CASE main_pc = "create" /\ main_pc' = "nvs" /\ UNCHANGED <<evq, wifi, current_state, ev_pc, prov>>
  BY <1>1
<1>2. CASE MainOpensNvs
  BY <1>2 DEF MainOpensNvs
<1>3. CASE MainInitsLed
  BY <1>3 DEF MainInitsLed
<1>4. CASE MainStartsWifi
  BY <1>4 DEF MainStartsWifi
<1>5. CASE MainConnects
  BY <1>5 DEF MainConnects
<1>6. CASE MainProvisions
  <2>1. evq = <<>> /\ main_pc' = "register" /\ current_state = current_state'
        /\ current_state = "STATE_UNPROVISIONED" /\ UNCHANGED wifi /\ ev_pc' # "mdns"
    BY <1>6 DEF MainProvisions
  <2>2. CASE wifi # "off" /\ evq' = Append(evq, "PROV_START")
    <3>1. evq' = <<"PROV_START">> /\ wifi = "idle"
      BY <2>1, <2>2, <1>6 DEF MainProvisions
    <3>2. Len(evq') = 1 /\ evq'[1] = "PROV_START"
      BY <3>1
    <3>3. \A i \in 1..Len(evq') : i = 1 /\ evq'[i] = "PROV_START"
      BY <3>2
    <3> QED
      BY <2>1, <3>1, <3>3
  <2>3. CASE UNCHANGED <<prov, evq>>
    BY <2>1, <2>3, <1>6 DEF MainProvisions
  <2> QED
    BY <2>2, <2>3, <1>6 DEF MainProvisions
<1>7. CASE MainRegisters
  BY <1>7 DEF MainRegisters
<1> QED
  BY <1>1, <1>2, <1>3, <1>4, <1>5, <1>6, <1>7 DEF ByMain, AppMain

LEMMA EventLoopKeepsLife == TypeInv /\ LifeInv /\ ByEventLoop => LifeGoal
<1> SUFFICES ASSUME TypeInv, LifeInv, ByEventLoop PROVE LifeGoal
  OBVIOUS
<1> USE RankBounds
<1>1. CASE HandleProvStart
  <2>1. evq # <<>> /\ evq' = Tail(evq) /\ Head(evq) = "PROV_START"
        /\ current_state' = "STATE_PROVISIONING" /\ ev_pc' = "idle" /\ UNCHANGED <<main_pc, prov, wifi>>
    BY <1>1 DEF HandleProvStart, Handles
  <2>2. evq \in Seq(Events) /\ Len(evq') = Len(evq) - 1 /\ Head(evq) = evq[1]
        /\ Len(evq) >= 1 /\ \A i \in 1..Len(evq') : evq'[i] = evq[i + 1]
    BY <2>1, QueueType
  <2>3. current_state = "STATE_UNPROVISIONED"
    BY <2>1, <2>2 DEF LifeInv
  <2>4. \A i \in 1..Len(evq') : evq'[i] # "PROV_START"
    BY <2>2 DEF LifeInv
  <2>5. ASSUME NEW i \in 1..Len(evq'), evq'[i] = "PROV_CRED_RECV"
        PROVE  \A j \in 1..(i - 1) : evq'[j] = "PROV_START"
    BY <2>2, <2>5 DEF LifeInv
  <2>6. prov = "started" => evq' = <<>>
    BY <2>1, <2>2 DEF LifeInv
  <2> QED
    BY <2>1, <2>2, <2>3, <2>4, <2>5, <2>6 DEF LifeInv, LifeGoal
<1>2. CASE HandleCredRecv
  <2>1. evq # <<>> /\ evq' = Tail(evq) /\ Head(evq) = "PROV_CRED_RECV"
        /\ current_state' = "STATE_CONNECTING" /\ ev_pc' = "idle" /\ UNCHANGED <<main_pc, prov>>
    BY <1>2 DEF HandleCredRecv, Handles
  <2>2. evq \in Seq(Events) /\ Len(evq') = Len(evq) - 1 /\ evq[1] = "PROV_CRED_RECV"
        /\ Len(evq) >= 1 /\ \A i \in 1..Len(evq') : evq'[i] = evq[i + 1]
    BY <2>1, QueueType
  <2>3. Rank(current_state) <= 1 /\ prov # "started"
        /\ main_pc \notin {"create", "nvs", "led", "wifi", "sm"}
    BY <2>1, <2>2 DEF LifeInv
  <2>4. \A i \in 1..Len(evq') : evq'[i] \notin {"PROV_START", "PROV_CRED_RECV"}
    BY <2>2 DEF LifeInv
  <2> QED
    BY <2>1, <2>3, <2>4 DEF LifeInv, LifeGoal
<1>3. CASE HandleCredFail \/ HandleProvEnd \/ HandleFirstIp \/ HandleGotIp
  <2>1. evq # <<>> /\ evq' = Tail(evq) /\ Head(evq) \notin {"PROV_START", "PROV_CRED_RECV"}
        /\ UNCHANGED main_pc /\ Rank(current_state') >= Rank(current_state)
    BY <1>3 DEF HandleCredFail, HandleProvEnd, HandleFirstIp, HandleGotIp, TakesAddress,
                GoesOnline, Handles
  <2>2. prov # "started" => prov' # "started"
    BY <1>3 DEF HandleCredFail, HandleProvEnd, HandleFirstIp, HandleGotIp, TakesAddress, ProvAfter
  <2> QED
    BY <2>1, <2>2, LifeTake
<1>4. CASE HandleDisconnected
  <2>1. evq # <<>> /\ evq' = Tail(evq) \o ProvPosts("STA_DISCONNECTED")
        /\ Head(evq) = "STA_DISCONNECTED" /\ UNCHANGED <<main_pc, current_state>>
    BY <1>4 DEF HandleDisconnected, Handles
  <2>2. Tail(evq) \in Seq(Events)
    BY <2>1, QueueType
  <2>3. evq' = Tail(evq) \/ evq' = Append(Tail(evq), "PROV_CRED_FAIL")
    BY <2>1, <2>2 DEF ProvPosts
  <2>4. prov # "started" => prov' # "started"
    BY <1>4 DEF HandleDisconnected, ProvAfter
  <2> QED
    BY <2>1, <2>3, <2>4, LifeTake
<1>5. CASE SyncWait \/ StartMqtt \/ InitSensors
  BY <1>5 DEF SyncWait, StartMqtt, InitSensors, LifeInv, LifeGoal
<1>6. CASE HostnameIsSet
  BY <1>6 DEF HostnameIsSet, GoesOnline, LifeInv, LifeGoal
<1> QED
  BY <1>1, <1>2, <1>3, <1>4, <1>5, <1>6 DEF ByEventLoop, EventTask

LEMMA RadioKeepsLife == TypeInv /\ LifeInv /\ ByRadio => LifeGoal
<1> SUFFICES ASSUME TypeInv, LifeInv, ByRadio PROVE LifeGoal
  OBVIOUS
<1> USE RankBounds
<1>1. CASE WifiAssociates \/ SntpSync
  BY <1>1 DEF WifiAssociates, SntpSync, ByRadio, LifeInv, LifeGoal
<1>2. CASE DhcpLease \/ WifiDrops \/ ProvEnds
  <2>1. PICK e \in Events \ {"PROV_START", "PROV_CRED_RECV"} : evq' = Append(evq, e)
    BY <1>2 DEF DhcpLease, WifiDrops, ProvEnds, Events
  <2>2. /\ prov # "started" /\ prov' # "started"
        /\ main_pc \notin {"create", "nvs", "led", "wifi", "sm"}
    BY <1>2 DEF DhcpLease, WifiDrops, ProvEnds, LifeInv
  <2>3. UNCHANGED <<main_pc, current_state, ev_pc>>
    BY DEF ByRadio
  <2> QED
    BY <2>1, <2>2, <2>3, LifeAppend
<1> QED
  BY <1>1, <1>2 DEF ByRadio, Radio

LEMMA PhoneKeepsLife == TypeInv /\ LifeInv /\ ByPhone => LifeGoal
<1> SUFFICES ASSUME TypeInv, LifeInv, ByPhone PROVE LifeGoal
  OBVIOUS
<1> USE RankBounds
<1>1. CASE UNCHANGED smVars /\ \E c \in {"good", "bad"} : PhoneSendsCredentials(c)
  <2>1. /\ prov = "started" /\ prov' = "cred_recv" /\ UNCHANGED <<main_pc, current_state, ev_pc>>
        /\ evq' = Append(evq, "PROV_CRED_RECV")
    BY <1>1 DEF PhoneSendsCredentials
  <2>2. Rank(current_state) <= 1 /\ main_pc \notin {"create", "nvs", "led", "wifi", "sm"}
    BY <2>1 DEF LifeInv
  <2>3. evq \in Seq(Events) /\ Len(evq') = Len(evq) + 1
        /\ evq'[Len(evq) + 1] = "PROV_CRED_RECV"
        /\ \A i \in 1..Len(evq) : evq'[i] = evq[i]
    BY <2>1, QueueType
  <2>4. \A i \in 1..Len(evq) : evq[i] = "PROV_START"
    BY <2>1 DEF LifeInv
  <2> QED
    BY <2>1, <2>2, <2>3, <2>4 DEF LifeInv, LifeGoal
<1>2. CASE PhoneAsksInfo
  BY <1>2 DEF PhoneAsksInfo, LifeInv, LifeGoal
<1>3. CASE PhoneSaysOk
  BY <1>3 DEF PhoneSaysOk, EndpointAnswers, ProvRunning, LifeInv, LifeGoal
<1> QED
  BY <1>1, <1>2, <1>3 DEF ByPhone

LEMMA LifeStep == TypeInv /\ LifeInv /\ [Next]_vars => LifeGoal
<1> SUFFICES ASSUME TypeInv, LifeInv, [Next]_vars PROVE LifeGoal
  OBVIOUS
<1> USE RankBounds
<1>1. CASE UNCHANGED linkVars
  BY <1>1 DEF linkVars, LifeInv, LifeGoal
<1>2. CASE ByAccessPoint \/ ByMqttTask \/ ByPublishTask \/ ByLedTask \/ ByResetTask \/ ByUser
  <2>1. UNCHANGED linkVars
    BY <1>2 DEF linkVars, ByAccessPoint, ApGoes, ApReturns, ByMqttTask, ByPublishTask,
                ByLedTask, ByResetTask, ByUser
  <2> QED
    BY <2>1, <1>1
<1>3. CASE Restart \/ PowerCycle
  BY <1>3 DEF Restart, PowerCycle, Boots, PlatformReboots, SmReboots, LifeInv, LifeGoal
<1>4. CASE UNCHANGED vars
  BY <1>4, <1>1 DEF vars, linkVars
<1> QED
  BY <1>2, <1>3, <1>4, MainKeepsLife, EventLoopKeepsLife, RadioKeepsLife, PhoneKeepsLife
  DEF Next

(* The state of a boot only moves forward.                                 *)
THEOREM LifecycleAlwaysForward == Spec => LifecycleForward
<1>1. TypeInv /\ LifeInv /\ [Next]_vars => LifeInv'
  BY LifeStep DEF LifeGoal
<1>2. TypeInv /\ LifeInv /\ [Next]_vars
        => [main_pc' = "create" \/ Rank(current_state') >= Rank(current_state)]_vars
  BY LifeStep DEF LifeGoal
<1> QED
  BY <1>1, <1>2, TypeInit, LifeInit, NextKeepsTypes, PTL DEF Spec, LifecycleForward

-----------------------------------------------------------------------------
(* Bluetooth.  The memory is released by a boot that finds credentials, or  *)
(* by a PROV_END, which is the end of a chain: the phone has said OK, so it  *)
(* was told an address unless it was early, so the device got one with the   *)
(* credentials it works with, which are the stored ones.                     *)

(* The address comes with good credentials. *)
AddressInv ==
  /\ device_ip \/ wifi \in {"associated", "up"} \/ Queued("STA_GOT_IP") => sta_cfg = "good"
  /\ app_told => device_ip
  /\ main_pc \in {"create", "nvs", "led", "wifi", "sm"} \/ prov = "started" => ~device_ip

(* What the driver works with has been stored. *)
StoredInv ==
  main_pc \notin {"create", "nvs", "led", "wifi"} /\ nvs = "open" => creds = sta_cfg

(* The service is stopped, if at all, by a phone that was told an address   *)
(* or that was early.                                                       *)
StoppedInv ==
  /\ prov \in {"stopping", "ended"} => app_told \/ early_ok
  /\ Queued("PROV_END") => prov = "ended"
  /\ bt = "released" => prov \in {"absent", "ended"}

(* What was released without a session was released for credentials. *)
BootedInv ==
  /\ main_pc \in {"create", "nvs", "led", "wifi", "sm"} => bt = "held"
  /\ bt = "released" /\ prov = "absent" /\ nvs = "open" => creds # "none"

ProvInv == AddressInv /\ StoredInv /\ StoppedInv /\ BootedInv

LEMMA QueuedAppend ==
  ASSUME TypeInv, NEW e \in Events, evq' = Append(evq, e), NEW x
  PROVE  Queued(x)' <=> Queued(x) \/ x = e
<1>1. evq \in Seq(Events) /\ Len(evq') = Len(evq) + 1 /\ evq'[Len(evq) + 1] = e
      /\ \A i \in 1..Len(evq) : evq'[i] = evq[i]
  BY QueueType
<1> QED
  BY <1>1 DEF Queued

LEMMA QueuedTail ==
  ASSUME TypeInv, evq # <<>>, evq' = Tail(evq), NEW x
  PROVE  (Queued(x)' => Queued(x)) /\ Queued(Head(evq))
<1>1. /\ evq \in Seq(Events) /\ Len(evq) >= 1 /\ Head(evq) = evq[1] /\ Len(evq') = Len(evq) - 1
      /\ \A i \in 1..Len(evq') : evq'[i] = evq[i + 1]
  BY QueueType
<1>2. \A i \in 1..Len(evq') : i + 1 \in 1..Len(evq)
  BY <1>1
<1> QED
  BY <1>1, <1>2 DEF Queued

LEMMA ProvInit == Init => ProvInv
  BY DEF Init, PlatformBoot, SmBoot, ProvInv, AddressInv, StoredInv, StoppedInv, BootedInv, Queued

LEMMA MainKeepsProv == TypeInv /\ LifeInv /\ ProvInv /\ ByMain => ProvInv'
<1> SUFFICES ASSUME TypeInv, LifeInv, ProvInv, ByMain PROVE ProvInv'
  OBVIOUS
<1>0. main_pc \in {"create", "nvs", "led", "wifi", "sm"} =>
        evq = <<>> /\ prov = "absent" /\ wifi \in {"off", "idle"}
  BY DEF LifeInv
<1> USE DEF ProvInv, AddressInv, StoredInv, StoppedInv, BootedInv
<1>1. CASE main_pc = "create" /\ main_pc' = "nvs" /\ UNCHANGED <<platformVars, nvsVars, bt>>
  BY <1>1 DEF Queued
<1>2. CASE MainOpensNvs
  BY <1>0, <1>2 DEF MainOpensNvs, Queued
<1>3. CASE MainInitsLed
  BY <1>3 DEF MainInitsLed, Queued
<1>4. CASE MainStartsWifi
  BY <1>0, <1>4 DEF MainStartsWifi, Queued
<1>5. CASE MainConnects
  BY <1>0, <1>5 DEF MainConnects, esp_wifi_connect, AfterConnect, Queued
<1>6. CASE MainProvisions
  <2>1. ~Queued("STA_GOT_IP")' /\ ~Queued("PROV_END")' /\ bt = "held" /\ ~app_told
    <3>1. ~Queued("STA_GOT_IP") /\ ~Queued("PROV_END") /\ prov = "absent"
      BY <1>0, <1>6 DEF MainProvisions, Queued
    <3>2. bt = "held" /\ ~app_told
      BY <1>6, <3>1 DEF MainProvisions, TypeInv, TypeOK, SmTypeOK
    <3>3. CASE UNCHANGED evq
      BY <3>1, <3>2, <3>3 DEF Queued
    <3>4. CASE evq' = Append(evq, "PROV_START")
      BY <3>1, <3>2, <3>4, QueuedAppend DEF Events
    <3> QED
      BY <1>6, <3>3, <3>4 DEF MainProvisions
  <2> QED
    BY <1>0, <1>6, <2>1 DEF MainProvisions
<1>7. CASE MainRegisters
  BY <1>7 DEF MainRegisters, Queued
<1> QED
  BY <1>1, <1>2, <1>3, <1>4, <1>5, <1>6, <1>7 DEF ByMain, AppMain

LEMMA EventLoopKeepsProv == TypeInv /\ LifeInv /\ ProvInv /\ ByEventLoop => ProvInv'
<1> SUFFICES ASSUME TypeInv, LifeInv, ProvInv, ByEventLoop PROVE ProvInv'
  OBVIOUS
<1> USE DEF ProvInv, AddressInv, StoredInv, StoppedInv, BootedInv
<1>1. ASSUME evq # <<>>, evq' = Tail(evq)
      PROVE  /\ Queued("STA_GOT_IP")' => Queued("STA_GOT_IP")
             /\ Queued("PROV_END")' => Queued("PROV_END")
             /\ Queued(Head(evq))
  BY <1>1, QueuedTail
<1>2. CASE HandleProvStart \/ HandleCredRecv \/ HandleCredFail
  BY <1>1, <1>2
  DEF HandleProvStart, HandleCredRecv, HandleCredFail, Handles, esp_wifi_connect, AfterConnect
<1>3. CASE HandleProvEnd
  <2>1. evq # <<>> /\ Head(evq) = "PROV_END" /\ evq' = Tail(evq)
    BY <1>3 DEF HandleProvEnd, Handles
  <2>2. main_pc \notin {"create", "nvs", "led", "wifi", "sm"} /\ Queued("PROV_END")
    BY <1>1, <2>1 DEF LifeInv
  <2> QED
    BY <1>1, <1>3, <2>1, <2>2 DEF HandleProvEnd
<1>4. CASE HandleDisconnected
  <2>1. evq # <<>> /\ evq' = Tail(evq) \o ProvPosts("STA_DISCONNECTED")
    BY <1>4 DEF HandleDisconnected, Handles
  <2>2. PICK k \in Nat :
          /\ k >= 1 /\ k = Len(evq) /\ Tail(evq) \in Seq(Events) /\ Len(Tail(evq)) = k - 1
          /\ \A i \in 1..k-1 : Tail(evq)[i] = evq[i + 1]
    BY <2>1, QueueType
  <2>3. /\ Len(evq') \in Nat /\ Len(evq') <= k
        /\ \A i \in 1..k-1 : evq'[i] = evq[i + 1]
        /\ Len(evq') = k => evq'[k] = "PROV_CRED_FAIL"
    <3>1. CASE evq' = Tail(evq)
      <4>1. Len(evq') = k - 1
        BY <2>2, <3>1
      <4> QED
        BY <2>2, <3>1, <4>1
    <3>2. CASE evq' = Append(Tail(evq), "PROV_CRED_FAIL")
      <4>1. Len(evq') = Len(Tail(evq)) + 1 /\ evq'[Len(Tail(evq)) + 1] = "PROV_CRED_FAIL"
        BY <2>2, <3>2
      <4>2. \A i \in 1..Len(Tail(evq)) : evq'[i] = Tail(evq)[i]
        BY <2>2, <3>2
      <4>3. Len(Tail(evq)) + 1 = k
        BY <2>2
      <4>4. \A i \in 1..k-1 : evq'[i] = evq[i + 1]
        BY <2>2, <4>2
      <4> QED
        BY <4>1, <4>3, <4>4
    <3> QED
      BY <2>1, <2>2, <3>1, <3>2 DEF ProvPosts
  <2>4. ASSUME NEW x, x # "PROV_CRED_FAIL", Queued(x)' PROVE Queued(x)
    <3>1. PICK i \in 1..Len(evq') : evq'[i] = x
      BY <2>4 DEF Queued
    <3>2. i \in 1..k /\ i # k
      BY <2>2, <2>3, <2>4, <3>1
    <3>3. i + 1 \in 1..Len(evq) /\ evq[i + 1] = x
      BY <2>2, <2>3, <3>1, <3>2
    <3> QED
      BY <3>3 DEF Queued
  <2>5. (Queued("STA_GOT_IP")' => Queued("STA_GOT_IP")) /\ (Queued("PROV_END")' => Queued("PROV_END"))
    BY <2>4
  <2> QED
    BY <1>4, <2>5 DEF HandleDisconnected, ProvAfter, esp_wifi_connect, AfterConnect
<1>5. CASE HandleFirstIp \/ HandleGotIp
  <2>1. Queued("STA_GOT_IP") /\ main_pc \notin {"create", "nvs", "led", "wifi", "sm"} /\ prov # "started"
    <3>1. evq # <<>> /\ Head(evq) = "STA_GOT_IP" /\ evq' = Tail(evq)
      BY <1>5 DEF HandleFirstIp, HandleGotIp, TakesAddress, Handles
    <3>2. Queued("STA_GOT_IP")
      BY <1>1, <3>1
    <3>3. evq # <<"PROV_START">>
      BY <3>1
    <3> QED
      BY <3>1, <3>2, <3>3 DEF LifeInv
  <2> QED
    BY <1>1, <1>5, <2>1 DEF HandleFirstIp, HandleGotIp, TakesAddress, Handles, ProvAfter
<1>6. CASE HostnameIsSet \/ SyncWait \/ StartMqtt \/ InitSensors
  BY <1>6 DEF HostnameIsSet, SyncWait, StartMqtt, InitSensors, Queued
<1> QED
  BY <1>2, <1>3, <1>4, <1>5, <1>6 DEF ByEventLoop, EventTask

LEMMA RadioKeepsProv == TypeInv /\ ProvInv /\ ByRadio => ProvInv'
<1> SUFFICES ASSUME TypeInv, ProvInv, ByRadio PROVE ProvInv'
  OBVIOUS
<1> USE DEF ProvInv, AddressInv, StoredInv, StoppedInv, BootedInv, ByRadio
<1>1. CASE WifiAssociates \/ SntpSync
  BY <1>1 DEF WifiAssociates, SntpSync, Queued
<1>2. ASSUME NEW e \in Events, evq' = Append(evq, e)
      PROVE  /\ Queued("STA_GOT_IP")' <=> Queued("STA_GOT_IP") \/ e = "STA_GOT_IP"
             /\ Queued("PROV_END")' <=> Queued("PROV_END") \/ e = "PROV_END"
  BY <1>2, QueuedAppend
<1>3. CASE DhcpLease
  <2>1. evq' = Append(evq, "STA_GOT_IP") /\ "STA_GOT_IP" \in Events
    BY <1>3 DEF DhcpLease, Events
  <2>2. (Queued("PROV_END")' <=> Queued("PROV_END"))
    BY <2>1, <1>2
  <2> QED
    BY <1>3, <2>2 DEF DhcpLease
<1>4. CASE WifiDrops
  <2>1. evq' = Append(evq, "STA_DISCONNECTED") /\ "STA_DISCONNECTED" \in Events
    BY <1>4 DEF WifiDrops, Events
  <2>2. (Queued("STA_GOT_IP")' <=> Queued("STA_GOT_IP")) /\ (Queued("PROV_END")' <=> Queued("PROV_END"))
    BY <2>1, <1>2
  <2> QED
    BY <1>4, <2>2 DEF WifiDrops
<1>5. CASE ProvEnds
  <2>1. evq' = Append(evq, "PROV_END") /\ "PROV_END" \in Events
    BY <1>5 DEF ProvEnds, Events
  <2>2. (Queued("STA_GOT_IP")' <=> Queued("STA_GOT_IP"))
    BY <2>1, <1>2
  <2> QED
    BY <1>5, <2>2 DEF ProvEnds
<1> QED
  BY <1>1, <1>3, <1>4, <1>5 DEF Radio

LEMMA PhoneKeepsProv == TypeInv /\ LifeInv /\ ProvInv /\ ByPhone => ProvInv'
<1> SUFFICES ASSUME TypeInv, LifeInv, ProvInv, ByPhone PROVE ProvInv'
  OBVIOUS
<1> USE DEF ProvInv, AddressInv, StoredInv, StoppedInv, BootedInv
<1>1. CASE UNCHANGED smVars /\ \E c \in {"good", "bad"} : PhoneSendsCredentials(c)
  <2>1. PICK c \in {"good", "bad"} : PhoneSendsCredentials(c)
    BY <1>1
  <2>2. /\ prov = "started" /\ prov' = "cred_recv" /\ evq' = Append(evq, "PROV_CRED_RECV")
        /\ sta_cfg' = c /\ (nvs' = "open" => creds' = c)
        /\ wifi' = AfterConnect(wifi) /\ UNCHANGED <<device_ip, phoneVars, nvs>>
    BY <2>1 DEF PhoneSendsCredentials, esp_wifi_connect, nvs_store
  <2>3. evq = <<>> \/ evq = <<"PROV_START">>
    BY <2>2 DEF LifeInv
  <2>4. ~Queued("STA_GOT_IP") /\ ~Queued("PROV_END")
    BY <2>3 DEF Queued
  <2>5. ~Queued("STA_GOT_IP")' /\ ~Queued("PROV_END")'
    BY <2>2, <2>4, QueuedAppend DEF Events
  <2>6. wifi' \notin {"associated", "up"} /\ bt # "released" /\ UNCHANGED <<bt, main_pc>>
    BY <1>1, <2>2 DEF LifeInv, AfterConnect
  <2> QED
    BY <2>2, <2>5, <2>6
<1>2. CASE PhoneAsksInfo
  BY <1>2 DEF PhoneAsksInfo, Queued
<1>3. CASE PhoneSaysOk
  BY <1>3 DEF PhoneSaysOk, EndpointAnswers, ProvRunning, Queued
<1> QED
  BY <1>1, <1>2, <1>3 DEF ByPhone

LEMMA ProvStep ==
  TypeInv /\ LifeInv /\ ProvInv /\ [Next]_vars => ProvInv'
<1> SUFFICES ASSUME TypeInv, LifeInv, ProvInv, [Next]_vars PROVE ProvInv'
  OBVIOUS
<1>1. CASE ByResetTask
  BY <1>1
  DEF ByResetTask, ResetTask, ResetSeesPress, ResetCounts, ResetIgnores, ResetErases, nvs_flash_erase,
      ProvInv, AddressInv, StoredInv, StoppedInv, BootedInv, Queued
<1>2. CASE ByAccessPoint \/ ByMqttTask \/ ByPublishTask \/ ByLedTask \/ ByUser \/ UNCHANGED vars
  <2>1. UNCHANGED <<evq, wifi, sta_cfg, prov, phoneVars, device_ip, main_pc, bt, nvsVars>>
    BY <1>2
    DEF ByAccessPoint, ApGoes, ApReturns, ByMqttTask, ByPublishTask, ByLedTask, ByUser, Press, Release,
        HoldTick, LedTask, vars
  <2> QED
    BY <2>1 DEF ProvInv, AddressInv, StoredInv, StoppedInv, BootedInv, Queued
<1>3. CASE Restart \/ PowerCycle
  BY <1>3
  DEF Restart, PowerCycle, Boots, PlatformReboots, SmReboots,
      ProvInv, AddressInv, StoredInv, StoppedInv, BootedInv, Queued
<1> QED
  BY <1>1, <1>2, <1>3, MainKeepsProv, EventLoopKeepsProv, RadioKeepsProv, PhoneKeepsProv DEF Next

(* Bluetooth is given up only by a boot that found credentials, or by the   *)
(* end of a provisioning, with credentials that a restart finds again       *)
(* unless the phone said OK before it was told an address.                  *)
THEOREM BluetoothFreedOnlyThen == Spec => []BluetoothFreedWhenProvisioned
<1>1. TypeInv /\ ProvInv => BluetoothFreedWhenProvisioned
  BY DEF ProvInv, AddressInv, StoredInv, StoppedInv, BootedInv, BluetoothFreedWhenProvisioned
<1>2. TypeInv /\ LifeInv /\ [Next]_vars => LifeInv'
  BY LifeStep DEF LifeGoal
<1>3. TypeInv /\ LifeInv /\ ProvInv /\ [Next]_vars => ProvInv'
  BY ProvStep
<1> QED
  BY <1>1, <1>2, <1>3, TypeInit, LifeInit, ProvInit, NextKeepsTypes, PTL DEF Spec
=============================================================================
