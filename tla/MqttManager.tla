----------------------------- MODULE MqttManager -----------------------------
(***************************************************************************)
(* mqtt_manager.c and the sensor manager it reads: the client handle, the  *)
(* handler that runs in the MQTT client's task, and the publish task that  *)
(* the handler creates on the first connection and that lives until the    *)
(* next restart.                                                           *)
(*                                                                         *)
(* The values read are abstracted to what the properties tell apart:       *)
(* whether the sensors were set up and the clock was set when they were    *)
(* read, and what became of the message.                                   *)
(***************************************************************************)
EXTENDS Naturals, LedManager

CONSTANT PubRetries   (* attempts of the publish task's wait for the clock *)

ASSUME PubRetriesAssumption == PubRetries \in Nat \ {0}

VARIABLES
  client,              (* the client handle and whether it was started     *)
  mqtt_up,             (* is the client connected to the broker            *)
  publish_task_handle, (* is the handle non-NULL                           *)
  publishers,          (* how many publish tasks exist                     *)
  pub_pc,              (* where the publish task is                        *)
  pub_retry,           (* its attempts to see the clock set                *)
  sensors_ready,       (* has sensor_manager_init completed                *)
  sample,              (* what the last reading was taken with             *)
  delivery             (* what the last publish call did                   *)

sensorVars == <<sensors_ready>>
pubVars    == <<publish_task_handle, publishers, pub_pc, pub_retry>>
mqttVars   == <<client, mqtt_up, pubVars, sensorVars, sample, delivery>>

Samples == [ready : BOOLEAN, stamped : BOOLEAN]

MqttTypeOK ==
  /\ client \in {"NULL", "started"}
  /\ mqtt_up \in BOOLEAN
  /\ publish_task_handle \in BOOLEAN
  /\ publishers \in Nat
  /\ pub_pc \in {"absent", "wait_delay", "wait_check", "read", "publish", "period"}
  /\ pub_retry \in 0..PubRetries
  /\ sensors_ready \in BOOLEAN
  /\ sample \in Samples
  /\ delivery \in {"none", "sent", "stored", "failed"}

MqttBoot ==
  /\ client = "NULL"
  /\ mqtt_up = FALSE
  /\ publish_task_handle = FALSE
  /\ publishers = 0
  /\ pub_pc = "absent"
  /\ pub_retry = 0
  /\ sensors_ready = FALSE
  /\ sample = [ready |-> TRUE, stamped |-> FALSE]
  /\ delivery = "none"

MqttReboots ==
  /\ client' = "NULL"
  /\ mqtt_up' = FALSE
  /\ publish_task_handle' = FALSE
  /\ publishers' = 0
  /\ pub_pc' = "absent"
  /\ pub_retry' = 0
  /\ sensors_ready' = FALSE
  /\ sample' = [ready |-> TRUE, stamped |-> FALSE]
  /\ delivery' = "none"

-----------------------------------------------------------------------------
(* The interface the state machine calls. *)

(* esp_mqtt_client_start; on a started client it fails and changes nothing. *)
mqtt_manager_connect ==
  /\ client' = "started"
  /\ UNCHANGED <<mqtt_up, pubVars, sensorVars, sample, delivery>>

sensor_manager_init ==
  /\ sensors_ready' = TRUE
  /\ UNCHANGED <<client, mqtt_up, pubVars, sample, delivery>>

-----------------------------------------------------------------------------
(* mqtt_event_handler.  Only CONNECTED changes the state of the program;   *)
(* xTaskCreate leaves the handle alone when it runs out of memory.         *)

NoPublisher == ~publish_task_handle

PublishTaskEntry == "wait_delay"

MqttConnected(reachable) ==
  /\ client = "started" /\ ~mqtt_up /\ reachable
  /\ mqtt_up' = TRUE
  /\ \/ /\ NoPublisher
        /\ publish_task_handle' = TRUE
        /\ publishers' = publishers + 1
        /\ pub_pc' = PublishTaskEntry
        /\ pub_retry' = 0
     \/ UNCHANGED pubVars
  /\ UNCHANGED <<client, sensorVars, sample, delivery, ledVars>>

MqttDisconnected ==
  /\ mqtt_up
  /\ mqtt_up' = FALSE
  /\ UNCHANGED <<client, pubVars, sensorVars, sample, delivery, ledVars>>

-----------------------------------------------------------------------------
(* mqtt_publish_task. *)

(* vTaskDelay(1000) of the wait for the clock is over. *)
PubDelayEnds ==
  /\ pub_pc = "wait_delay"
  /\ pub_pc' = "wait_check"
  /\ UNCHANGED <<client, mqtt_up, publish_task_handle, publishers, pub_retry,
                 sensorVars, sample, delivery, ledVars>>

(* now starts at 0, so the first round always sleeps; after that the task  *)
(* waits until the clock is set or its attempts are used up.               *)
PubChecksClock(clock_set) ==
  /\ pub_pc = "wait_check"
  /\ pub_retry' = pub_retry + 1
  /\ pub_pc' = IF clock_set \/ pub_retry + 1 >= PubRetries THEN "read" ELSE "wait_delay"
  /\ UNCHANGED <<client, mqtt_up, publish_task_handle, publishers,
                 sensorVars, sample, delivery, ledVars>>

(* Mutant: only a connected client gets readings. *)
PubReadsConnected(clock_set) ==
  /\ pub_pc = "read"
  /\ client # "NULL" /\ mqtt_up
  /\ sample' = [ready |-> sensors_ready, stamped |-> clock_set]
  /\ pub_pc' = "publish"
  /\ UNCHANGED <<client, mqtt_up, publish_task_handle, publishers, pub_retry,
                 sensorVars, delivery, ledVars>>

(* sensor_manager_read *)
PubReads(clock_set) ==
  /\ pub_pc = "read"
  /\ client # "NULL"
  /\ sample' = [ready |-> sensors_ready, stamped |-> clock_set]
  /\ pub_pc' = "publish"
  /\ UNCHANGED <<client, mqtt_up, publish_task_handle, publishers, pub_retry,
                 sensorVars, delivery, ledVars>>

(* esp_mqtt_client_publish with QoS 1: sent, kept in the outbox of a       *)
(* disconnected client, or refused.  The result is not looked at.          *)
PubPublishes ==
  /\ pub_pc = "publish"
  /\ delivery' \in IF mqtt_up THEN {"sent", "failed"} ELSE {"stored", "failed"}
  /\ led_manager_set_state("LED_MODE_MQTT_SENDING")
  /\ pub_pc' = "period"
  /\ UNCHANGED <<client, mqtt_up, publish_task_handle, publishers, pub_retry,
                 sensorVars, sample>>

(* vTaskDelay(5000) between two readings. *)
PubPeriodEnds ==
  /\ pub_pc = "period"
  /\ pub_pc' = "read"
  /\ UNCHANGED <<client, mqtt_up, publish_task_handle, publishers, pub_retry,
                 sensorVars, sample, delivery, ledVars>>

PublishTask(clock_set) ==
  \/ PubChecksClock(clock_set)
  \/ PubReads(clock_set)
  \/ PubPublishes
  \/ PubPeriodEnds
=============================================================================
