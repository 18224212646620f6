------------------------------ MODULE LedManager ------------------------------
(***************************************************************************)
(* The status LED: led_manager.c.  One FreeRTOS task blinks the LED after  *)
(* the pattern of current_mode, a plain static variable that the reset     *)
(* task, the state machine and the MQTT publisher write without a lock     *)
(* through led_manager_set_state, and that the LED task itself clears      *)
(* after the single blink of a transmission.                               *)
(*                                                                         *)
(* A step of the LED task ends where the task gives up the processor, in   *)
(* vTaskDelay.  Delay lengths are abstracted: a delay ends eventually.     *)
(***************************************************************************)

VARIABLES
  current_mode, (* the requested pattern                                   *)
  led_level,    (* the level last written to LED_PIN                       *)
  led_pc        (* where the LED task waits; "absent" before it is created *)

ledVars == <<current_mode, led_level, led_pc>>

LedModes == {"LED_MODE_OFF", "LED_MODE_MQTT_SENDING",
             "LED_MODE_WIFI_CONNECTING", "LED_MODE_RESET"}

BlinkModes == {"LED_MODE_WIFI_CONNECTING", "LED_MODE_RESET"}

LedTypeOK ==
  /\ current_mode \in LedModes
  /\ led_level \in {0, 1}
  /\ led_pc \in {"absent", "switch", "off_delay", "send_on", "blink_on", "blink_off"}

LedInit ==
  /\ current_mode = "LED_MODE_OFF"
  /\ led_level = 0
  /\ led_pc = "absent"

LedReboots ==
  /\ current_mode' = "LED_MODE_OFF"
  /\ led_level' = 0
  /\ led_pc' = "absent"

-----------------------------------------------------------------------------
(* The interface the other components call. *)

led_manager_init ==
  /\ led_level' = 0
  /\ led_pc' = "switch"
  /\ UNCHANGED current_mode

led_manager_set_state(m) ==
  /\ current_mode' = m
  /\ UNCHANGED <<led_level, led_pc>>

-----------------------------------------------------------------------------
(* led_task: the switch at the head of the loop, then the end of each delay. *)

LedSwitchOff ==
  /\ led_pc = "switch"
  /\ current_mode = "LED_MODE_OFF"
  /\ led_level' = 0
  /\ led_pc' = "off_delay"
  /\ UNCHANGED current_mode

LedSwitchSending ==
  /\ led_pc = "switch"
  /\ current_mode = "LED_MODE_MQTT_SENDING"
  /\ led_level' = 1
  /\ led_pc' = "send_on"
  /\ UNCHANGED current_mode

LedSwitchBlink ==
  /\ led_pc = "switch"
  /\ current_mode \in BlinkModes
  /\ led_level' = 1
  /\ led_pc' = "blink_on"
  /\ UNCHANGED current_mode

(* Mutant: the second gpio_set_level of the pattern is forgotten. *)
LedBlinkStaysLit ==
  /\ led_pc = "blink_on"
  /\ led_pc' = "blink_off"
  /\ UNCHANGED <<current_mode, led_level>>

LedBlinkDark ==
  /\ led_pc = "blink_on"
  /\ led_level' = 0
  /\ led_pc' = "blink_off"
  /\ UNCHANGED current_mode

(* The delays at the end of the OFF and of the blinking patterns. *)
LedNextRound ==
  /\ led_pc \in {"off_delay", "blink_off"}
  /\ led_pc' = "switch"
  /\ UNCHANGED <<current_mode, led_level>>

(* The blink of a transmission ends: the mode is cleared whatever it has   *)
(* become during the 200 ms of the delay.                                  *)
LedSendingDone ==
  /\ led_pc = "send_on"
  /\ led_level' = 0
  /\ current_mode' = "LED_MODE_OFF"
  /\ led_pc' = "switch"

LedTask ==
  \/ LedSwitchOff
  \/ LedSwitchSending
  \/ LedSwitchBlink
  \/ LedBlinkDark
  \/ LedNextRound
  \/ LedSendingDone
=============================================================================
