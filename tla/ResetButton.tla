----------------------------- MODULE ResetButton -----------------------------
(***************************************************************************)
(* The reset task of main.c: polls the button, counts how long it is held  *)
(* and, when the count completes, erases the stored credentials and        *)
(* restarts the device.                                                    *)
(*                                                                         *)
(* Time is counted in units of the loop's increment (500 ms): HoldTarget   *)
(* is RESET_HOLD_MS in that unit, and held is the time the user has really *)
(* kept the button down, which the program cannot see.  The counting loop  *)
(* of main.c contains no delay, so nothing makes an iteration wait for     *)
(* HoldTick.                                                               *)
(***************************************************************************)
EXTENDS Naturals, LedManager, Nvs

CONSTANT HoldTarget   (* RESET_HOLD_MS / 500 *)

ASSUME HoldTargetAssumption == HoldTarget \in Nat \ {0}

VARIABLES
  button,     (* the level of RESET_BUTTON_GPIO, active low                *)
  held,       (* how long the button has been down, up to HoldTarget       *)
  reset_pc,   (* where the task is; "absent" before it is created          *)
  hold_time   (* the local counter of a press                              *)

resetVars == <<button, held, reset_pc, hold_time>>

ResetTypeOK ==
  /\ button \in {"up", "down"}
  /\ held \in 0..HoldTarget
  /\ reset_pc \in {"absent", "poll", "hold", "erased"}
  /\ hold_time \in 0..HoldTarget

ResetInit ==
  /\ button = "up"
  /\ held = 0
  /\ reset_pc = "absent"
  /\ hold_time = 0

-----------------------------------------------------------------------------
(* The user and the passing of time. *)

Press ==
  /\ button = "up"
  /\ button' = "down"
  /\ held' = 0
  /\ UNCHANGED <<reset_pc, hold_time, ledVars, nvsVars>>

Release ==
  /\ button = "down"
  /\ button' = "up"
  /\ held' = 0
  /\ UNCHANGED <<reset_pc, hold_time, ledVars, nvsVars>>

HoldTick ==
  /\ button = "down"
  /\ held < HoldTarget
  /\ held' = held + 1
  /\ UNCHANGED <<button, reset_pc, hold_time, ledVars, nvsVars>>

-----------------------------------------------------------------------------
(* reset_button_task. *)

CreateResetTask ==
  /\ reset_pc' = "poll"
  /\ UNCHANGED <<button, held, hold_time>>

ResetSeesPress ==
  /\ reset_pc = "poll"
  /\ button = "down"
  /\ led_manager_set_state("LED_MODE_RESET")
  /\ hold_time' = 0
  /\ reset_pc' = "hold"
  /\ UNCHANGED <<button, held, nvsVars>>

(* Mutant: hold_time is declared inside the counting loop. *)
ResetCountsAfresh ==
  /\ reset_pc = "hold"
  /\ button = "down"
  /\ hold_time < HoldTarget
  /\ hold_time' = 0
  /\ UNCHANGED <<button, held, reset_pc, ledVars, nvsVars>>

ResetCounts ==
  /\ reset_pc = "hold"
  /\ button = "down"
  /\ hold_time < HoldTarget
  /\ hold_time' = hold_time + 1
  /\ UNCHANGED <<button, held, reset_pc, ledVars, nvsVars>>

(* The loop ends on a release seen in time: the press is ignored. *)
ResetIgnores ==
  /\ reset_pc = "hold"
  /\ button = "up"
  /\ hold_time < HoldTarget
  /\ reset_pc' = "poll"
  /\ UNCHANGED <<button, held, hold_time, ledVars, nvsVars>>

(* Mutant: the restart comes without the erasure. *)
ResetKeeps ==
  /\ reset_pc = "hold"
  /\ hold_time >= HoldTarget
  /\ reset_pc' = "erased"
  /\ UNCHANGED <<button, held, hold_time, ledVars, nvsVars>>

(* The count is complete; the button itself is no longer looked at. *)
ResetErases ==
  /\ reset_pc = "hold"
  /\ hold_time >= HoldTarget
  /\ nvs_flash_erase
  /\ reset_pc' = "erased"
  /\ UNCHANGED <<button, held, hold_time, ledVars>>

ResetTask == ResetSeesPress \/ ResetCounts \/ ResetIgnores \/ ResetErases
=============================================================================
