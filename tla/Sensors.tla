-------------------------------- MODULE Sensors --------------------------------
(***************************************************************************)
(* The sensors of the device: the publish task's cycle of readings         *)
(* (sensor_manager.c) with the dust sensor's pulses and the BME680's       *)
(* forced measurement (BME680Sensor.c) over the chip's driver, and for the *)
(* driver's other modes a client that calls its functions in any order.    *)
(* Transfers fail, and the controller restarts while the chip keeps its    *)
(* registers and goes on with what it was doing.                           *)
(*                                                                         *)
(* A value is known by where it comes from: a BME680 reading by the number *)
(* of its measurement, a dust sample by the number of its cycle.           *)
(***************************************************************************)
EXTENDS Bme68x

CONSTANTS
  MaxCycles, MaxRestarts, MaxCount,
  Durations,  (* heating times that a client asks for, in ms               *)
  Pulses      (* DUST_NUM_SAMPLES                                          *)

ASSUME SensorsAssumption ==
  /\ MaxCycles \in Nat /\ MaxRestarts \in Nat /\ MaxCount \in Nat /\ Pulses \in Nat \ {0}
  /\ Durations \subseteq Nat /\ \A d \in Durations : d < 65536

VARIABLES
  client,    (* who uses the driver: "app", or "any" for a test            *)
  state,     (* the driver and the chip, see Bme68x                        *)
  ram,       (* the static conf and heatr_conf of BME680Sensor.c           *)
  phase,     (* where the cycle is                                         *)
  reading,   (* the last reading: valid, calibrated, and the number of the *)
             (* last measurement delivered                                 *)
  dust,      (* the cycles that the last dust reading's samples come from  *)
  cycle, restarts,
  sound,     (* the sensors were set up without a failed transfer          *)
  mark,      (* when the cycle began: the faults, the measurements, and    *)
             (* the one that lay in field 0 undelivered, or 0              *)
  asked      (* the heating time that a client has set last                *)

vars == <<client, state, ram, phase, reading, dust, cycle, restarts, sound, mark, asked>>

Unset == [os |-> 0, heat |-> 0]

TypeOK ==
  /\ client \in {"app", "any"}
  /\ state \in Driver
  /\ ram \in [os : {0, 4}, heat : {0, 150}]
  /\ phase \in {"boot", "set", "idle", "triggered", "waited"}
  /\ reading \in [valid : BOOLEAN, calib : BOOLEAN, number : 0..state.chip.count]
  /\ dust \in SUBSET (0..MaxCycles)
  /\ cycle \in 0..MaxCycles /\ restarts \in 0..MaxRestarts /\ sound \in BOOLEAN
  /\ asked \in [mode : Modes \cup {"none"}, dur : Durations \cup {0}]
  /\ mark \in [faults : 0..MaxFaults, count : Nat, left : Nat]

Init ==
  /\ client \in {"app", "any"}
  /\ state = [chip |-> NewChip, calib |-> FALSE, rslt |-> "OK", data |-> <<>>, faults |-> 0]
  /\ ram = Unset /\ phase = "boot"
  /\ reading = [valid |-> FALSE, calib |-> FALSE, number |-> 0] /\ dust = {}
  /\ cycle = 0 /\ restarts = 0 /\ sound = FALSE
  /\ mark = [faults |-> 0, count |-> 0, left |-> 0] /\ asked = [mode |-> "none", dur |-> 0]

AppDoes(from, to) == client = "app" /\ phase \in from /\ phase' = to

-----------------------------------------------------------------------------
(* bme680_sensor_init, and sensor_manager_init does not ask how it ended.   *)
sensor_manager_init ==
  /\ AppDoes({"boot"}, "set")
  /\ \E s \in bme68x_init([state EXCEPT !.calib = FALSE, !.rslt = "OK"]) :
       IF s.rslt # "OK" THEN state' = s /\ ram' = Unset /\ sound' = FALSE
       ELSE \E t \in Ignoring(bme68x_set_conf(s, 4)) :
            \E u \in Ignoring(bme68x_set_heatr_conf(t, "forced", 150)) :
              /\ state' = u
              /\ ram' = [os |-> 4, heat |-> 150]
              /\ sound' = (u.faults = state.faults)
  /\ UNCHANGED <<client, reading, dust, cycle, restarts, mark, asked>>

(* sensor_manager_read begins with the dust sensor.  Where the converter    *)
(* fails, raw still holds the sample before: one of this cycle, or zero.    *)
dust_sensor_read(ok) ==
  {IF \E j \in 1..i : ok[j] THEN cycle + 1 ELSE 0 : i \in 1..Pulses}

Undelivered(c) == IF c.fields[0].new THEN c.fields[0].number ELSE 0

(* bme680_sensor_read starts a measurement, whatever comes of it. *)
ReadTriggers ==
  /\ AppDoes({"set", "idle"}, "triggered")
  /\ cycle < MaxCycles
  /\ \E ok \in [1..Pulses -> BOOLEAN] : dust' = dust_sensor_read(ok)
  /\ \E s \in bme68x_set_op_mode([state EXCEPT !.rslt = "OK"], "forced") : state' = s
  /\ mark' = [faults |-> state.faults, count |-> state.chip.count, left |-> Undelivered(state.chip)]
  /\ UNCHANGED <<client, ram, reading, cycle, restarts, sound, asked>>

Heating == IF state.chip.gas THEN Decoded(state.chip.heat) ELSE 0

(* Mutant: the time of the heater is left out. *)
WaitsForCycles == bme68x_get_meas_dur(ram.os) >= bme68x_get_meas_dur(state.chip.os) /\ Heating = 0

(* What the static configuration says is long enough for what the chip was  *)
(* told.                                                                    *)
WaitsLong ==
  /\ bme68x_get_meas_dur(ram.os) >= bme68x_get_meas_dur(state.chip.os)
  /\ ram.heat >= Heating

(* The 183 ms are cut to 18 ticks of 10 ms, of which the first is a part:   *)
(* the measurement may have ended by then, or still run.                    *)
ReadWaits ==
  /\ AppDoes({"triggered"}, "waited")
  /\ \/ state.chip.mode = "forced" /\ state' = [state EXCEPT !.chip = Measured(@)]
     \/ UNCHANGED state
  /\ UNCHANGED <<client, ram, reading, dust, cycle, restarts, sound, mark, asked>>

(* The five tries of read_field_data, a tick apart, last longer than what   *)
(* the wait was cut by.                                                     *)
TriesLast(s) == WaitsLong => ~(s.rslt = "NO_NEW_DATA" /\ s.chip.mode = "forced")

(* Mutant: the reading of the cycle before is returned in place of none. *)
KeptReading(s) ==
  [valid |-> s.rslt = "OK" \/ reading.valid, calib |-> s.calib,
   number |-> IF s.rslt = "OK" THEN s.data[1].number ELSE reading.number]

Reading(s) ==
  [valid |-> s.rslt = "OK", calib |-> s.calib,
   number |-> IF s.rslt = "OK" THEN s.data[1].number ELSE reading.number]

(* And fetches it; an invalid reading is published as zeros. *)
ReadFetches ==
  /\ AppDoes({"waited"}, "idle")
  /\ \E s \in bme68x_get_data([state EXCEPT !.rslt = "OK"], "forced") :
       /\ TriesLast(s)
       /\ state' = s
       /\ reading' = Reading(s)
  /\ cycle' = cycle + 1
  /\ UNCHANGED <<client, ram, dust, restarts, sound, mark, asked>>

(* A minute until the next cycle. *)
MinutePasses ==
  /\ client = "app" /\ phase \in {"set", "idle"} /\ state.chip.mode = "forced"
  /\ state' = [state EXCEPT !.chip = Measured(@)]
  /\ UNCHANGED <<client, ram, phase, reading, dust, cycle, restarts, sound, mark, asked>>

(* The controller restarts, at any point; the chip is not switched off. *)
Restarts ==
  /\ client = "app" /\ restarts < MaxRestarts /\ restarts' = restarts + 1
  /\ phase # "boot" /\ phase' = "boot"
  /\ ram' = Unset /\ sound' = FALSE
  /\ UNCHANGED <<client, state, reading, dust, cycle, mark, asked>>

-----------------------------------------------------------------------------
(* Any use of the driver, without forced measurements. *)
AnyDoes ==
  /\ client = "any"
  /\ UNCHANGED <<client, ram, phase, reading, dust, cycle, restarts, sound, mark>>

Fresh == [state EXCEPT !.rslt = "OK", !.data = <<>>]

AnyConfigures(os) == AnyDoes /\ state' \in bme68x_set_conf(Fresh, os) /\ UNCHANGED asked
AnyHeats(mode, dur) ==
  /\ AnyDoes
  /\ state' \in bme68x_set_heatr_conf(Fresh, mode, dur)
  /\ asked' = IF state'.rslt = "OK" THEN [mode |-> mode, dur |-> dur] ELSE [mode |-> "none", dur |-> 0]
AnySets(mode) == AnyDoes /\ state' \in bme68x_set_op_mode(Fresh, mode) /\ UNCHANGED asked
AnyGets(mode) == AnyDoes /\ state' \in bme68x_get_data(Fresh, mode) /\ UNCHANGED asked
AnyMeasures ==
  /\ AnyDoes /\ state.chip.mode # "sleep" /\ state.chip.count < MaxCount
  /\ state' = [state EXCEPT !.chip = Measured(@)]
  /\ UNCHANGED asked

-----------------------------------------------------------------------------
App == sensor_manager_init \/ ReadTriggers \/ ReadWaits \/ ReadFetches \/ MinutePasses \/ Restarts

Any ==
  \/ AnyMeasures
  \/ \E mode \in Modes : \E dur \in Durations : AnyHeats(mode, dur)
  \/ \E os \in {0, 4, 7} : AnyConfigures(os)
  \/ \E mode \in Modes \ {"forced"} : AnySets(mode)
  \/ \E mode \in Modes : AnyGets(mode)

Next == App \/ Any

Spec == Init /\ [][Next]_vars

-----------------------------------------------------------------------------
(* A cycle without a failed transfer, after a sound set-up, delivers a      *)
(* reading, with the coefficients of the chip: the measurement that it has  *)
(* started itself or, when one was left in the chip undelivered (a fetch    *)
(* had failed), that one.  It never delivers another, and never nothing.    *)
(* The dust samples of a cycle are its own, or the zero that raw begins     *)
(* with where the converter failed; they are never those of a minute ago.   *)
CycleIsFresh ==
  /\ client = "app" /\ phase = "idle" /\ sound /\ mark.faults = state.faults
       => /\ reading.valid /\ reading.calib
          /\ \/ reading.number = mark.count + 1
             \/ reading.number = mark.left /\ mark.left # 0
  /\ phase \in {"triggered", "waited"} => dust \subseteq {0, cycle + 1}

(* "Wait for measurement to complete", then "Fetch data" (BME680Sensor.c:122 *)
(* and 128): a cycle without a failed transfer delivers its own measurement. *)
(* It does not: the wait is shorter than the measurement, so that a field   *)
(* left from an earlier cycle is taken for the new one, and what the cycle  *)
(* measures is left for the next.                                           *)
CycleIsOwn ==
  client = "app" /\ phase = "idle" /\ sound /\ mark.faults = state.faults
    => reading.number = mark.count + 1

(* A measurement is delivered once: failed transfers and restarts lose      *)
(* readings and delay them, and never repeat one.                           *)
DeliveredOnce ==
  [][cycle' > cycle /\ reading'.valid => reading'.number > reading.number]_vars

(* In parallel mode the caller gets the new fields first, the oldest of     *)
(* them at the head, when the 8-bit index of the chip wraps as well.        *)
SortedByAge ==
  \A i, j \in 1..Len(state.data) :
    i < j /\ state.data[j].new => state.data[i].new /\ state.data[i].number < state.data[j].number

(* "Configure only in the sleep mode" (bme68x.c:324), whatever mode the     *)
(* chip was in and whichever transfer failed.                               *)
WrittenAsleep == ~state.chip.awake

(* The heating time that is asked for survives its packing into eight bits: *)
(* in forced mode the heater heats no longer than asked, in parallel mode   *)
(* by less than one step of 1.908 ms longer (1923 ms become 1923.264), and  *)
(* less than one unit of its register too short, up to what the register    *)
(* can express.                                                             *)
HeatsAsAsked ==
  CASE asked.mode = "forced" ->
         LET v == state.chip.heat
         IN Decoded(v) <= asked.dur /\ (v < 255 => asked.dur < Decoded(v) + UnitOf(v))
    [] asked.mode = "parallel" ->
         LET v == state.chip.shared
         IN /\ 477 * Decoded(v) <= 1000 * asked.dur + 477 * 4
            /\ v < 255 => 1000 * asked.dur < 477 * (Decoded(v) + UnitOf(v))
    [] OTHER -> TRUE
=============================================================================
