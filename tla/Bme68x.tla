--------------------------------- MODULE Bme68x ---------------------------------
(***************************************************************************)
(* The driver of the BME680 (bme68x.c), over I2C, and the chip as far as   *)
(* the driver can tell.                                                    *)
(*                                                                         *)
(* A function of the driver is a sequence of register transfers, each of   *)
(* which may fail, whether or not it has had its effect; nearly every step *)
(* is guarded by rslt == BME68X_OK.  Such a function is an operator that   *)
(* takes a state s of [chip, calib, rslt, data, faults] to the set of states *)
(* that may come of it, and Then puts two steps together.  The values that *)
(* are measured are left out (the compensation formulas are floating-point *)
(* arithmetic); a measurement is known by its number.                      *)
(***************************************************************************)
EXTENDS Naturals, Sequences

CONSTANTS
  MaxFaults,  (* transfers that fail                                       *)
  FirstIndex  (* where the chip's 8-bit measurement index starts           *)

ASSUME Bme68xAssumption == MaxFaults \in Nat /\ FirstIndex \in 0..255

Modes == {"sleep", "forced", "parallel"}
Results == {"OK", "COM_FAIL", "DEV_NOT_FOUND", "NO_NEW_DATA", "DEFINE_OP_MODE", "DEFINE_SHD_HEATR_DUR"}

Field == [new : BOOLEAN, index : 0..255, number : Nat]

Chip ==
  [mode : Modes, os : 0..5, heat : 0..255, shared : 0..255, gas : BOOLEAN,
   count : Nat, awake : BOOLEAN, fields : [0..2 -> Field]]

Driver == [chip : Chip, calib : BOOLEAN, rslt : Results, data : Seq(Field), faults : 0..MaxFaults]

(* os: oversampling of the three quantities; heat, shared: the registers of *)
(* the heating times; gas: the heater and the gas measurement are switched  *)
(* on; count: the measurements completed; awake: the registers of the       *)
(* configuration were once written while the chip was not asleep.           *)
NewChip ==
  [mode |-> "sleep", os |-> 0, heat |-> 0, shared |-> 0, gas |-> FALSE,
   count |-> 0, awake |-> FALSE,
   fields |-> [f \in 0..2 |-> [new |-> FALSE, index |-> 0, number |-> 0]]]

-----------------------------------------------------------------------------
(* The chip. *)

(* A measurement ends: in forced mode in field 0, after which the chip      *)
(* sleeps; otherwise the fields are filled in turn.                         *)
Measured(c) ==
  LET f == IF c.mode = "forced" THEN 0 ELSE c.count % 3
  IN [c EXCEPT !.count = @ + 1,
               !.mode = IF @ = "forced" THEN "sleep" ELSE @,
               !.fields[f] = [new |-> TRUE, index |-> (FirstIndex + c.count) % 256, number |-> c.count + 1]]

(* Reading the fields takes their mark of being new away. *)
Taken(field) == [field EXCEPT !.new = FALSE]

Read(c, F) ==
  [c EXCEPT !.fields = [f \in 0..2 |-> IF f \in F THEN Taken(c.fields[f]) ELSE c.fields[f]]]

-----------------------------------------------------------------------------
(* Transfers. *)

Failed(s, rslt) == [s EXCEPT !.rslt = rslt, !.faults = @ + 1]
Faulty(s, rslt) == IF s.faults < MaxFaults THEN {Failed(s, rslt)} ELSE {}

Arrived(s, e) == [s EXCEPT !.chip = e]

(* bme68x_get_regs, bme68x_set_regs: to the chip it is the change to e. *)
Transfer(s, e) ==
  {Arrived(s, e)} \cup Faulty(s, "COM_FAIL") \cup Faulty(Arrived(s, e), "COM_FAIL")

Looks(s) == Transfer(s, s.chip)

Then(S, F(_)) == UNION {IF s.rslt = "OK" THEN F(s) ELSE {s} : s \in S}

(* The caller does not look at the result. *)
Ignoring(S) == {[s EXCEPT !.rslt = "OK"] : s \in S}

Configures(s, e) == Transfer(s, [e EXCEPT !.awake = @ \/ s.chip.mode # "sleep"])

-----------------------------------------------------------------------------
(* bme68x_set_op_mode: the chip is polled until it sleeps. *)
Asleep(s) ==
  Then(Looks(s), LAMBDA t :
    IF t.chip.mode = "sleep" THEN {t}
    ELSE Then(Transfer(t, [t.chip EXCEPT !.mode = "sleep"]), Looks))

bme68x_set_op_mode(s, mode) ==
  Then(Asleep(s), LAMBDA t : IF mode = "sleep" THEN {t} ELSE Transfer(t, [t.chip EXCEPT !.mode = mode]))

(* Mutant: the value is taken as it is. *)
unchecked(os) == os

boundary_check(os) == IF os > 5 THEN 5 ELSE os

(* Mutant: the chip is not put to sleep first. *)
set_conf_awake(s, os) == Then(Looks(s), LAMBDA t : Configures(t, [t.chip EXCEPT !.os = boundary_check(os)]))

(* The mode that the chip was in is set again. *)
bme68x_set_conf(s, os) ==
  Then(Looks(s), LAMBDA t :
    Then(Then(Then(Asleep(t), Looks), LAMBDA u : Configures(u, [u.chip EXCEPT !.os = boundary_check(os)])),
      LAMBDA u : IF t.chip.mode = "sleep" THEN {u} ELSE bme68x_set_op_mode(u, t.chip.mode)))

(* Registers of six bits and two for the power of four that they count in. *)
Unit == <<1, 4, 16, 64>>
UnitOf(v) == Unit[v \div 64 + 1]
Decoded(v) == (v % 64) * UnitOf(v)

(* Divided by four until it fits. *)
FitsFirst(n, max, k) == n \div Unit[k + 1] <= max /\ \A j \in 1..k : n \div Unit[j] > max

Encoded(n, max) == LET f == CHOOSE k \in 0..3 : FitsFirst(n, max, k) IN n \div Unit[f + 1] + 64 * f

(* Mutant: 0x40 is taken for six bits. *)
gas_wait_64(dur) == IF dur >= 4032 THEN 255 ELSE Encoded(dur, 64)

calc_gas_wait(dur) == IF dur >= 4032 THEN 255 ELSE Encoded(dur, 63)

(* In steps of 0.477 ms. *)
calc_heatr_dur_shared(dur) == IF dur >= 1923 THEN 255 ELSE Encoded((dur * 1000) \div 477, 63)

(* set_conf of the heater; a profile of one. *)
set_conf(s, mode, dur) ==
  CASE mode = "forced" ->
         Then(Configures(s, s.chip), LAMBDA t : Configures(t, [t.chip EXCEPT !.heat = calc_gas_wait(dur)]))
    [] mode = "parallel" /\ dur = 0 -> {[s EXCEPT !.rslt = "DEFINE_SHD_HEATR_DUR"]}
    [] mode = "parallel" /\ dur # 0 ->
         Then(Then(Configures(s, [s.chip EXCEPT !.shared = calc_heatr_dur_shared(dur)]),
           LAMBDA t : Configures(t, t.chip)),
           LAMBDA t : Configures(t, [t.chip EXCEPT !.heat = dur % 256]))
    [] OTHER -> {[s EXCEPT !.rslt = "DEFINE_OP_MODE"]}

(* The set-points, then the switch; the chip is left asleep. *)
bme68x_set_heatr_conf(s, mode, dur) ==
  Then(Then(Then(Asleep(s),
    LAMBDA t : set_conf(t, mode, dur)),
    Looks),
    LAMBDA t : Configures(t, [t.chip EXCEPT !.gas = TRUE]))

(* In units of a measuring cycle, without the constant shares. *)
os_to_meas_cycles == <<0, 1, 2, 4, 8, 16>>
bme68x_get_meas_dur(os) == os_to_meas_cycles[boundary_check(os) + 1]

-----------------------------------------------------------------------------
bme68x_soft_reset(s) == Transfer(s, [NewChip EXCEPT !.count = s.chip.count, !.awake = s.chip.awake])

(* The reset may fail unnoticed.  After the identity of the chip and its    *)
(* variant come the coefficients, in three pieces.                          *)
bme68x_init(s) ==
  Then(Then(Then(Then(Then(Then(Ignoring(bme68x_soft_reset(s)),
    LAMBDA t : Looks(t) \cup Faulty(t, "DEV_NOT_FOUND")),
    Looks), Looks), Looks), Looks),
    LAMBDA t : {[t EXCEPT !.calib = TRUE]})

-----------------------------------------------------------------------------
(* Reading the data. *)

(* read_field_data: the field, and three registers when it is new. *)
FieldRead(s) ==
  LET f == s.chip.fields[0]
  IN Then(Transfer(s, Read(s.chip, {0})), LAMBDA t :
       IF ~f.new THEN {[t EXCEPT !.rslt = "NO_NEW_DATA"]}
       ELSE Then(Then(Then(Looks(t), Looks), Looks), LAMBDA u : {[u EXCEPT !.data = <<f>>]}))

(* It is tried five times, 10 ms apart; a measurement may end in between. *)
read_field_data(s) ==
  UNION {IF t.rslt = "NO_NEW_DATA"
         THEN {t} \cup IF t.chip.mode = "forced"
                       THEN FieldRead([t EXCEPT !.rslt = "OK", !.chip = Measured(@)]) ELSE {}
         ELSE {t} : t \in FieldRead(s)}

(* Mutant: the distance of two is taken for an overflow. *)
SwapFar(a, b) ==
  \/ a.new /\ b.new /\ ((a.index < b.index + 2 /\ b.index < a.index) \/ b.index > a.index + 2)
  \/ ~a.new /\ b.new

(* sort_sensor_data: -3 < diff < 0 or diff > 2, and new ones first. *)
Swap(a, b) ==
  \/ a.new /\ b.new /\ ((a.index < b.index + 3 /\ b.index < a.index) \/ b.index > a.index + 2)
  \/ ~a.new /\ b.new

Compared(d, i, j) == IF Swap(d[i], d[j]) THEN [d EXCEPT ![i] = d[j], ![j] = d[i]] ELSE d

Sorted(d) == Compared(Compared(Compared(d, 1, 2), 1, 3), 2, 3)

read_all_field_data(s) ==
  LET c == s.chip.fields
  IN Then(Then(Transfer(s, Read(s.chip, 0..2)), Looks), LAMBDA t :
       {[t EXCEPT !.data = Sorted(<<c[0], c[1], c[2]>>),
                  !.rslt = IF \A f \in 0..2 : ~c[f].new THEN "NO_NEW_DATA" ELSE @]})

bme68x_get_data(s, mode) ==
  CASE mode = "forced" -> read_field_data(s)
    [] mode = "parallel" -> read_all_field_data(s)
    [] OTHER -> {[s EXCEPT !.rslt = "DEFINE_OP_MODE"]}
=============================================================================
