----------------------------- MODULE SensorsProofs -----------------------------
(***************************************************************************)
(* Proofs about the sensors: the types, the four invariants of Sensors and *)
(* its action property, for every number of faults, cycles and restarts,   *)
(* every heating time and every value that the chip's index starts at.     *)
(*                                                                         *)
(* A function of the driver is a set of outcomes put together by Then, so  *)
(* each has a lemma that says of any outcome what it kept, what it changed *)
(* when it reports OK, and that it reports OK when no transfer failed.     *)
(***************************************************************************)
EXTENDS Sensors, TLAPS

-----------------------------------------------------------------------------
(* The inductive invariant. *)

(* What the set-up has told the chip is what the configuration in the       *)
(* controller's memory says.                                                *)
SetUp ==
  sound => /\ state.calib = TRUE
           /\ ram = [os |-> 4, heat |-> 150]
           /\ state.chip.os = 4 /\ state.chip.heat = calc_gas_wait(150)

(* Field 0, if it is new, holds a measurement later than the r-th. *)
Unread(c, r) == c.fields[0].new => r < c.fields[0].number /\ c.fields[0].number <= c.count

(* What is not delivered yet is later than what was. *)
FieldInv == Len(state.data) <= 1 /\ asked.mode = "none" /\ Unread(state.chip, reading.number)

MarkInv ==
  /\ mark.count <= state.chip.count /\ mark.faults <= state.faults
  /\ phase \in {"triggered", "waited"} => cycle < MaxCycles /\ dust \subseteq {0, cycle + 1}

(* A cycle that no transfer failed in, after a set-up that none failed in,  *)
(* goes from a measurement that is started, which may end during the wait   *)
(* or during the tries, to a reading of it or of what was left in field 0.  *)
Undisturbed == sound /\ mark.faults = state.faults

Triggered ==
  /\ state.chip.mode = "forced" /\ state.chip.count = mark.count
  /\ state.chip.fields[0].new => mark.left = state.chip.fields[0].number

MeasuredOne ==
  /\ state.chip.count = mark.count + 1
  /\ state.chip.fields[0].new /\ state.chip.fields[0].number = state.chip.count

Ended ==
  /\ reading.valid = TRUE /\ reading.calib = TRUE
  /\ \/ reading.number = mark.count + 1
     \/ reading.number = mark.left /\ mark.left # 0

CycleInv ==
  /\ FieldInv /\ MarkInv
  /\ Undisturbed /\ phase = "triggered" => Triggered
  /\ Undisturbed /\ phase = "waited" => Triggered \/ MeasuredOne
  /\ Undisturbed /\ phase = "idle" => Ended

(* The new fields are among the last three measurements, each in its turn,  *)
(* with the index that follows from its number.                             *)
InTurn(c) ==
  \A f \in 0..2 :
    c.fields[f].new =>
      /\ 1 <= c.fields[f].number /\ c.fields[f].number <= c.count /\ c.count < c.fields[f].number + 3
      /\ c.fields[f].number % 3 = (f + 1) % 3
      /\ c.fields[f].index = (FirstIndex + c.fields[f].number + 255) % 256

Sequenced == state.chip.mode # "forced" /\ InTurn(state.chip)

SensorsInv ==
  /\ TypeOK
  /\ state.chip.awake = FALSE
  /\ client = "app" => SetUp /\ CycleInv
  /\ client = "any" => Sequenced /\ phase = "boot"
  /\ SortedByAge
  /\ HeatsAsAsked

-----------------------------------------------------------------------------
(* Transfers. *)

LEMMA ArrivedIs ==
  ASSUME NEW s \in Driver, NEW e \in Chip
  PROVE  /\ Arrived(s, e) \in Driver
         /\ Arrived(s, e).chip = e /\ Arrived(s, e).calib = s.calib /\ Arrived(s, e).rslt = s.rslt
         /\ Arrived(s, e).data = s.data /\ Arrived(s, e).faults = s.faults
BY DEF Arrived, Driver

LEMMA FailedIs ==
  ASSUME NEW s \in Driver, NEW r \in Results, s.faults < MaxFaults
  PROVE  /\ Failed(s, r) \in Driver
         /\ Failed(s, r).chip = s.chip /\ Failed(s, r).calib = s.calib /\ Failed(s, r).rslt = r
         /\ Failed(s, r).data = s.data /\ Failed(s, r).faults = s.faults + 1
<1>1. s.faults + 1 \in 0..MaxFaults
  BY Bme68xAssumption DEF Driver
<1> QED
  BY <1>1 DEF Failed, Driver

LEMMA FaultyOutcome ==
  ASSUME NEW s \in Driver, NEW r \in Results, NEW t \in Faulty(s, r)
  PROVE  /\ t \in Driver
         /\ t.chip = s.chip /\ t.calib = s.calib /\ t.rslt = r /\ t.data = s.data
         /\ t.faults = s.faults + 1
<1>1. s.faults < MaxFaults /\ t = Failed(s, r)
  BY DEF Faulty
<1> QED
  BY <1>1, FailedIs

(* What a transfer may come to: it takes place, or it fails before or after *)
(* its effect.                                                              *)
Transferred(s, e, t) ==
  /\ t \in Driver /\ t.calib = s.calib /\ t.data = s.data
  /\ t.chip = s.chip \/ t.chip = e
  /\ s.faults <= t.faults
  /\ t.rslt = "OK" => t.chip = e
  /\ t.faults = s.faults => t.rslt = s.rslt /\ t.chip = e

LEMMA TransferOutcome ==
  ASSUME NEW s \in Driver, NEW e \in Chip, NEW t \in Transfer(s, e)
  PROVE  Transferred(s, e, t)
<1> DEFINE a == Arrived(s, e)
<1>1. /\ a \in Driver /\ a.chip = e /\ a.calib = s.calib /\ a.rslt = s.rslt
      /\ a.data = s.data /\ a.faults = s.faults
  BY ArrivedIs
<1>2. t = a \/ t \in Faulty(s, "COM_FAIL") \/ t \in Faulty(a, "COM_FAIL")
  BY DEF Transfer
<1>3. "COM_FAIL" \in Results /\ "COM_FAIL" # "OK"
  BY DEF Results
<1>4. s.faults \in Nat
  BY DEF Driver
<1> HIDE DEF a
<1>5. CASE t = a
  BY <1>1, <1>4, <1>5 DEF Transferred
<1>6. CASE t \in Faulty(s, "COM_FAIL")
  BY <1>3, <1>4, <1>6, FaultyOutcome DEF Transferred
<1>7. CASE t \in Faulty(a, "COM_FAIL")
  BY <1>1, <1>3, <1>4, <1>7, FaultyOutcome DEF Transferred
<1> QED
  BY <1>2, <1>5, <1>6, <1>7

LEMMA LooksOutcome ==
  ASSUME NEW s \in Driver, NEW t \in Looks(s)
  PROVE  Transferred(s, s.chip, t)
BY TransferOutcome DEF Looks, Driver

(* The chip asleep: a register of the configuration is written as it should *)
(* be.                                                                      *)
LEMMA ConfiguresOutcome ==
  ASSUME NEW s \in Driver, s.chip.mode = "sleep",
         NEW e \in Chip, e.awake = FALSE, NEW t \in Configures(s, e)
  PROVE  Transferred(s, e, t)
<1>1. [e EXCEPT !.awake = e.awake \/ s.chip.mode # "sleep"] = e
  BY DEF Chip
<1> QED
  BY <1>1, TransferOutcome DEF Configures

-----------------------------------------------------------------------------
(* Changes to the chip's registers. *)

LEMMA ModeIs ==
  ASSUME NEW c \in Chip, NEW m \in Modes
  PROVE  LET d == [c EXCEPT !.mode = m]
         IN /\ d \in Chip /\ d.mode = m
            /\ d.os = c.os /\ d.heat = c.heat /\ d.shared = c.shared /\ d.gas = c.gas
            /\ d.count = c.count /\ d.awake = c.awake /\ d.fields = c.fields
BY DEF Chip

LEMMA OsIs ==
  ASSUME NEW c \in Chip, NEW os \in Nat
  PROVE  LET d == [c EXCEPT !.os = boundary_check(os)]
         IN /\ d \in Chip /\ d.os = boundary_check(os)
            /\ d.mode = c.mode /\ d.heat = c.heat /\ d.shared = c.shared /\ d.gas = c.gas
            /\ d.count = c.count /\ d.awake = c.awake /\ d.fields = c.fields
BY DEF Chip, boundary_check

LEMMA HeatIs ==
  ASSUME NEW c \in Chip, NEW v \in 0..255
  PROVE  LET d == [c EXCEPT !.heat = v]
         IN /\ d \in Chip /\ d.heat = v
            /\ d.mode = c.mode /\ d.os = c.os /\ d.shared = c.shared /\ d.gas = c.gas
            /\ d.count = c.count /\ d.awake = c.awake /\ d.fields = c.fields
BY DEF Chip

LEMMA SharedIs ==
  ASSUME NEW c \in Chip, NEW v \in 0..255
  PROVE  LET d == [c EXCEPT !.shared = v]
         IN /\ d \in Chip /\ d.shared = v
            /\ d.mode = c.mode /\ d.os = c.os /\ d.heat = c.heat /\ d.gas = c.gas
            /\ d.count = c.count /\ d.awake = c.awake /\ d.fields = c.fields
BY DEF Chip

LEMMA GasIs ==
  ASSUME NEW c \in Chip
  PROVE  LET d == [c EXCEPT !.gas = TRUE]
         IN /\ d \in Chip
            /\ d.mode = c.mode /\ d.os = c.os /\ d.heat = c.heat /\ d.shared = c.shared
            /\ d.count = c.count /\ d.awake = c.awake /\ d.fields = c.fields
BY DEF Chip

-----------------------------------------------------------------------------
(* The driver's functions. *)

Still == {s \in Driver : s.chip.awake = FALSE}

(* What all of them keep, but for the reset and the reading of data; that   *)
(* they report OK when no transfer failed; and the settings, which only     *)
(* some of them change.                                                     *)
Kept(s, t) ==
  /\ t \in Still /\ t.calib = s.calib /\ t.data = s.data
  /\ t.chip.count = s.chip.count /\ t.chip.fields = s.chip.fields
  /\ s.faults <= t.faults

Clean(s, t) == t.faults = s.faults => t.rslt = "OK"

SameSettings(s, t) == t.chip.os = s.chip.os /\ t.chip.heat = s.chip.heat /\ t.chip.shared = s.chip.shared

LEMMA TransferKeeps ==
  ASSUME NEW s \in Still, s.rslt = "OK", NEW e \in Chip, NEW t, Transferred(s, e, t),
         e.awake = FALSE, e.count = s.chip.count, e.fields = s.chip.fields
  PROVE  Kept(s, t) /\ Clean(s, t)
BY DEF Transferred, Kept, Clean, Still

LEMMA LooksKeeps ==
  ASSUME NEW s \in Still, s.rslt = "OK", NEW t \in Looks(s)
  PROVE  Kept(s, t) /\ Clean(s, t) /\ t.chip = s.chip
BY LooksOutcome DEF Transferred, Kept, Clean, Still

LEMMA KeptTransitive ==
  ASSUME NEW s \in Still, NEW t, NEW u, Kept(s, t), Kept(t, u)
  PROVE  Kept(s, u) /\ (Clean(t, u) /\ Clean(s, t) => Clean(s, u))
<1>1. s.faults \in Nat /\ t.faults \in Nat /\ u.faults \in Nat
  BY DEF Kept, Still, Driver
<1> QED
  BY <1>1 DEF Kept, Clean

LEMMA KeptReflexive ==
  ASSUME NEW s \in Still
  PROVE  Kept(s, s) /\ SameSettings(s, s) /\ (s.rslt = "OK" => Clean(s, s))
<1>1. s.faults \in Nat
  BY DEF Still, Driver
<1> QED
  BY <1>1 DEF Kept, Clean, SameSettings

(* The chip is told a mode. *)
LEMMA TellMode ==
  ASSUME NEW s \in Still, s.rslt = "OK", NEW m \in Modes,
         NEW t \in Transfer(s, [s.chip EXCEPT !.mode = m])
  PROVE  /\ Kept(s, t) /\ Clean(s, t) /\ SameSettings(s, t)
         /\ t.chip.mode \in {s.chip.mode, m}
         /\ t.rslt = "OK" => t.chip.mode = m
<1> DEFINE e == [s.chip EXCEPT !.mode = m]
<1>1. s \in Driver /\ s.chip \in Chip /\ s.chip.awake = FALSE
  BY DEF Still, Driver
<1>2. /\ e \in Chip /\ e.mode = m /\ e.awake = FALSE /\ e.count = s.chip.count /\ e.fields = s.chip.fields
      /\ e.os = s.chip.os /\ e.heat = s.chip.heat /\ e.shared = s.chip.shared
  BY <1>1, ModeIs
<1>3. t \in Transfer(s, e)
  OBVIOUS
<1> HIDE DEF e
<1>4. Transferred(s, e, t)
  BY <1>1, <1>2, <1>3, TransferOutcome
<1>5. Kept(s, t) /\ Clean(s, t)
  BY <1>2, <1>4, TransferKeeps
<1> QED
  BY <1>2, <1>4, <1>5 DEF Transferred, SameSettings

(* Polling leaves the chip asleep, or the result is not OK. *)
PutToSleep(s, t) ==
  /\ Kept(s, t) /\ Clean(s, t) /\ SameSettings(s, t)
  /\ t.chip.mode \in {s.chip.mode, "sleep"}
  /\ t.rslt = "OK" => t.chip.mode = "sleep"

LEMMA AsleepOutcome ==
  ASSUME NEW s \in Still, s.rslt = "OK", NEW t \in Asleep(s)
  PROVE  PutToSleep(s, t)
<1>1. PICK u \in Looks(s) :
        t \in IF u.rslt = "OK"
              THEN IF u.chip.mode = "sleep" THEN {u}
                   ELSE Then(Transfer(u, [u.chip EXCEPT !.mode = "sleep"]), Looks)
              ELSE {u}
  BY DEF Asleep, Then
<1>2. Kept(s, u) /\ Clean(s, u) /\ SameSettings(s, u) /\ u.chip = s.chip
  BY LooksKeeps DEF SameSettings
<1>3. CASE u.rslt # "OK" \/ u.chip.mode = "sleep"
  BY <1>1, <1>2, <1>3 DEF PutToSleep
<1>4. CASE u.rslt = "OK" /\ u.chip.mode # "sleep"
  <2>1. PICK w \in Transfer(u, [u.chip EXCEPT !.mode = "sleep"]) :
          t \in IF w.rslt = "OK" THEN Looks(w) ELSE {w}
    BY <1>1, <1>4 DEF Then
  <2>2. u \in Still /\ "sleep" \in Modes
    BY <1>2 DEF Kept, Modes
  <2>3. /\ Kept(u, w) /\ Clean(u, w) /\ SameSettings(u, w)
        /\ w.chip.mode \in {u.chip.mode, "sleep"}
        /\ w.rslt = "OK" => w.chip.mode = "sleep"
    BY <1>4, <2>2, TellMode
  <2>4. Kept(s, w) /\ Clean(s, w) /\ SameSettings(s, w) /\ w \in Still
    BY <1>2, <2>3, KeptTransitive DEF SameSettings, Kept
  <2>5. CASE w.rslt = "OK"
    <3>1. Kept(w, t) /\ Clean(w, t) /\ t.chip = w.chip
      BY <2>1, <2>4, <2>5, LooksKeeps
    <3> QED
      BY <1>2, <2>3, <2>4, <2>5, <3>1, KeptTransitive DEF PutToSleep, SameSettings
  <2>6. CASE w.rslt # "OK"
    BY <1>2, <2>1, <2>3, <2>4, <2>6 DEF PutToSleep
  <2> QED
    BY <2>5, <2>6
<1> QED
  BY <1>3, <1>4

(* The mode that was asked for is set, or the result is not OK. *)
ModeSet(s, mode, t) ==
  /\ Kept(s, t) /\ Clean(s, t) /\ SameSettings(s, t)
  /\ t.chip.mode \in {s.chip.mode, "sleep", mode}
  /\ t.rslt = "OK" => t.chip.mode = mode

LEMMA SetOpMode ==
  ASSUME NEW s \in Still, s.rslt = "OK", NEW mode \in Modes, NEW t \in bme68x_set_op_mode(s, mode)
  PROVE  ModeSet(s, mode, t)
<1>1. PICK u \in Asleep(s) :
        t \in IF u.rslt = "OK"
              THEN IF mode = "sleep" THEN {u} ELSE Transfer(u, [u.chip EXCEPT !.mode = mode])
              ELSE {u}
  BY DEF bme68x_set_op_mode, Then
<1>2. PutToSleep(s, u)
  BY AsleepOutcome
<1>3. CASE u.rslt # "OK" \/ mode = "sleep"
  BY <1>1, <1>2, <1>3 DEF PutToSleep, ModeSet
<1>4. CASE u.rslt = "OK" /\ mode # "sleep"
  <2>1. u \in Still
    BY <1>2 DEF PutToSleep, Kept
  <2>2. /\ Kept(u, t) /\ Clean(u, t) /\ SameSettings(u, t)
        /\ t.chip.mode \in {u.chip.mode, mode}
        /\ t.rslt = "OK" => t.chip.mode = mode
    BY <1>1, <1>4, <2>1, TellMode
  <2> QED
    BY <1>2, <1>4, <2>2, KeptTransitive DEF PutToSleep, ModeSet, SameSettings
<1> QED
  BY <1>3, <1>4

-----------------------------------------------------------------------------
(* The registers of the heating times. *)

(* The register v says n to within its unit. *)
Between(v, n) ==
  /\ v \in 0..255 /\ Decoded(v) \in Nat /\ UnitOf(v) \in Nat
  /\ Decoded(v) <= n /\ n < Decoded(v) + UnitOf(v)

(* What six bits and a unit have room for. *)
Encodable == {n \in Nat : n < 4032}

LEMMA UnitIs == Unit[1] = 1 /\ Unit[2] = 4 /\ Unit[3] = 16 /\ Unit[4] = 64
BY DEF Unit

LEMMA SixBits ==
  ASSUME NEW k \in 0..3, NEW m \in 0..63, NEW v, v = m + 64 * k
  PROVE  v \in 0..255 /\ UnitOf(v) = Unit[k + 1] /\ Decoded(v) = m * Unit[k + 1]
<1>1. v \in 0..255 /\ v \div 64 = k /\ v % 64 = m
  OBVIOUS
<1> QED
  BY <1>1 DEF UnitOf, Decoded

LEMMA Rounded ==
  ASSUME NEW n \in Nat, NEW v, NEW k \in 0..3, n \div Unit[k + 1] <= 63, v = n \div Unit[k + 1] + 64 * k
  PROVE  Between(v, n)
<1>1. CASE k = 0
  <2>1. n <= 63 /\ v = n
    BY <1>1, UnitIs
  <2>2. UnitOf(v) = 1 /\ Decoded(v) = n * 1
    BY <1>1, <2>1, SixBits, UnitIs
  <2> QED
    BY <2>1, <2>2 DEF Between
<1>2. CASE k = 1
  <2>1. n \div 4 \in 0..63 /\ v = n \div 4 + 64
    BY <1>2, UnitIs
  <2>2. UnitOf(v) = 4 /\ Decoded(v) = (n \div 4) * 4
    BY <1>2, <2>1, SixBits, UnitIs
  <2> QED
    BY <2>1, <2>2 DEF Between
<1>3. CASE k = 2
  <2>1. n \div 16 \in 0..63 /\ v = n \div 16 + 128
    BY <1>3, UnitIs
  <2>2. UnitOf(v) = 16 /\ Decoded(v) = (n \div 16) * 16
    BY <1>3, <2>1, SixBits, UnitIs
  <2> QED
    BY <2>1, <2>2 DEF Between
<1>4. CASE k = 3
  <2>1. n \div 64 \in 0..63 /\ v = n \div 64 + 192
    BY <1>4, UnitIs
  <2>2. UnitOf(v) = 64 /\ Decoded(v) = (n \div 64) * 64
    BY <1>4, <2>1, SixBits, UnitIs
  <2> QED
    BY <2>1, <2>2 DEF Between
<1> QED
  BY <1>1, <1>2, <1>3, <1>4

LEMMA SomeUnitFits ==
  ASSUME NEW n \in Encodable
  PROVE  \E k \in 0..3 : FitsFirst(n, 63, k)
<1> n \in Nat /\ n < 4032
  BY DEF Encodable
<1>1. CASE n <= 63
  <2>1. n \div Unit[0 + 1] <= 63 /\ \A j \in 1..0 : n \div Unit[j] > 63
    BY <1>1, UnitIs
  <2> QED
    BY <2>1 DEF FitsFirst
<1>2. CASE n > 63 /\ n \div 4 <= 63
  <2>1. n \div Unit[1 + 1] <= 63 /\ \A j \in 1..1 : n \div Unit[j] > 63
    BY <1>2, UnitIs
  <2> QED
    BY <2>1 DEF FitsFirst
<1>3. CASE n \div 4 > 63 /\ n \div 16 <= 63
  <2>1. n \div Unit[2 + 1] <= 63 /\ n \div 1 > 63
    BY <1>3, UnitIs
  <2>2. \A j \in 1..2 : j = 1 \/ j = 2
    OBVIOUS
  <2> QED
    BY <1>3, <2>1, <2>2, UnitIs DEF FitsFirst
<1>4. CASE n \div 16 > 63
  <2>1. n \div Unit[3 + 1] <= 63 /\ n \div 1 > 63 /\ n \div 4 > 63
    BY <1>4, UnitIs
  <2>2. \A j \in 1..3 : j = 1 \/ j = 2 \/ j = 3
    OBVIOUS
  <2> QED
    BY <1>4, <2>1, <2>2, UnitIs DEF FitsFirst
<1> QED
  BY <1>1, <1>2, <1>3, <1>4

LEMMA EncodedIs ==
  ASSUME NEW n \in Encodable, NEW v, v = Encoded(n, 63)
  PROVE  Between(v, n)
<1>1. \E k \in 0..3 : FitsFirst(n, 63, k)
  BY SomeUnitFits
<1> DEFINE f == CHOOSE k \in 0..3 : FitsFirst(n, 63, k)
<1>2. f \in 0..3 /\ FitsFirst(n, 63, f)
  BY <1>1, Zenon
<1>3. v = n \div Unit[f + 1] + 64 * f
  BY DEF Encoded
<1> HIDE DEF f
<1>4. n \div Unit[f + 1] <= 63
  BY <1>2 DEF FitsFirst
<1>5. n \in Nat
  BY DEF Encodable
<1> QED
  BY <1>5, <1>2, <1>3, <1>4, Rounded

LEMMA TopIs == UnitOf(255) = 64 /\ Decoded(255) = 4032
<1>1. 255 \div 64 = 3 /\ 255 % 64 = 63
  OBVIOUS
<1> QED
  BY <1>1, UnitIs DEF UnitOf, Decoded

LEMMA GasWaitIs ==
  ASSUME NEW dur \in Nat, NEW v, v = calc_gas_wait(dur)
  PROVE  v \in 0..255 /\ Decoded(v) <= dur /\ (v < 255 => dur < Decoded(v) + UnitOf(v))
<1>1. CASE dur >= 4032
  <2>1. v = 255
    BY <1>1 DEF calc_gas_wait
  <2> QED
    BY <1>1, <2>1, TopIs
<1>2. CASE dur < 4032
  <2>1. v = Encoded(dur, 63)
    BY <1>2 DEF calc_gas_wait
  <2>2. dur \in Encodable
    BY <1>2 DEF Encodable
  <2>3. Between(v, dur)
    BY <2>1, <2>2, EncodedIs, Zenon
  <2>4. /\ v \in 0..255 /\ Decoded(v) \in Nat /\ UnitOf(v) \in Nat
        /\ Decoded(v) <= dur /\ dur < Decoded(v) + UnitOf(v)
    BY <2>3 DEF Between
  <2> QED
    BY <2>4
<1> QED
  BY <1>1, <1>2

(* In steps of 477 microseconds. *)
LEMMA SharedDurationIs ==
  ASSUME NEW dur \in Nat, NEW v, v = calc_heatr_dur_shared(dur)
  PROVE  /\ v \in 0..255
         /\ 477 * Decoded(v) <= 1000 * dur + 477 * 4
         /\ v < 255 => 1000 * dur < 477 * (Decoded(v) + UnitOf(v))
<1>1. CASE dur >= 1923
  <2>1. v = 255
    BY <1>1 DEF calc_heatr_dur_shared
  <2> QED
    BY <1>1, <2>1, TopIs
<1>2. CASE dur < 1923
  <2> DEFINE n == (dur * 1000) \div 477
  <2>1. n \in Nat /\ n < 4032 /\ 477 * n <= 1000 * dur /\ 1000 * dur < 477 * (n + 1)
    BY <1>2
  <2>2. v = Encoded(n, 63)
    BY <1>2 DEF calc_heatr_dur_shared
  <2> HIDE DEF n
  <2>3. n \in Encodable
    BY <2>1 DEF Encodable
  <2>4. Between(v, n)
    BY <2>2, <2>3, EncodedIs
  <2> QED
    BY <2>1, <2>4 DEF Between
<1> QED
  BY <1>1, <1>2

-----------------------------------------------------------------------------
(* The configuration. *)

(* A register of the sleeping chip is written. *)
LEMMA Setting ==
  ASSUME NEW s \in Still, s.rslt = "OK", s.chip.mode = "sleep",
         NEW e \in Chip, e.awake = FALSE, e.mode = "sleep",
         e.count = s.chip.count, e.fields = s.chip.fields,
         NEW t \in Configures(s, e)
  PROVE  /\ Kept(s, t) /\ Clean(s, t)
         /\ t.chip.mode = "sleep" /\ t.chip \in {s.chip, e}
         /\ t.rslt = "OK" => t.chip = e
<1>1. s \in Driver
  BY DEF Still
<1>2. Transferred(s, e, t)
  BY <1>1, ConfiguresOutcome
<1> QED
  BY <1>2, TransferKeeps DEF Transferred

(* A step of a function after those before it: to fail, or to go on. *)
LEMMA LooksAgain ==
  ASSUME NEW s \in Still, NEW t, PutToSleep(s, t),
         NEW u, u \in IF t.rslt = "OK" THEN Looks(t) ELSE {t}
  PROVE  PutToSleep(s, u)
<1>1. CASE t.rslt = "OK"
  <2>1. t \in Still
    BY DEF PutToSleep, Kept
  <2>2. Kept(t, u) /\ Clean(t, u) /\ u.chip = t.chip
    BY <1>1, <2>1, LooksKeeps
  <2> QED
    BY <1>1, <2>2, KeptTransitive DEF PutToSleep, SameSettings
<1>2. CASE t.rslt # "OK"
  BY <1>2
<1> QED
  BY <1>1, <1>2

(* The oversampling is set and the chip left as it was found, or asleep. *)
Configured(s, os, t) ==
  /\ Kept(s, t) /\ Clean(s, t)
  /\ t.chip.mode \in {s.chip.mode, "sleep"}
  /\ t.chip.heat = s.chip.heat /\ t.chip.shared = s.chip.shared
  /\ t.rslt = "OK" => t.chip.os = boundary_check(os)

LEMMA OsWritten ==
  ASSUME NEW s \in Still, NEW os \in Nat, NEW t, PutToSleep(s, t),
         NEW u, u \in IF t.rslt = "OK"
                      THEN Configures(t, [t.chip EXCEPT !.os = boundary_check(os)]) ELSE {t}
  PROVE  Configured(s, os, u)
<1>1. CASE t.rslt = "OK"
  <2> DEFINE e == [t.chip EXCEPT !.os = boundary_check(os)]
  <2>1. t \in Still /\ t.chip \in Chip /\ t.chip.awake = FALSE /\ t.chip.mode = "sleep"
    BY <1>1 DEF PutToSleep, Kept, Still, Driver
  <2>2. /\ e \in Chip /\ e.os = boundary_check(os) /\ e.mode = "sleep" /\ e.awake = FALSE
        /\ e.heat = t.chip.heat /\ e.shared = t.chip.shared
        /\ e.count = t.chip.count /\ e.fields = t.chip.fields
    BY <2>1, OsIs
  <2>3. u \in Configures(t, e)
    BY <1>1
  <2> HIDE DEF e
  <2>4. /\ Kept(t, u) /\ Clean(t, u) /\ u.chip.mode = "sleep" /\ u.chip \in {t.chip, e}
        /\ u.rslt = "OK" => u.chip = e
    BY <1>1, <2>1, <2>2, <2>3, Setting
  <2>5. Kept(s, u) /\ Clean(s, u)
    BY <2>4, KeptTransitive DEF PutToSleep
  <2> QED
    BY <2>2, <2>4, <2>5 DEF Configured, PutToSleep, SameSettings
<1>2. CASE t.rslt # "OK"
  BY <1>2 DEF Configured, PutToSleep, SameSettings
<1> QED
  BY <1>1, <1>2

LEMMA SetConf ==
  ASSUME NEW s \in Still, s.rslt = "OK", NEW os \in Nat, NEW x \in bme68x_set_conf(s, os)
  PROVE  Configured(s, os, x)
<1>1. PICK t \in Looks(s) :
        x \in IF t.rslt = "OK"
              THEN Then(Then(Then(Asleep(t), Looks),
                          LAMBDA u : Configures(u, [u.chip EXCEPT !.os = boundary_check(os)])),
                     LAMBDA u : IF t.chip.mode = "sleep" THEN {u} ELSE bme68x_set_op_mode(u, t.chip.mode))
              ELSE {t}
  BY DEF bme68x_set_conf, Then
<1>2. Kept(s, t) /\ Clean(s, t) /\ t.chip = s.chip
  BY LooksKeeps
<1>3. CASE t.rslt # "OK"
  BY <1>1, <1>2, <1>3 DEF Configured
<1>4. CASE t.rslt = "OK"
  <2>1. PICK y \in Then(Then(Asleep(t), Looks),
                        LAMBDA u : Configures(u, [u.chip EXCEPT !.os = boundary_check(os)])) :
          x \in IF y.rslt = "OK"
                THEN IF t.chip.mode = "sleep" THEN {y} ELSE bme68x_set_op_mode(y, t.chip.mode)
                ELSE {y}
    BY <1>1, <1>4 DEF Then
  <2>2. PICK w \in Then(Asleep(t), Looks) :
          y \in IF w.rslt = "OK"
                THEN Configures(w, [w.chip EXCEPT !.os = boundary_check(os)]) ELSE {w}
    BY <2>1 DEF Then
  <2>3. PICK v \in Asleep(t) : w \in IF v.rslt = "OK" THEN Looks(v) ELSE {v}
    BY <2>2 DEF Then
  <2>4. t \in Still /\ t.chip.mode \in Modes
    BY <1>2 DEF Kept, Still, Driver, Chip
  <2>5. PutToSleep(t, v)
    BY <1>4, <2>3, <2>4, AsleepOutcome
  <2>6. PutToSleep(t, w)
    BY <2>3, <2>4, <2>5, LooksAgain
  <2>7. Configured(t, os, y)
    BY <2>2, <2>4, <2>6, OsWritten
  <2>8. CASE y.rslt # "OK" \/ t.chip.mode = "sleep"
    <3>1. x = y
      BY <2>1, <2>8
    <3> QED
      BY <1>2, <2>7, <3>1, KeptTransitive DEF Configured
  <2>9. CASE y.rslt = "OK" /\ t.chip.mode # "sleep"
    <3>1. y \in Still
      BY <2>7 DEF Configured, Kept
    <3>2. ModeSet(y, t.chip.mode, x)
      BY <2>1, <2>4, <2>9, <3>1, SetOpMode
    <3>3. Kept(t, x) /\ Clean(t, x)
      BY <2>4, <2>7, <3>2, KeptTransitive DEF Configured, ModeSet
    <3>4. Kept(s, x) /\ Clean(s, x)
      BY <1>2, <3>3, KeptTransitive
    <3> QED
      BY <1>2, <2>7, <2>9, <3>2, <3>4 DEF Configured, ModeSet, SameSettings
  <2> QED
    BY <2>8, <2>9
<1> QED
  BY <1>3, <1>4

-----------------------------------------------------------------------------
(* The heater. *)

(* The registers of a mode's heating time say what was asked for.           *)
Registered(mode, dur, c) ==
  /\ mode = "forced" => c.heat = calc_gas_wait(dur)
  /\ mode = "parallel" => c.shared = calc_heatr_dur_shared(dur)

Heated(s, mode, dur, t) ==
  /\ Kept(s, t) /\ t.chip.os = s.chip.os /\ t.chip.mode \in {s.chip.mode, "sleep"}
  /\ t.rslt = "OK" => t.chip.mode = "sleep" /\ mode # "sleep" /\ Registered(mode, dur, t.chip)
  /\ mode = "forced" => Clean(s, t)

LEMMA ReportIs ==
  ASSUME NEW s \in Still, NEW r \in Results
  PROVE  LET t == [s EXCEPT !.rslt = r] IN Kept(s, t) /\ t.rslt = r /\ t.chip = s.chip
<1>1. s.faults \in Nat
  BY DEF Still, Driver
<1> QED
  BY <1>1 DEF Kept, Still, Driver

(* The heating time of a forced measurement. *)
LEMMA ForcedTime ==
  ASSUME NEW s \in Still, s.rslt = "OK", s.chip.mode = "sleep", NEW dur \in Nat,
         NEW t \in Configures(s, s.chip),
         NEW u, u \in IF t.rslt = "OK"
                      THEN Configures(t, [t.chip EXCEPT !.heat = calc_gas_wait(dur)]) ELSE {t}
  PROVE  Heated(s, "forced", dur, u)
<1>1. s.chip \in Chip /\ s.chip.awake = FALSE
  BY DEF Still, Driver
<1>2. Kept(s, t) /\ Clean(s, t) /\ t.chip = s.chip
  BY <1>1, Setting
<1>3. CASE t.rslt # "OK"
  BY <1>2, <1>3 DEF Heated
<1>4. CASE t.rslt = "OK"
  <2> DEFINE v == calc_gas_wait(dur)
             e == [t.chip EXCEPT !.heat = v]
  <2>1. t \in Still /\ t.chip \in Chip /\ t.chip.mode = "sleep" /\ t.chip.awake = FALSE /\ v \in 0..255
    BY <1>1, <1>2, GasWaitIs DEF Kept
  <2>2. u \in Configures(t, e)
    BY <1>4
  <2> HIDE DEF v
  <2>3. /\ e \in Chip /\ e.heat = v /\ e.mode = "sleep" /\ e.awake = FALSE /\ e.os = t.chip.os
        /\ e.count = t.chip.count /\ e.fields = t.chip.fields
    BY <2>1, HeatIs
  <2> HIDE DEF e
  <2>4. /\ Kept(t, u) /\ Clean(t, u) /\ u.chip.mode = "sleep" /\ u.chip \in {t.chip, e}
        /\ u.rslt = "OK" => u.chip = e
    BY <1>2, <1>4, <2>1, <2>2, <2>3, Setting
  <2>5. Kept(s, u) /\ Clean(s, u)
    BY <1>2, <2>4, KeptTransitive
  <2> QED
    BY <1>2, <2>3, <2>4, <2>5 DEF Heated, Registered, v
<1> QED
  BY <1>3, <1>4

(* The shared heating time of parallel mode, and the profile's. *)
LEMMA ParallelTime ==
  ASSUME NEW s \in Still, s.rslt = "OK", s.chip.mode = "sleep", NEW dur \in Nat,
         NEW t \in Configures(s, [s.chip EXCEPT !.shared = calc_heatr_dur_shared(dur)]),
         NEW u, u \in IF t.rslt = "OK" THEN Configures(t, t.chip) ELSE {t},
         NEW w, w \in IF u.rslt = "OK"
                      THEN Configures(u, [u.chip EXCEPT !.heat = dur % 256]) ELSE {u}
  PROVE  Heated(s, "parallel", dur, w)
<1> DEFINE v == calc_heatr_dur_shared(dur)
           e == [s.chip EXCEPT !.shared = v]
<1>1. s.chip \in Chip /\ s.chip.awake = FALSE /\ v \in 0..255
  BY SharedDurationIs DEF Still, Driver
<1>2. t \in Configures(s, e)
  OBVIOUS
<1> HIDE DEF v
<1>3. /\ e \in Chip /\ e.shared = v /\ e.mode = "sleep" /\ e.awake = FALSE /\ e.os = s.chip.os
      /\ e.count = s.chip.count /\ e.fields = s.chip.fields
  BY <1>1, SharedIs
<1> HIDE DEF e
<1>4. /\ Kept(s, t) /\ t.chip.mode = "sleep" /\ t.chip \in {s.chip, e}
      /\ t.rslt = "OK" => t.chip = e
  BY <1>1, <1>2, <1>3, Setting
<1>5. Kept(s, u) /\ u.chip = t.chip /\ (u.rslt = "OK" => t.rslt = "OK")
  <2>1. CASE t.rslt = "OK"
    <3>1. t \in Still /\ t.chip \in Chip /\ t.chip.awake = FALSE
      BY <1>4 DEF Kept, Still, Driver
    <3>2. Kept(t, u) /\ u.chip = t.chip
      BY <1>4, <2>1, <3>1, Setting
    <3> QED
      BY <1>4, <2>1, <3>2, KeptTransitive
  <2>2. CASE t.rslt # "OK"
    BY <1>4, <2>2
  <2> QED
    BY <2>1, <2>2
<1>6. /\ Kept(s, w) /\ w.chip.mode = "sleep" /\ w.chip.os = s.chip.os
      /\ w.rslt = "OK" => w.chip.shared = v
  <2>1. CASE u.rslt = "OK"
    <3> DEFINE b == dur % 256
               d == [u.chip EXCEPT !.heat = b]
    <3>1. b \in 0..255
      OBVIOUS
    <3>2. u \in Still /\ u.chip \in Chip /\ u.chip.awake = FALSE /\ u.chip.mode = "sleep"
      BY <1>4, <1>5 DEF Kept, Still, Driver
    <3>3. w \in Configures(u, d)
      BY <2>1
    <3> HIDE DEF b
    <3>4. /\ d \in Chip /\ d.shared = u.chip.shared /\ d.mode = "sleep" /\ d.awake = FALSE
          /\ d.os = u.chip.os /\ d.count = u.chip.count /\ d.fields = u.chip.fields
      BY <3>1, <3>2, HeatIs
    <3> HIDE DEF d
    <3>5. /\ Kept(u, w) /\ w.chip.mode = "sleep" /\ w.chip \in {u.chip, d}
          /\ w.rslt = "OK" => w.chip = d
      BY <1>4, <1>5, <2>1, <3>2, <3>3, <3>4, Setting
    <3>6. Kept(s, w)
      BY <1>5, <3>5, KeptTransitive
    <3> QED
      BY <1>3, <1>4, <1>5, <2>1, <3>4, <3>5, <3>6
  <2>2. CASE u.rslt # "OK"
    BY <1>3, <1>4, <1>5, <2>2
  <2> QED
    BY <2>1, <2>2
<1> QED
  BY <1>6 DEF Heated, Registered, v

LEMMA HeaterConf ==
  ASSUME NEW s \in Still, s.rslt = "OK", s.chip.mode = "sleep",
         NEW mode \in Modes, NEW dur \in Nat, NEW t \in set_conf(s, mode, dur)
  PROVE  Heated(s, mode, dur, t)
<1>1. CASE mode = "forced"
  <2>1. PICK u \in Configures(s, s.chip) :
          t \in IF u.rslt = "OK"
                THEN Configures(u, [u.chip EXCEPT !.heat = calc_gas_wait(dur)]) ELSE {u}
    BY <1>1 DEF set_conf, Then
  <2> QED
    BY <1>1, <2>1, ForcedTime
<1>2. CASE mode = "parallel" /\ dur # 0
  <2>1. t \in Then(Then(Configures(s, [s.chip EXCEPT !.shared = calc_heatr_dur_shared(dur)]),
                     LAMBDA u : Configures(u, u.chip)),
                LAMBDA u : Configures(u, [u.chip EXCEPT !.heat = dur % 256]))
    BY <1>2 DEF set_conf
  <2>2. PICK w \in Then(Configures(s, [s.chip EXCEPT !.shared = calc_heatr_dur_shared(dur)]),
                        LAMBDA u : Configures(u, u.chip)) :
          t \in IF w.rslt = "OK" THEN Configures(w, [w.chip EXCEPT !.heat = dur % 256]) ELSE {w}
    BY <2>1 DEF Then
  <2>3. PICK u \in Configures(s, [s.chip EXCEPT !.shared = calc_heatr_dur_shared(dur)]) :
          w \in IF u.rslt = "OK" THEN Configures(u, u.chip) ELSE {u}
    BY <2>2 DEF Then
  <2> QED
    BY <1>2, <2>2, <2>3, ParallelTime
<1>3. CASE mode = "parallel" /\ dur = 0
  <2>1. t = [s EXCEPT !.rslt = "DEFINE_SHD_HEATR_DUR"] /\ "DEFINE_SHD_HEATR_DUR" \in Results
    BY <1>3 DEF set_conf, Results
  <2>2. Kept(s, t) /\ t.rslt # "OK" /\ t.chip = s.chip
    BY <2>1, ReportIs
  <2> QED
    BY <1>3, <2>2 DEF Heated
<1>4. CASE mode = "sleep"
  <2>1. t = [s EXCEPT !.rslt = "DEFINE_OP_MODE"] /\ "DEFINE_OP_MODE" \in Results
    BY <1>4 DEF set_conf, Results
  <2>2. Kept(s, t) /\ t.rslt # "OK" /\ t.chip = s.chip
    BY <2>1, ReportIs
  <2> QED
    BY <1>4, <2>2 DEF Heated
<1> QED
  BY <1>1, <1>2, <1>3, <1>4 DEF Modes

LEMMA SetHeaterConf ==
  ASSUME NEW s \in Still, s.rslt = "OK", NEW mode \in Modes, NEW dur \in Nat,
         NEW x \in bme68x_set_heatr_conf(s, mode, dur)
  PROVE  Heated(s, mode, dur, x)
<1>1. PICK w \in Then(Then(Asleep(s), LAMBDA t : set_conf(t, mode, dur)), Looks) :
        x \in IF w.rslt = "OK" THEN Configures(w, [w.chip EXCEPT !.gas = TRUE]) ELSE {w}
  BY DEF bme68x_set_heatr_conf, Then
<1>2. PICK v \in Then(Asleep(s), LAMBDA t : set_conf(t, mode, dur)) :
        w \in IF v.rslt = "OK" THEN Looks(v) ELSE {v}
  BY <1>1 DEF Then
<1>3. PICK u \in Asleep(s) : v \in IF u.rslt = "OK" THEN set_conf(u, mode, dur) ELSE {u}
  BY <1>2 DEF Then
<1>4. PutToSleep(s, u)
  BY AsleepOutcome
<1>5. Heated(s, mode, dur, v)
  <2>1. CASE u.rslt = "OK"
    <3>1. u \in Still /\ u.chip.mode = "sleep"
      BY <1>4, <2>1 DEF PutToSleep, Kept
    <3>2. Heated(u, mode, dur, v)
      BY <1>3, <2>1, <3>1, HeaterConf
    <3> QED
      BY <1>4, <3>1, <3>2, KeptTransitive DEF Heated, PutToSleep, SameSettings
  <2>2. CASE u.rslt # "OK"
    BY <1>3, <1>4, <2>2 DEF Heated, PutToSleep, SameSettings
  <2> QED
    BY <2>1, <2>2
<1>6. Heated(s, mode, dur, w)
  <2>1. CASE v.rslt = "OK"
    <3>1. v \in Still
      BY <1>5 DEF Heated, Kept
    <3>2. Kept(v, w) /\ Clean(v, w) /\ w.chip = v.chip
      BY <1>2, <2>1, <3>1, LooksKeeps
    <3> QED
      BY <1>5, <2>1, <3>2, KeptTransitive DEF Heated
  <2>2. CASE v.rslt # "OK"
    BY <1>2, <1>5, <2>2
  <2> QED
    BY <2>1, <2>2
<1>7. CASE w.rslt = "OK"
  <2> DEFINE e == [w.chip EXCEPT !.gas = TRUE]
  <2>1. w \in Still /\ w.chip \in Chip /\ w.chip.awake = FALSE /\ w.chip.mode = "sleep"
    BY <1>6, <1>7 DEF Heated, Kept, Still, Driver
  <2>2. /\ e \in Chip /\ e.mode = "sleep" /\ e.awake = FALSE
        /\ e.os = w.chip.os /\ e.heat = w.chip.heat /\ e.shared = w.chip.shared
        /\ e.count = w.chip.count /\ e.fields = w.chip.fields
    BY <2>1, GasIs
  <2>3. x \in Configures(w, e)
    BY <1>1, <1>7
  <2> HIDE DEF e
  <2>4. Kept(w, x) /\ Clean(w, x) /\ x.chip.mode = "sleep" /\ x.chip \in {w.chip, e}
    BY <1>7, <2>1, <2>2, <2>3, Setting
  <2>5. Kept(s, x) /\ (Clean(s, w) => Clean(s, x))
    BY <1>6, <2>4, KeptTransitive DEF Heated
  <2> QED
    BY <1>6, <1>7, <2>2, <2>4, <2>5 DEF Heated, Registered
<1>8. CASE w.rslt # "OK"
  BY <1>1, <1>6, <1>8
<1> QED
  BY <1>7, <1>8

-----------------------------------------------------------------------------
(* The chip's fields. *)

(* Where a measurement goes, and what it leaves there. *)
Place(c) == IF c.mode = "forced" THEN 0 ELSE c.count % 3
Stamp(c) == [new |-> TRUE, index |-> (FirstIndex + c.count) % 256, number |-> c.count + 1]

LEMMA PlaceIs ==
  ASSUME NEW c \in Chip
  PROVE  Place(c) \in 0..2 /\ (c.mode = "forced" => Place(c) = 0) /\ (c.mode # "forced" => Place(c) = c.count % 3)
BY DEF Place, Chip

LEMMA StampIs ==
  ASSUME NEW c \in Chip
  PROVE  /\ Stamp(c) \in Field /\ Stamp(c).new = TRUE
         /\ Stamp(c).number = c.count + 1 /\ Stamp(c).index = (FirstIndex + c.count) % 256
<1>1. (FirstIndex + c.count) % 256 \in 0..255 /\ c.count + 1 \in Nat
  BY Bme68xAssumption DEF Chip
<1> QED
  BY <1>1 DEF Stamp, Field

LEMMA CountIs ==
  ASSUME NEW c \in Chip, NEW n \in Nat
  PROVE  LET d == [c EXCEPT !.count = n]
         IN /\ d \in Chip /\ d.count = n
            /\ d.mode = c.mode /\ d.os = c.os /\ d.heat = c.heat /\ d.shared = c.shared /\ d.gas = c.gas
            /\ d.awake = c.awake /\ d.fields = c.fields
BY DEF Chip

LEMMA FieldsIs ==
  ASSUME NEW c \in Chip, NEW g \in [0..2 -> Field]
  PROVE  LET d == [c EXCEPT !.fields = g]
         IN /\ d \in Chip /\ d.fields = g
            /\ d.mode = c.mode /\ d.os = c.os /\ d.heat = c.heat /\ d.shared = c.shared /\ d.gas = c.gas
            /\ d.awake = c.awake /\ d.count = c.count
BY DEF Chip

LEMMA MeasuredIs ==
  ASSUME NEW c \in Chip
  PROVE  /\ Measured(c) \in Chip
         /\ Measured(c).count = c.count + 1
         /\ Measured(c).mode = IF c.mode = "forced" THEN "sleep" ELSE c.mode
         /\ Measured(c).os = c.os /\ Measured(c).heat = c.heat /\ Measured(c).shared = c.shared
         /\ Measured(c).awake = c.awake
         /\ Measured(c).fields[Place(c)] = Stamp(c)
         /\ \A f \in 0..2 \ {Place(c)} : Measured(c).fields[f] = c.fields[f]
<1> DEFINE n == c.count + 1
           m == IF c.mode = "forced" THEN "sleep" ELSE c.mode
           g == [c.fields EXCEPT ![Place(c)] = Stamp(c)]
<1>1. Measured(c) = [c EXCEPT !.count = n, !.mode = m, !.fields = g]
  BY DEF Measured, Place, Stamp
<1>2. n \in Nat
  BY DEF Chip
<1>3. m \in Modes
  BY DEF Modes, Chip
<1>4. c.fields \in [0..2 -> Field]
  BY DEF Chip
<1>5. g \in [0..2 -> Field]
  BY <1>4, PlaceIs, StampIs
<1>6. g[Place(c)] = Stamp(c) /\ \A f \in 0..2 \ {Place(c)} : g[f] = c.fields[f]
  BY <1>4, PlaceIs
<1> HIDE DEF n, m, g
<1> DEFINE a == [c EXCEPT !.count = n]
           b == [a EXCEPT !.mode = m]
           d == [b EXCEPT !.fields = g]
<1>7. /\ a \in Chip /\ a.count = n /\ a.os = c.os /\ a.heat = c.heat /\ a.shared = c.shared
      /\ a.awake = c.awake
  BY <1>2, CountIs
<1>8. Measured(c) = d
  BY <1>1
<1> HIDE DEF a
<1>9. /\ b \in Chip /\ b.count = n /\ b.mode = m /\ b.os = a.os /\ b.heat = a.heat /\ b.shared = a.shared
      /\ b.awake = a.awake
  BY <1>3, <1>7, ModeIs
<1> HIDE DEF b
<1>10. /\ d \in Chip /\ d.count = b.count /\ d.mode = b.mode /\ d.os = b.os /\ d.heat = b.heat
       /\ d.shared = b.shared /\ d.awake = b.awake /\ d.fields = g
  BY <1>5, <1>9, FieldsIs
<1> HIDE DEF d
<1>11. d.count = c.count + 1 /\ d.mode = IF c.mode = "forced" THEN "sleep" ELSE c.mode
  BY <1>9, <1>10 DEF n, m
<1> QED
  BY <1>6, <1>7, <1>8, <1>9, <1>10, <1>11

LEMMA TakenIs ==
  ASSUME NEW f \in Field
  PROVE  Taken(f) \in Field /\ Taken(f).new = FALSE /\ Taken(f).number = f.number /\ Taken(f).index = f.index
BY DEF Taken, Field

(* Fields are as they were, or were read. *)
FieldsTaken(c, d) == \A f \in 0..2 : d.fields[f] = c.fields[f] \/ d.fields[f] = Taken(c.fields[f])

LEMMA ReadIs ==
  ASSUME NEW c \in Chip, NEW F \in SUBSET (0..2)
  PROVE  /\ Read(c, F) \in Chip
         /\ Read(c, F).mode = c.mode /\ Read(c, F).os = c.os /\ Read(c, F).heat = c.heat
         /\ Read(c, F).shared = c.shared /\ Read(c, F).count = c.count /\ Read(c, F).awake = c.awake
         /\ \A f \in F : Read(c, F).fields[f] = Taken(c.fields[f])
         /\ FieldsTaken(c, Read(c, F))
<1> DEFINE g == [f \in 0..2 |-> IF f \in F THEN Taken(c.fields[f]) ELSE c.fields[f]]
<1>1. c.fields \in [0..2 -> Field]
  BY DEF Chip
<1>2. g \in [0..2 -> Field]
  BY <1>1, TakenIs
<1>3. /\ \A f \in F : g[f] = Taken(c.fields[f])
      /\ \A f \in 0..2 : g[f] = c.fields[f] \/ g[f] = Taken(c.fields[f])
  OBVIOUS
<1>4. Read(c, F) = [c EXCEPT !.fields = g]
  BY DEF Read
<1> HIDE DEF g
<1>5. /\ Read(c, F) \in Chip /\ Read(c, F).fields = g
      /\ Read(c, F).mode = c.mode /\ Read(c, F).os = c.os /\ Read(c, F).heat = c.heat
      /\ Read(c, F).shared = c.shared /\ Read(c, F).count = c.count /\ Read(c, F).awake = c.awake
  BY <1>2, <1>4 DEF Chip
<1> QED
  BY <1>3, <1>5 DEF FieldsTaken

LEMMA NewChipIs ==
  /\ NewChip \in Chip /\ NewChip.mode = "sleep" /\ NewChip.awake = FALSE /\ NewChip.count = 0
  /\ NewChip.heat = 0 /\ NewChip.shared = 0
  /\ \A f \in 0..2 : NewChip.fields[f].new = FALSE
<1>1. [new |-> FALSE, index |-> 0, number |-> 0] \in Field
  BY DEF Field
<1> QED
  BY <1>1 DEF NewChip, Chip, Modes

-----------------------------------------------------------------------------
(* The sensor is initialised. *)

(* The coefficients are not there yet. *)
Begun(s, t) ==
  /\ t \in Still /\ t.data = s.data /\ t.chip.count = s.chip.count /\ s.faults <= t.faults
  /\ t.chip.fields[0] = s.chip.fields[0] \/ t.chip.fields[0].new = FALSE

LEMMA SoftReset ==
  ASSUME NEW s \in Still, NEW u \in Ignoring(bme68x_soft_reset(s))
  PROVE  Begun(s, u)
<1> DEFINE e == [NewChip EXCEPT !.count = s.chip.count, !.awake = s.chip.awake]
<1>1. s \in Driver /\ s.chip \in Chip /\ s.chip.awake = FALSE /\ s.chip.count \in Nat
  BY DEF Still, Driver, Chip
<1>2. /\ e \in Chip /\ e.awake = FALSE /\ e.count = s.chip.count
      /\ e.fields = NewChip.fields
  BY <1>1, NewChipIs DEF Chip
<1>3. PICK t \in Transfer(s, e) : u = [t EXCEPT !.rslt = "OK"]
  BY DEF bme68x_soft_reset, Ignoring
<1> HIDE DEF e
<1>4. Transferred(s, e, t)
  BY <1>1, <1>2, TransferOutcome
<1>5. t \in Still /\ "OK" \in Results
  BY <1>1, <1>2, <1>4 DEF Transferred, Still, Results
<1>6. u \in Still /\ u.chip = t.chip /\ u.data = t.data /\ s.faults <= u.faults
  <2>1. s.faults <= t.faults /\ t.data = s.data
    BY <1>4 DEF Transferred
  <2>2. u \in Still /\ u.chip = t.chip /\ u.data = t.data /\ u.faults = t.faults
    BY <1>3, <1>5 DEF Still, Driver
  <2> QED
    BY <2>1, <2>2
<1> QED
  BY <1>2, <1>4, <1>6, NewChipIs DEF Begun, Transferred

LEMMA BegunGoesOn ==
  ASSUME NEW s \in Still, NEW t, Begun(s, t), NEW u,
         u \in IF t.rslt = "OK" THEN Looks(t) \cup Faulty(t, "DEV_NOT_FOUND") ELSE {t}
  PROVE  Begun(s, u)
<1>1. t \in Still /\ t \in Driver /\ "DEV_NOT_FOUND" \in Results
  BY DEF Begun, Still, Results
<1>2. s.faults \in Nat /\ t.faults \in Nat /\ s.faults <= t.faults
  BY <1>1 DEF Begun, Still, Driver
<1>3. CASE u = t
  BY <1>3
<1>4. CASE t.rslt = "OK" /\ u \in Looks(t)
  <2>1. Kept(t, u) /\ u.chip = t.chip
    BY <1>1, <1>4, LooksKeeps
  <2>2. s.faults <= u.faults
    BY <1>2, <2>1 DEF Kept, Still, Driver
  <2> QED
    BY <2>1, <2>2 DEF Begun, Kept
<1>5. CASE u \in Faulty(t, "DEV_NOT_FOUND")
  <2>1. u \in Driver /\ u.chip = t.chip /\ u.data = t.data /\ u.faults = t.faults + 1
    BY <1>1, <1>5, FaultyOutcome
  <2> QED
    BY <1>1, <1>2, <2>1 DEF Begun, Still
<1> QED
  BY <1>3, <1>4, <1>5

LEMMA SensorInit ==
  ASSUME NEW s \in Still, NEW x \in bme68x_init(s)
  PROVE  Begun(s, x) /\ (x.rslt = "OK" => x.calib = TRUE)
<1>1. PICK f \in Then(Then(Then(Then(Then(Ignoring(bme68x_soft_reset(s)),
                   LAMBDA t : Looks(t) \cup Faulty(t, "DEV_NOT_FOUND")), Looks), Looks), Looks), Looks) :
        x \in IF f.rslt = "OK" THEN {[f EXCEPT !.calib = TRUE]} ELSE {f}
  BY DEF bme68x_init, Then
<1>2. PICK e \in Then(Then(Then(Then(Ignoring(bme68x_soft_reset(s)),
                   LAMBDA t : Looks(t) \cup Faulty(t, "DEV_NOT_FOUND")), Looks), Looks), Looks) :
        f \in IF e.rslt = "OK" THEN Looks(e) ELSE {e}
  BY <1>1 DEF Then
<1>3. PICK d \in Then(Then(Then(Ignoring(bme68x_soft_reset(s)),
                   LAMBDA t : Looks(t) \cup Faulty(t, "DEV_NOT_FOUND")), Looks), Looks) :
        e \in IF d.rslt = "OK" THEN Looks(d) ELSE {d}
  BY <1>2 DEF Then
<1>4. PICK c \in Then(Then(Ignoring(bme68x_soft_reset(s)),
                   LAMBDA t : Looks(t) \cup Faulty(t, "DEV_NOT_FOUND")), Looks) :
        d \in IF c.rslt = "OK" THEN Looks(c) ELSE {c}
  BY <1>3 DEF Then
<1>5. PICK b \in Then(Ignoring(bme68x_soft_reset(s)),
                   LAMBDA t : Looks(t) \cup Faulty(t, "DEV_NOT_FOUND")) :
        c \in IF b.rslt = "OK" THEN Looks(b) ELSE {b}
  BY <1>4 DEF Then
<1>6. PICK a \in Ignoring(bme68x_soft_reset(s)) :
        b \in IF a.rslt = "OK" THEN Looks(a) \cup Faulty(a, "DEV_NOT_FOUND") ELSE {a}
  BY <1>5 DEF Then
<1>7. Begun(s, a)
  BY SoftReset
<1>8. Begun(s, b)
  BY <1>6, <1>7, BegunGoesOn
<1>9. Begun(s, c)
  BY <1>5, <1>8, BegunGoesOn
<1>10. Begun(s, d)
  BY <1>4, <1>9, BegunGoesOn
<1>11. Begun(s, e)
  BY <1>3, <1>10, BegunGoesOn
<1>12. Begun(s, f)
  BY <1>2, <1>11, BegunGoesOn
<1>13. CASE f.rslt = "OK"
  <2>1. x = [f EXCEPT !.calib = TRUE] /\ f \in Still
    BY <1>1, <1>12, <1>13 DEF Begun
  <2>2. x \in Still /\ x.calib = TRUE /\ x.chip = f.chip /\ x.data = f.data /\ x.faults = f.faults
    BY <2>1 DEF Still, Driver
  <2> QED
    BY <1>12, <2>2 DEF Begun
<1>14. CASE f.rslt # "OK"
  BY <1>1, <1>12, <1>14
<1> QED
  BY <1>13, <1>14

-----------------------------------------------------------------------------
(* Reading the data. *)

LEMMA UnreadTaken ==
  ASSUME NEW c \in Chip, NEW d, NEW r \in Nat, Unread(c, r), FieldsTaken(c, d), d.count = c.count
  PROVE  Unread(d, r)
<1>1. c.fields[0] \in Field
  BY DEF Chip
<1>2. d.fields[0] = c.fields[0] \/ d.fields[0] = Taken(c.fields[0])
  BY DEF FieldsTaken
<1> QED
  BY <1>1, <1>2, TakenIs DEF Unread

LEMMA UnreadMeasured ==
  ASSUME NEW c \in Chip, NEW r \in Nat, Unread(c, r), r <= c.count
  PROVE  Unread(Measured(c), r)
<1>1. c.count \in Nat /\ c.fields[0] \in Field
  BY DEF Chip
<1>2. c.fields[0].number \in Nat
  BY <1>1 DEF Field
<1>3. CASE Place(c) = 0
  <2>1. Measured(c).fields[Place(c)] = Stamp(c) /\ Measured(c).count = c.count + 1
    BY MeasuredIs
  <2>2. Measured(c).fields[0].number = c.count + 1
    BY <1>3, <2>1, StampIs
  <2> QED
    BY <1>1, <2>1, <2>2 DEF Unread
<1>4. CASE Place(c) # 0
  <2>1. Measured(c).fields[0] = c.fields[0] /\ Measured(c).count = c.count + 1
    BY <1>4, MeasuredIs
  <2> QED
    BY <1>1, <1>2, <2>1 DEF Unread
<1> QED
  BY <1>3, <1>4

(* The chip but for its fields. *)
SameRegisters(s, t) ==
  /\ t.chip.mode = s.chip.mode /\ t.chip.count = s.chip.count
  /\ t.chip.os = s.chip.os /\ t.chip.heat = s.chip.heat /\ t.chip.shared = s.chip.shared

(* What reading field 0 once may come to. *)
Fetched(s, t) ==
  /\ t \in Still /\ t.calib = s.calib /\ s.faults <= t.faults
  /\ SameRegisters(s, t) /\ FieldsTaken(s.chip, t.chip)
  /\ t.rslt = "OK" => /\ s.chip.fields[0].new /\ t.data = <<s.chip.fields[0]>>
                      /\ t.chip.fields[0].new = FALSE
  /\ t.rslt # "OK" => t.data = s.data
  /\ t.faults = s.faults => t.rslt = IF s.chip.fields[0].new THEN "OK" ELSE "NO_NEW_DATA"

LEMMA LooksOn ==
  ASSUME NEW s \in Still, NEW t, Kept(s, t), Clean(s, t), t.chip = s.chip,
         NEW u, u \in IF t.rslt = "OK" THEN Looks(t) ELSE {t}
  PROVE  Kept(s, u) /\ Clean(s, u) /\ u.chip = s.chip
<1>1. CASE t.rslt = "OK"
  <2>1. t \in Still
    BY DEF Kept
  <2>2. Kept(t, u) /\ Clean(t, u) /\ u.chip = t.chip
    BY <1>1, <2>1, LooksKeeps
  <2> QED
    BY <2>2, KeptTransitive
<1>2. CASE t.rslt # "OK"
  BY <1>2
<1> QED
  BY <1>1, <1>2

(* The transfer of fields F. *)
LEMMA FieldsTransferred ==
  ASSUME NEW s \in Still, s.rslt = "OK", NEW F \in SUBSET (0..2),
         NEW t \in Transfer(s, Read(s.chip, F))
  PROVE  /\ t \in Still /\ t.calib = s.calib /\ t.data = s.data /\ s.faults <= t.faults
         /\ SameRegisters(s, t) /\ FieldsTaken(s.chip, t.chip)
         /\ t.rslt = "OK" => \A f \in F : t.chip.fields[f] = Taken(s.chip.fields[f])
         /\ t.faults = s.faults => t.rslt = "OK"
<1> DEFINE e == Read(s.chip, F)
<1>1. s \in Driver /\ s.chip \in Chip /\ s.chip.awake = FALSE
  BY DEF Still, Driver
<1>2. /\ e \in Chip /\ e.awake = FALSE /\ FieldsTaken(s.chip, e)
      /\ e.mode = s.chip.mode /\ e.os = s.chip.os /\ e.heat = s.chip.heat
      /\ e.shared = s.chip.shared /\ e.count = s.chip.count
      /\ \A f \in F : e.fields[f] = Taken(s.chip.fields[f])
  BY <1>1, ReadIs
<1>3. t \in Transfer(s, e)
  OBVIOUS
<1> HIDE DEF e
<1>4. Transferred(s, e, t)
  BY <1>1, <1>2, <1>3, TransferOutcome
<1>5. FieldsTaken(s.chip, s.chip)
  BY DEF FieldsTaken
<1>6. CASE t.chip = s.chip
  BY <1>1, <1>2, <1>4, <1>5, <1>6 DEF Transferred, SameRegisters, Still
<1>7. CASE t.chip = e
  BY <1>1, <1>2, <1>4, <1>7 DEF Transferred, SameRegisters, Still
<1> QED
  BY <1>4, <1>6, <1>7 DEF Transferred

LEMMA FieldFetched ==
  ASSUME NEW s \in Still, s.rslt = "OK", NEW x \in FieldRead(s)
  PROVE  Fetched(s, x)
<1> DEFINE f == s.chip.fields[0]
<1>1. PICK t \in Transfer(s, Read(s.chip, {0})) :
        x \in IF t.rslt = "OK"
              THEN IF ~f.new THEN {[t EXCEPT !.rslt = "NO_NEW_DATA"]}
                   ELSE Then(Then(Then(Looks(t), Looks), Looks), LAMBDA u : {[u EXCEPT !.data = <<f>>]})
              ELSE {t}
  BY DEF FieldRead, Then
<1>2. /\ t \in Still /\ t.calib = s.calib /\ t.data = s.data /\ s.faults <= t.faults
      /\ SameRegisters(s, t) /\ FieldsTaken(s.chip, t.chip)
      /\ t.rslt = "OK" => t.chip.fields[0] = Taken(f)
      /\ t.faults = s.faults => t.rslt = "OK"
  BY FieldsTransferred
<1>3. f \in Field /\ s.faults \in Nat /\ t.faults \in Nat
  BY <1>2 DEF Still, Driver, Chip
<1>4. CASE t.rslt # "OK"
  BY <1>1, <1>2, <1>4 DEF Fetched
<1>5. CASE t.rslt = "OK" /\ ~f.new
  <2>1. x = [t EXCEPT !.rslt = "NO_NEW_DATA"] /\ "NO_NEW_DATA" \in Results /\ "NO_NEW_DATA" # "OK"
    BY <1>1, <1>5 DEF Results
  <2>2. Kept(t, x) /\ x.rslt # "OK" /\ x.chip = t.chip
    BY <1>2, <2>1, ReportIs
  <2>3. s.faults <= x.faults
    BY <1>2, <1>3, <2>2 DEF Kept, Still, Driver
  <2>4. x.rslt = "NO_NEW_DATA"
    BY <1>2, <2>1 DEF Still, Driver
  <2> QED
    BY <1>2, <1>5, <2>2, <2>3, <2>4 DEF Fetched, Kept, SameRegisters
<1>6. CASE t.rslt = "OK" /\ f.new
  <2>1. PICK c \in Then(Then(Looks(t), Looks), Looks) :
          x \in IF c.rslt = "OK" THEN {[c EXCEPT !.data = <<f>>]} ELSE {c}
    BY <1>1, <1>6 DEF Then
  <2>2. PICK b \in Then(Looks(t), Looks) : c \in IF b.rslt = "OK" THEN Looks(b) ELSE {b}
    BY <2>1 DEF Then
  <2>3. PICK a \in Looks(t) : b \in IF a.rslt = "OK" THEN Looks(a) ELSE {a}
    BY <2>2 DEF Then
  <2>4. Kept(t, a) /\ Clean(t, a) /\ a.chip = t.chip
    BY <1>2, <1>6, LooksKeeps
  <2>5. Kept(t, b) /\ Clean(t, b) /\ b.chip = t.chip
    BY <1>2, <2>3, <2>4, LooksOn
  <2>6. Kept(t, c) /\ Clean(t, c) /\ c.chip = t.chip
    BY <1>2, <2>2, <2>5, LooksOn
  <2>7. s.faults <= c.faults /\ (c.faults = s.faults => c.rslt = "OK")
    BY <1>2, <1>3, <2>6 DEF Kept, Clean, Still, Driver
  <2>8. c \in Still /\ c.calib = s.calib /\ c.data = s.data
    BY <1>2, <2>6 DEF Kept
  <2>9. CASE c.rslt # "OK"
    <3>1. x = c
      BY <2>1, <2>9
    <3> QED
      BY <1>2, <2>6, <2>7, <2>8, <2>9, <3>1 DEF Fetched, SameRegisters
  <2>10. CASE c.rslt = "OK"
    <3>1. x = [c EXCEPT !.data = <<f>>]
      BY <2>1, <2>10
    <3>2. <<f>> \in Seq(Field)
      BY <1>3
    <3> HIDE DEF f
    <3>3. /\ x \in Still /\ x.chip = c.chip /\ x.calib = c.calib /\ x.faults = c.faults
          /\ x.rslt = c.rslt /\ x.data = <<f>>
      BY <2>8, <3>1, <3>2 DEF Still, Driver
    <3>4. x.chip.fields[0].new = FALSE
      <4>1. t.chip.fields[0] = Taken(f) /\ x.chip = t.chip
        BY <1>2, <1>6, <2>6, <3>3
      <4>2. Taken(f).new = FALSE
        BY <1>3, TakenIs
      <4> QED
        BY <4>1, <4>2
    <3>5. SameRegisters(s, x) /\ FieldsTaken(s.chip, x.chip)
      BY <1>2, <2>6, <3>3 DEF SameRegisters
    <3>6. x.calib = s.calib /\ s.faults <= x.faults /\ x.rslt = "OK"
      BY <2>7, <2>8, <2>10, <3>3
    <3>7. s.chip.fields[0].new /\ x.data = <<s.chip.fields[0]>>
      BY <1>6, <3>3 DEF f
    <3> QED
      BY <3>3, <3>4, <3>5, <3>6, <3>7 DEF Fetched
  <2> QED
    BY <2>9, <2>10
<1> QED
  BY <1>4, <1>5, <1>6

(* A reading in forced mode is of a measurement later than the r-th, when   *)
(* field 0 held one, or it fails; undisturbed, it is the field's.           *)
Delivered(s, r, x) ==
  /\ x \in Still /\ x.calib = s.calib /\ s.faults <= x.faults
  /\ x.chip.os = s.chip.os /\ x.chip.heat = s.chip.heat
  /\ s.chip.count <= x.chip.count /\ Unread(x.chip, r)
  /\ x.rslt = "OK" => /\ Len(x.data) = 1 /\ r < x.data[1].number /\ x.data[1].number <= x.chip.count
                      /\ x.chip.fields[0].new = FALSE
  /\ x.rslt # "OK" => x.data = s.data
  /\ x.faults = s.faults /\ s.chip.fields[0].new =>
       /\ x.rslt = "OK" /\ x.data[1] = s.chip.fields[0]
       /\ x.chip.mode = s.chip.mode /\ x.chip.count = s.chip.count

(* Undisturbed, while the measurement runs and nothing lies in the field,   *)
(* the tries end with its result or without one.                            *)
Tried(s, x) ==
  x.faults = s.faults /\ ~s.chip.fields[0].new /\ s.chip.mode = "forced" =>
    \/ x.rslt = "OK" /\ x.data[1].number = s.chip.count + 1
    \/ x.rslt = "NO_NEW_DATA" /\ x.chip.mode = "forced"

LEMMA FetchedIsDelivered ==
  ASSUME NEW s \in Still, NEW r \in Nat, Unread(s.chip, r), NEW x, Fetched(s, x)
  PROVE  Delivered(s, r, x)
<1>1. s.chip \in Chip /\ s.chip.count \in Nat
  BY DEF Still, Driver, Chip
<1>2. Unread(x.chip, r)
  BY <1>1, UnreadTaken DEF Fetched, SameRegisters
<1>3. s.chip.count <= x.chip.count
  BY <1>1 DEF Fetched, SameRegisters
<1>4. ASSUME x.rslt = "OK"
      PROVE  /\ Len(x.data) = 1 /\ r < x.data[1].number /\ x.data[1].number <= x.chip.count
             /\ x.chip.fields[0].new = FALSE /\ x.data[1] = s.chip.fields[0]
  <2> DEFINE g == s.chip.fields[0]
  <2>1. x.data = <<g>> /\ x.chip.fields[0].new = FALSE /\ g.new
    BY <1>4 DEF Fetched
  <2>2. r < g.number /\ g.number <= s.chip.count
    BY <2>1 DEF Unread
  <2>3. x.chip.count = s.chip.count
    BY DEF Fetched, SameRegisters
  <2> HIDE DEF g
  <2>4. Len(x.data) = 1 /\ x.data[1] = g
    BY <2>1
  <2> QED
    BY <2>1, <2>2, <2>3, <2>4 DEF g
<1> QED
  BY <1>2, <1>3, <1>4 DEF Delivered, Fetched, SameRegisters

LEMMA ForcedReading ==
  ASSUME NEW s \in Still, s.rslt = "OK", NEW r \in Nat, Unread(s.chip, r), r <= s.chip.count,
         NEW x \in read_field_data(s)
  PROVE  Delivered(s, r, x) /\ Tried(s, x)
<1>1. PICK t \in FieldRead(s) :
        x \in IF t.rslt = "NO_NEW_DATA"
              THEN {t} \cup IF t.chip.mode = "forced"
                            THEN FieldRead([t EXCEPT !.rslt = "OK", !.chip = Measured(t.chip)]) ELSE {}
              ELSE {t}
  BY DEF read_field_data
<1>2. Fetched(s, t)
  BY FieldFetched
<1>3. CASE x = t
  <2>1. Tried(s, x)
    BY <1>2, <1>3 DEF Tried, Fetched, SameRegisters
  <2> QED
    BY <1>2, <1>3, <2>1, FetchedIsDelivered
<1>4. CASE x # t
  <2> DEFINE m == Measured(t.chip)
             u == [t EXCEPT !.rslt = "OK", !.chip = m]
  <2>1. t.rslt = "NO_NEW_DATA" /\ x \in FieldRead(u)
    BY <1>1, <1>4
  <2>2. /\ t \in Still /\ t.calib = s.calib /\ s.faults <= t.faults /\ t.data = s.data
        /\ SameRegisters(s, t) /\ FieldsTaken(s.chip, t.chip)
        /\ ~(t.faults = s.faults /\ s.chip.fields[0].new)
    BY <1>2, <2>1 DEF Fetched
  <2>3. s.chip \in Chip /\ t.chip \in Chip /\ t.chip.awake = FALSE /\ s.chip.count \in Nat
    BY <2>2 DEF Still, Driver, Chip
  <2>4. Unread(t.chip, r) /\ t.chip.count = s.chip.count
    BY <2>2, <2>3, UnreadTaken DEF SameRegisters
  <2>5. /\ m \in Chip /\ m.awake = FALSE /\ m.count = s.chip.count + 1
        /\ m.os = s.chip.os /\ m.heat = s.chip.heat
    BY <2>2, <2>3, <2>4, MeasuredIs DEF SameRegisters
  <2>5a. m.fields[0].new /\ m.fields[0].number = s.chip.count + 1
    <3>1. t.chip.mode = "forced"
      BY <1>1, <1>4, <2>1
    <3>2. Place(t.chip) = 0
      BY <2>3, <3>1, PlaceIs
    <3> QED
      BY <2>3, <2>4, <3>2, MeasuredIs, StampIs
  <2>6. Unread(m, r)
    BY <2>3, <2>4, UnreadMeasured
  <2> HIDE DEF m
  <2>7. /\ u \in Still /\ u.rslt = "OK" /\ u.chip = m /\ u.calib = t.calib /\ u.data = t.data
        /\ u.faults = t.faults
    BY <2>2, <2>5 DEF Still, Driver, Results
  <2> HIDE DEF u
  <2>8. Delivered(u, r, x) /\ Fetched(u, x)
    BY <2>1, <2>6, <2>7, FieldFetched, FetchedIsDelivered
  <2>9. s.faults \in Nat /\ t.faults \in Nat /\ x.faults \in Nat /\ x.chip.count \in Nat
    BY <2>2, <2>8 DEF Delivered, Still, Driver, Chip
  <2>10. s.faults <= x.faults /\ s.chip.count <= x.chip.count /\ (x.faults = s.faults => t.faults = s.faults)
    BY <2>2, <2>3, <2>5, <2>7, <2>8, <2>9 DEF Delivered
  <2>11. Tried(s, x)
    <3> SUFFICES ASSUME x.faults = s.faults
                 PROVE  x.rslt = "OK" /\ x.data[1].number = s.chip.count + 1
      BY DEF Tried
    <3>1. x.faults = u.faults
      BY <2>2, <2>7, <2>9, <2>10
    <3>2. u.chip.fields[0].new /\ u.chip.fields[0].number = s.chip.count + 1
      BY <2>5a, <2>7
    <3> QED
      BY <2>8, <3>1, <3>2 DEF Delivered
  <2> QED
    BY <2>2, <2>5, <2>7, <2>8, <2>10, <2>11 DEF Delivered
<1> QED
  BY <1>3, <1>4

(* The chip does not measure while its data is read in another mode. *)
LEMMA OtherReading ==
  ASSUME NEW s \in Still, s.rslt = "OK", s.chip.mode # "forced", NEW x \in read_field_data(s)
  PROVE  Fetched(s, x)
<1>1. PICK t \in FieldRead(s) :
        x \in IF t.rslt = "NO_NEW_DATA"
              THEN {t} \cup IF t.chip.mode = "forced"
                            THEN FieldRead([t EXCEPT !.rslt = "OK", !.chip = Measured(t.chip)]) ELSE {}
              ELSE {t}
  BY DEF read_field_data
<1>2. Fetched(s, t) /\ t.chip.mode # "forced"
  BY FieldFetched DEF Fetched, SameRegisters
<1> QED
  BY <1>1, <1>2

-----------------------------------------------------------------------------
(* The three fields, sorted. *)

(* Of two fields the first is the older, and new if the other is. *)
Older(a, b) == b.new => a.new /\ a.number < b.number

AgeOrder(d) == \A i, j \in 1..Len(d) : i < j => Older(d[i], d[j])

(* Two measurements of the same three, with the indices that they get.      *)
Stamped(a) == a.index = (FirstIndex + a.number + 255) % 256
Close(a, b) ==
  a.new /\ b.new =>
    /\ Stamped(a) /\ Stamped(b) /\ 1 <= a.number /\ 1 <= b.number
    /\ a.number # b.number /\ a.number <= b.number + 2 /\ b.number <= a.number + 2

(* The chip's 8-bit index, one and two measurements on. *)
LEMMA Wraps ==
  ASSUME NEW n \in Nat, NEW k \in {1, 2}
  PROVE  \/ (n + k) % 256 = (n % 256) + k /\ (n % 256) + k < 256
         \/ ((n + k) % 256) + 256 = (n % 256) + k
OBVIOUS

LEMMA Ahead ==
  ASSUME NEW m \in Nat, NEW n \in Nat, n < m, m <= n + 2
  PROVE  (m % 256 < (n % 256) + 3 /\ n % 256 < m % 256) \/ n % 256 > (m % 256) + 2
<1>1. \E k \in {1, 2} : m = n + k
  <2>1. m = n + 1 \/ m = n + 2
    OBVIOUS
  <2> QED
    BY <2>1
<1>2. PICK k \in {1, 2} : m = n + k
  BY <1>1
<1>3. n % 256 \in 0..255 /\ m % 256 \in 0..255
  OBVIOUS
<1> DEFINE a == m % 256
           b == n % 256
<1>4. (a = b + k /\ b + k < 256) \/ a + 256 = b + k
  BY <1>2, Wraps
<1>5. a \in Nat /\ b \in Nat
  BY <1>3
<1> HIDE DEF a, b
<1>6. (a < b + 3 /\ b < a) \/ b > a + 2
  BY <1>4, <1>5
<1> QED
  BY <1>6 DEF a, b

LEMMA Behind ==
  ASSUME NEW m \in Nat, NEW n \in Nat, m < n, n <= m + 2
  PROVE  ~((m % 256 < (n % 256) + 3 /\ n % 256 < m % 256) \/ n % 256 > (m % 256) + 2)
<1>1. n = m + 1 \/ n = m + 2
  OBVIOUS
<1>2. PICK k \in {1, 2} : n = m + k
  BY <1>1
<1>3. n % 256 \in 0..255 /\ m % 256 \in 0..255
  OBVIOUS
<1> DEFINE a == m % 256
           b == n % 256
<1>4. (b = a + k /\ a + k < 256) \/ b + 256 = a + k
  BY <1>2, Wraps
<1>5. a \in Nat /\ b \in Nat /\ b < 256 /\ a < 256
  BY <1>3
<1> HIDE DEF a, b
<1>6. ~((a < b + 3 /\ b < a) \/ b > a + 2)
  BY <1>4, <1>5
<1> QED
  BY <1>6 DEF a, b

LEMMA Around ==
  ASSUME NEW m \in Nat, NEW n \in Nat, m # n, m <= n + 2, n <= m + 2
  PROVE  n < m <=> (m % 256 < (n % 256) + 3 /\ n % 256 < m % 256) \/ n % 256 > (m % 256) + 2
<1>1. CASE n < m
  <2>1. (m % 256 < (n % 256) + 3 /\ n % 256 < m % 256) \/ n % 256 > (m % 256) + 2
    BY <1>1, Ahead
  <2> QED
    BY <1>1, <2>1
<1>2. CASE m < n
  <2>1. ~((m % 256 < (n % 256) + 3 /\ n % 256 < m % 256) \/ n % 256 > (m % 256) + 2)
    BY <1>2, Behind
  <2> QED
    BY <1>2, <2>1
<1> QED
  BY <1>1, <1>2

LEMMA SwapIs ==
  ASSUME NEW a \in Field, NEW b \in Field, Close(a, b)
  PROVE  Swap(a, b) <=> b.new /\ (a.new => b.number < a.number)
<1>1. a.index \in 0..255 /\ b.index \in 0..255 /\ a.number \in Nat /\ b.number \in Nat
  BY DEF Field
<1>2. CASE ~a.new \/ ~b.new
  BY <1>2 DEF Swap
<1>3. CASE a.new /\ b.new
  <2> DEFINE m == FirstIndex + a.number + 255
             n == FirstIndex + b.number + 255
  <2>1. m \in Nat /\ n \in Nat
    BY <1>1, Bme68xAssumption
  <2>2. a.index = m % 256 /\ b.index = n % 256
    BY <1>3 DEF Close, Stamped
  <2>3. (b.number < a.number <=> n < m) /\ m # n /\ m <= n + 2 /\ n <= m + 2
    BY <1>1, <1>3, Bme68xAssumption DEF Close
  <2> HIDE DEF m, n
  <2>4. n < m <=> (m % 256 < (n % 256) + 3 /\ n % 256 < m % 256) \/ n % 256 > (m % 256) + 2
    BY <2>1, <2>3, Around
  <2> QED
    BY <1>3, <2>1, <2>2, <2>3, <2>4 DEF Swap
<1> QED
  BY <1>2, <1>3

(* Two of three change places. *)
LEMMA Exchanged ==
  ASSUME NEW x, NEW y, NEW z
  PROVE  /\ [<<x, y, z>> EXCEPT ![1] = y, ![2] = x] = <<y, x, z>>
         /\ [<<x, y, z>> EXCEPT ![1] = z, ![3] = x] = <<z, y, x>>
         /\ [<<x, y, z>> EXCEPT ![2] = z, ![3] = y] = <<x, z, y>>
OBVIOUS

LEMMA ComparedIs ==
  ASSUME NEW x, NEW y, NEW z
  PROVE  /\ Compared(<<x, y, z>>, 1, 2) = IF Swap(x, y) THEN <<y, x, z>> ELSE <<x, y, z>>
         /\ Compared(<<x, y, z>>, 1, 3) = IF Swap(x, z) THEN <<z, y, x>> ELSE <<x, y, z>>
         /\ Compared(<<x, y, z>>, 2, 3) = IF Swap(y, z) THEN <<x, z, y>> ELSE <<x, y, z>>
<1> DEFINE d == <<x, y, z>>
<1>1. d[1] = x /\ d[2] = y /\ d[3] = z
  OBVIOUS
<1> HIDE DEF d
<1>2. Compared(d, 1, 2) = IF Swap(x, y) THEN [d EXCEPT ![1] = y, ![2] = x] ELSE d
  BY <1>1 DEF Compared
<1>3. Compared(d, 1, 3) = IF Swap(x, z) THEN [d EXCEPT ![1] = z, ![3] = x] ELSE d
  BY <1>1 DEF Compared
<1>4. Compared(d, 2, 3) = IF Swap(y, z) THEN [d EXCEPT ![2] = z, ![3] = y] ELSE d
  BY <1>1 DEF Compared
<1>5. /\ [d EXCEPT ![1] = y, ![2] = x] = <<y, x, z>>
      /\ [d EXCEPT ![1] = z, ![3] = x] = <<z, y, x>>
      /\ [d EXCEPT ![2] = z, ![3] = y] = <<x, z, y>>
  BY Exchanged DEF d
<1> QED
  BY <1>2, <1>3, <1>4, <1>5 DEF d

LEMMA ThreeInOrder ==
  ASSUME NEW x \in Field, NEW y \in Field, NEW z \in Field,
         Older(x, y), Older(y, z), Older(x, z), NEW d, d = <<x, y, z>>
  PROVE  d \in Seq(Field) /\ AgeOrder(d)
<1>1. Len(d) = 3 /\ d[1] = x /\ d[2] = y /\ d[3] = z /\ d \in Seq(Field)
  OBVIOUS
<1>2. \A i, j \in 1..3 : i < j => (i = 1 /\ j = 2) \/ (i = 2 /\ j = 3) \/ (i = 1 /\ j = 3)
  OBVIOUS
<1> QED
  BY <1>1, <1>2 DEF AgeOrder

(* What the comparison says of two fields. *)
LEMMA SwapOrders ==
  ASSUME NEW a \in Field, NEW b \in Field, Close(a, b)
  PROVE  Close(b, a) /\ (Swap(a, b) => Older(b, a)) /\ (~Swap(a, b) => Older(a, b))
<1>1. a.number \in Nat /\ b.number \in Nat
  BY DEF Field
<1> QED
  BY <1>1, SwapIs DEF Close, Older

LEMMA OlderTransitive ==
  ASSUME NEW a \in Field, NEW b \in Field, NEW c \in Field, Older(a, b), Older(b, c)
  PROVE  Older(a, c)
<1>1. a.number \in Nat /\ b.number \in Nat /\ c.number \in Nat
  BY DEF Field
<1> QED
  BY <1>1 DEF Older

(* The second and the third comparison. *)
LEMMA SortedFromTwo ==
  ASSUME NEW x \in Field, NEW y \in Field, NEW z \in Field,
         Close(x, z), Close(y, z), Close(y, x), Older(x, y),
         NEW d, d = Compared(Compared(<<x, y, z>>, 1, 3), 2, 3)
  PROVE  d \in Seq(Field) /\ AgeOrder(d)
<1>1. CASE Swap(x, z)
  <2>1. Older(z, x) /\ Older(z, y)
    BY <1>1, SwapOrders, OlderTransitive
  <2>2. Compared(<<x, y, z>>, 1, 3) = <<z, y, x>>
    BY <1>1, ComparedIs
  <2>3. CASE Swap(y, x)
    <3>1. d = <<z, x, y>>
      BY <2>2, <2>3, ComparedIs
    <3> QED
      BY <2>1, <3>1, ThreeInOrder
  <2>4. CASE ~Swap(y, x)
    <3>1. d = <<z, y, x>>
      BY <2>2, <2>4, ComparedIs
    <3>2. Older(y, x)
      BY <2>4, SwapOrders
    <3> QED
      BY <2>1, <3>1, <3>2, ThreeInOrder
  <2> QED
    BY <2>3, <2>4
<1>2. CASE ~Swap(x, z)
  <2>1. Older(x, z)
    BY <1>2, SwapOrders
  <2>2. Compared(<<x, y, z>>, 1, 3) = <<x, y, z>>
    BY <1>2, ComparedIs
  <2>3. CASE Swap(y, z)
    <3>1. d = <<x, z, y>>
      BY <2>2, <2>3, ComparedIs
    <3>2. Older(z, y)
      BY <2>3, SwapOrders
    <3> QED
      BY <2>1, <3>1, <3>2, ThreeInOrder
  <2>4. CASE ~Swap(y, z)
    <3>1. d = <<x, y, z>>
      BY <2>2, <2>4, ComparedIs
    <3>2. Older(y, z)
      BY <2>4, SwapOrders
    <3> QED
      BY <2>1, <3>1, <3>2, ThreeInOrder
  <2> QED
    BY <2>3, <2>4
<1> QED
  BY <1>1, <1>2

LEMMA SortedIs ==
  ASSUME NEW x \in Field, NEW y \in Field, NEW z \in Field,
         Close(x, y), Close(x, z), Close(y, z),
         NEW d, d = Sorted(<<x, y, z>>)
  PROVE  d \in Seq(Field) /\ AgeOrder(d)
<1>1. d = Compared(Compared(Compared(<<x, y, z>>, 1, 2), 1, 3), 2, 3)
  BY DEF Sorted
<1>2. Close(y, x)
  BY SwapOrders
<1>3. CASE Swap(x, y)
  <2>1. Older(y, x) /\ Compared(<<x, y, z>>, 1, 2) = <<y, x, z>>
    BY <1>3, SwapOrders, ComparedIs
  <2>2. d = Compared(Compared(<<y, x, z>>, 1, 3), 2, 3)
    BY <1>1, <2>1
  <2> QED
    BY <2>1, <2>2, SortedFromTwo
<1>4. CASE ~Swap(x, y)
  <2>1. Older(x, y) /\ Compared(<<x, y, z>>, 1, 2) = <<x, y, z>>
    BY <1>4, SwapOrders, ComparedIs
  <2>2. d = Compared(Compared(<<x, y, z>>, 1, 3), 2, 3)
    BY <1>1, <2>1
  <2> QED
    BY <1>2, <2>1, <2>2, SortedFromTwo
<1> QED
  BY <1>3, <1>4

-----------------------------------------------------------------------------
(* The fields outside forced mode. *)

LEMMA InTurnIs ==
  ASSUME NEW c \in Chip, InTurn(c), NEW f \in 0..2, c.fields[f].new
  PROVE  /\ 1 <= c.fields[f].number /\ c.fields[f].number <= c.count /\ c.count < c.fields[f].number + 3
         /\ c.fields[f].number % 3 = (f + 1) % 3 /\ Stamped(c.fields[f])
BY DEF InTurn, Stamped

LEMMA InTurnClose ==
  ASSUME NEW c \in Chip, InTurn(c), NEW f \in 0..2, NEW g \in 0..2, f # g
  PROVE  Close(c.fields[f], c.fields[g])
<1> DEFINE a == c.fields[f]
           b == c.fields[g]
<1>1. a \in Field /\ b \in Field /\ c.count \in Nat
  BY DEF Chip
<1>2. SUFFICES ASSUME a.new, b.new
               PROVE  /\ Stamped(a) /\ Stamped(b) /\ 1 <= a.number /\ 1 <= b.number
                      /\ a.number # b.number /\ a.number <= b.number + 2 /\ b.number <= a.number + 2
  BY DEF Close
<1>3. /\ 1 <= a.number /\ a.number <= c.count /\ c.count < a.number + 3
      /\ a.number % 3 = (f + 1) % 3 /\ Stamped(a)
  BY <1>2, InTurnIs
<1>4. /\ 1 <= b.number /\ b.number <= c.count /\ c.count < b.number + 3
      /\ b.number % 3 = (g + 1) % 3 /\ Stamped(b)
  BY <1>2, InTurnIs
<1>5. a.number \in Nat /\ b.number \in Nat
  BY <1>1 DEF Field
<1>6. (f + 1) % 3 # (g + 1) % 3
  OBVIOUS
<1> HIDE DEF a, b
<1> QED
  BY <1>1, <1>3, <1>4, <1>5, <1>6

LEMMA InTurnTaken ==
  ASSUME NEW c \in Chip, NEW d, InTurn(c), FieldsTaken(c, d), d.count = c.count
  PROVE  InTurn(d)
<1>1. ASSUME NEW f \in 0..2, d.fields[f].new
      PROVE  d.fields[f] = c.fields[f]
  <2>1. c.fields[f] \in Field
    BY DEF Chip
  <2> QED
    BY <1>1, <2>1, TakenIs DEF FieldsTaken
<1> QED
  BY <1>1 DEF InTurn

LEMMA InTurnMeasured ==
  ASSUME NEW c \in Chip, c.mode # "forced", InTurn(c)
  PROVE  InTurn(Measured(c))
<1> DEFINE d == Measured(c)
           p == c.count % 3
<1>1. /\ p \in 0..2 /\ d.count = c.count + 1 /\ d.fields[p] = Stamp(c)
      /\ \A f \in 0..2 \ {p} : d.fields[f] = c.fields[f]
  BY MeasuredIs, PlaceIs
<1>2. c.count \in Nat /\ FirstIndex \in Nat
  BY Bme68xAssumption DEF Chip
<1>3. Stamp(c).number = c.count + 1 /\ Stamp(c).index = (FirstIndex + c.count) % 256
  BY StampIs
<1> HIDE DEF d
<1>4. /\ 1 <= d.fields[p].number /\ d.fields[p].number <= d.count /\ d.count < d.fields[p].number + 3
      /\ d.fields[p].number % 3 = (p + 1) % 3
  BY <1>1, <1>2, <1>3
<1>5. d.fields[p].index = (FirstIndex + d.fields[p].number + 255) % 256
  BY <1>1, <1>2, <1>3
<1>6. ASSUME NEW f \in 0..2 \ {p}, d.fields[f].new
      PROVE  /\ 1 <= d.fields[f].number /\ d.fields[f].number <= d.count /\ d.count < d.fields[f].number + 3
             /\ d.fields[f].number % 3 = (f + 1) % 3
             /\ d.fields[f].index = (FirstIndex + d.fields[f].number + 255) % 256
  <2> DEFINE n == c.fields[f].number
  <2>1. d.fields[f] = c.fields[f] /\ c.fields[f] \in Field
    BY <1>1 DEF Chip
  <2>2. 1 <= n /\ n <= c.count /\ c.count < n + 3 /\ n % 3 = (f + 1) % 3 /\ Stamped(c.fields[f])
    BY <1>6, <2>1, InTurnIs
  <2>3. n \in Nat
    BY <2>1 DEF Field
  <2> HIDE DEF n
  <2>4. n # c.count - 2
    BY <1>2, <2>2, <2>3
  <2>5. n <= c.count + 1 /\ c.count + 1 < n + 3
    BY <1>2, <2>2, <2>3, <2>4
  <2> QED
    BY <1>1, <2>1, <2>2, <2>5 DEF n, Stamped
<1>7. ASSUME NEW f \in 0..2, d.fields[f].new
      PROVE  /\ 1 <= d.fields[f].number /\ d.fields[f].number <= d.count /\ d.count < d.fields[f].number + 3
             /\ d.fields[f].number % 3 = (f + 1) % 3
             /\ d.fields[f].index = (FirstIndex + d.fields[f].number + 255) % 256
  BY <1>4, <1>5, <1>6, <1>7
<1> QED
  BY <1>7 DEF InTurn, d

(* All three fields are read, or none is delivered. *)
Gathered(s, x) ==
  /\ x \in Still /\ x.calib = s.calib /\ s.faults <= x.faults
  /\ SameRegisters(s, x) /\ FieldsTaken(s.chip, x.chip)
  /\ AgeOrder(x.data)

LEMMA NothingInOrder == AgeOrder(<<>>)
BY DEF AgeOrder

LEMMA AllFetched ==
  ASSUME NEW s \in Still, s.rslt = "OK", s.data = <<>>, InTurn(s.chip), NEW x \in read_all_field_data(s)
  PROVE  Gathered(s, x)
<1> DEFINE c == s.chip.fields
           d == Sorted(<<c[0], c[1], c[2]>>)
<1>1. PICK u \in Then(Transfer(s, Read(s.chip, 0..2)), Looks) :
        x \in IF u.rslt = "OK"
              THEN {[u EXCEPT !.data = d,
                              !.rslt = IF \A f \in 0..2 : ~c[f].new THEN "NO_NEW_DATA" ELSE u.rslt]}
              ELSE {u}
  BY DEF read_all_field_data, Then
<1>2. PICK t \in Transfer(s, Read(s.chip, 0..2)) : u \in IF t.rslt = "OK" THEN Looks(t) ELSE {t}
  BY <1>1 DEF Then
<1>3. /\ t \in Still /\ t.calib = s.calib /\ t.data = s.data /\ s.faults <= t.faults
      /\ SameRegisters(s, t) /\ FieldsTaken(s.chip, t.chip)
  BY FieldsTransferred
<1>4. /\ u \in Still /\ u.calib = s.calib /\ u.data = s.data /\ s.faults <= u.faults
      /\ SameRegisters(s, u) /\ FieldsTaken(s.chip, u.chip)
  <2>1. CASE t.rslt = "OK"
    <3>1. Kept(t, u) /\ u.chip = t.chip
      BY <1>2, <1>3, <2>1, LooksKeeps
    <3>2. s.faults \in Nat /\ t.faults \in Nat /\ u.faults \in Nat
      BY <1>3, <3>1 DEF Kept, Still, Driver
    <3> QED
      BY <1>3, <3>1, <3>2 DEF Kept, SameRegisters
  <2>2. CASE t.rslt # "OK"
    BY <1>2, <1>3, <2>2
  <2> QED
    BY <2>1, <2>2
<1>5. CASE u.rslt # "OK"
  BY <1>1, <1>4, <1>5, NothingInOrder DEF Gathered
<1>6. CASE u.rslt = "OK"
  <2>1. s.chip \in Chip /\ c[0] \in Field /\ c[1] \in Field /\ c[2] \in Field
    BY DEF Still, Driver, Chip
  <2>2. Close(c[0], c[1]) /\ Close(c[0], c[2]) /\ Close(c[1], c[2])
    BY <2>1, InTurnClose
  <2> DEFINE r == IF \A f \in 0..2 : ~c[f].new THEN "NO_NEW_DATA" ELSE u.rslt
  <2>3. x = [u EXCEPT !.data = d, !.rslt = r]
    BY <1>1, <1>6
  <2>4. r \in Results
    BY <1>6 DEF Results
  <2> HIDE DEF c, r
  <2>5. d \in Seq(Field) /\ AgeOrder(d)
    BY <2>1, <2>2, SortedIs
  <2> HIDE DEF d
  <2>6. /\ x \in Still /\ x.data = d /\ x.chip = u.chip /\ x.calib = u.calib /\ x.faults = u.faults
    BY <1>4, <2>3, <2>4, <2>5 DEF Still, Driver
  <2> QED
    BY <1>4, <2>5, <2>6 DEF Gathered, SameRegisters
<1> QED
  BY <1>5, <1>6

(* Any call of bme68x_get_data while the chip is not in forced mode. *)
LEMMA AnyReading ==
  ASSUME NEW s \in Still, s.rslt = "OK", s.data = <<>>, s.chip.mode # "forced", InTurn(s.chip),
         NEW mode \in Modes, NEW x \in bme68x_get_data(s, mode)
  PROVE  Gathered(s, x)
<1>1. CASE mode = "forced"
  <2>1. x \in read_field_data(s)
    BY <1>1 DEF bme68x_get_data
  <2>2. Fetched(s, x)
    BY <2>1, OtherReading
  <2>3. x.data = <<>> \/ x.data = <<s.chip.fields[0]>>
    BY <2>2 DEF Fetched
  <2>4. AgeOrder(x.data)
    <3>1. CASE x.data = <<>>
      BY <3>1, NothingInOrder
    <3>2. CASE x.data = <<s.chip.fields[0]>>
      <4>1. Len(x.data) = 1
        BY <3>2
      <4> QED
        BY <4>1 DEF AgeOrder
    <3> QED
      BY <2>3, <3>1, <3>2
  <2> QED
    BY <2>2, <2>4 DEF Fetched, Gathered
<1>2. CASE mode = "parallel"
  BY <1>2, AllFetched DEF bme68x_get_data
<1>3. CASE mode = "sleep"
  <2>1. x = [s EXCEPT !.rslt = "DEFINE_OP_MODE"] /\ "DEFINE_OP_MODE" \in Results
    BY <1>3 DEF bme68x_get_data, Results
  <2>2. Kept(s, x) /\ x.chip = s.chip
    BY <2>1, ReportIs
  <2> QED
    BY <2>2, NothingInOrder DEF Gathered, Kept, SameRegisters, FieldsTaken
<1> QED
  BY <1>1, <1>2, <1>3 DEF Modes

-----------------------------------------------------------------------------
(* The invariant. *)

LEMMA OkayIs ==
  ASSUME NEW s \in Still
  PROVE  LET t == [s EXCEPT !.rslt = "OK"]
         IN /\ t \in Still /\ t.rslt = "OK" /\ t.chip = s.chip /\ t.calib = s.calib
            /\ t.data = s.data /\ t.faults = s.faults
BY DEF Still, Driver, Results

LEMMA ChipIs ==
  ASSUME NEW s \in Still, NEW c \in Chip, c.awake = FALSE
  PROVE  LET t == [s EXCEPT !.chip = c]
         IN /\ t \in Still /\ t.rslt = s.rslt /\ t.chip = c /\ t.calib = s.calib
            /\ t.data = s.data /\ t.faults = s.faults
BY DEF Still, Driver

LEMMA FreshIs ==
  ASSUME state \in Still
  PROVE  /\ Fresh \in Still /\ Fresh.rslt = "OK" /\ Fresh.chip = state.chip /\ Fresh.calib = state.calib
         /\ Fresh.data = <<>> /\ Fresh.faults = state.faults
<1>1. <<>> \in Seq(Field)
  OBVIOUS
<1> QED
  BY <1>1 DEF Fresh, Still, Driver, Results

(* The parts that matter for the application. *)
AppInv == TypeOK /\ state.chip.awake = FALSE /\ SetUp /\ CycleInv

LEMMA AppEnoughNext ==
  ASSUME AppInv', client' = "app"
  PROVE  SensorsInv'
<1>1. SortedByAge'
  <2>1. Len(state'.data) <= 1 /\ Len(state'.data) \in Nat
    BY DEF AppInv, CycleInv, FieldInv, TypeOK, Driver
  <2> QED
    BY <2>1 DEF SortedByAge
<1>2. HeatsAsAsked'
  BY DEF HeatsAsAsked, AppInv, CycleInv, FieldInv
<1> QED
  BY <1>1, <1>2 DEF SensorsInv, AppInv

LEMMA StillFromInv ==
  ASSUME SensorsInv
  PROVE  /\ state \in Still /\ state \in Driver /\ state.chip \in Chip /\ state.chip.awake = FALSE
         /\ state.chip.count \in Nat /\ state.faults \in Nat /\ reading.number \in Nat
         /\ reading.number <= state.chip.count
BY DEF SensorsInv, TypeOK, Still, Driver, Chip

LEMMA InitHolds == Init => SensorsInv
<1> SUFFICES ASSUME Init PROVE SensorsInv
  OBVIOUS
<1>1. /\ state.chip = NewChip /\ state.calib = FALSE /\ state.rslt = "OK" /\ state.data = <<>>
      /\ state.faults = 0
  BY DEF Init
<1>2. <<>> \in Seq(Field) /\ "OK" \in Results /\ 0 \in 0..MaxFaults
  BY Bme68xAssumption DEF Results
<1>3. state \in Driver
  BY <1>1, <1>2, NewChipIs DEF Init, Driver
<1>4. TypeOK
  <2>1. reading \in [valid : BOOLEAN, calib : BOOLEAN, number : 0..state.chip.count]
    BY <1>1, NewChipIs DEF Init
  <2>2. ram \in [os : {0, 4}, heat : {0, 150}]
    BY DEF Init, Unset
  <2>3. asked \in [mode : Modes \cup {"none"}, dur : Durations \cup {0}]
    BY DEF Init
  <2>4. mark \in [faults : 0..MaxFaults, count : Nat, left : Nat]
    BY <1>2 DEF Init
  <2>5. cycle \in 0..MaxCycles /\ restarts \in 0..MaxRestarts /\ sound \in BOOLEAN
    <3>1. cycle = 0 /\ restarts = 0 /\ sound \in BOOLEAN
      BY DEF Init
    <3>2. 0 \in 0..MaxCycles /\ 0 \in 0..MaxRestarts
      BY SensorsAssumption
    <3> QED
      BY <3>1, <3>2
  <2> QED
    BY <1>3, <2>1, <2>2, <2>3, <2>4, <2>5 DEF Init, TypeOK
<1>5. client = "app" => SetUp /\ CycleInv
  BY <1>1, NewChipIs DEF Init, SetUp, CycleInv, FieldInv, MarkInv, Unread
<1>6. Sequenced /\ phase = "boot"
  BY <1>1, NewChipIs DEF Sequenced, InTurn, Init
<1>7. SortedByAge /\ HeatsAsAsked
  BY <1>1 DEF Init, SortedByAge, HeatsAsAsked
<1> QED
  BY <1>1, <1>4, <1>5, <1>6, <1>7, NewChipIs DEF SensorsInv

(* A reading keeps its type while the chip goes on counting. *)
LEMMA ReadingTyped ==
  ASSUME TypeOK, state' \in Driver, state.chip.count <= state'.chip.count, reading' = reading
  PROVE  reading' \in [valid : BOOLEAN, calib : BOOLEAN, number : 0..state'.chip.count]
<1>1. state.chip.count \in Nat /\ state'.chip.count \in Nat
  BY DEF TypeOK, Driver, Chip
<1>2. reading \in [valid : BOOLEAN, calib : BOOLEAN, number : 0..state.chip.count]
  BY DEF TypeOK
<1>3. \A n \in 0..state.chip.count : n \in 0..state'.chip.count
  BY <1>1
<1> QED
  BY <1>2, <1>3

LEMMA InitStep ==
  ASSUME SensorsInv, sensor_manager_init
  PROVE  AppInv'
<1> DEFINE s0 == [state EXCEPT !.calib = FALSE, !.rslt = "OK"]
<1>1. /\ state \in Still /\ state.faults \in Nat
      /\ client = "app" /\ AppInv
  BY StillFromInv DEF SensorsInv, AppInv, sensor_manager_init, AppDoes
<1>2. s0 \in Still /\ s0.chip = state.chip /\ s0.data = state.data /\ s0.faults = state.faults /\ s0.rslt = "OK"
  BY <1>1 DEF Still, Driver, Results
<1>3. PICK s \in bme68x_init(s0) :
        IF s.rslt # "OK" THEN state' = s /\ ram' = Unset /\ sound' = FALSE
        ELSE \E t \in Ignoring(bme68x_set_conf(s, 4)) :
             \E u \in Ignoring(bme68x_set_heatr_conf(t, "forced", 150)) :
               /\ state' = u
               /\ ram' = [os |-> 4, heat |-> 150]
               /\ sound' = (u.faults = state.faults)
  BY DEF sensor_manager_init
<1> HIDE DEF s0
<1>4. Begun(s0, s) /\ (s.rslt = "OK" => s.calib = TRUE)
  BY <1>2, SensorInit
<1>5. /\ s \in Still /\ s.data = state.data /\ s.chip.count = state.chip.count /\ state.faults <= s.faults
      /\ s.chip.fields[0] = state.chip.fields[0] \/ s.chip.fields[0].new = FALSE
      /\ s.faults \in Nat
  BY <1>2, <1>4 DEF Begun, Still, Driver
(* However it ends. *)
<1>6. ASSUME state' \in Still, state'.data = state.data, state'.chip.count = state.chip.count,
             state'.chip.fields[0] = s.chip.fields[0], state.faults <= state'.faults,
             ram' \in [os : {0, 4}, heat : {0, 150}], sound' \in BOOLEAN, SetUp'
      PROVE  AppInv'
  <2>1. phase' = "set" /\ UNCHANGED <<client, reading, dust, cycle, restarts, mark, asked>>
    BY DEF sensor_manager_init, AppDoes
  <2>2. state' \in Driver /\ state'.chip.awake = FALSE /\ state'.faults \in Nat /\ state.chip.count \in Nat
    BY <1>1, <1>6 DEF Still, Driver, Chip
  <2>3. TypeOK'
    <3>1. reading' \in [valid : BOOLEAN, calib : BOOLEAN, number : 0..state'.chip.count]
      BY <1>1, <1>6, <2>1, <2>2, ReadingTyped DEF AppInv
    <3> QED
      BY <1>1, <1>6, <2>1, <2>2, <3>1 DEF AppInv, TypeOK
  <2>4. FieldInv'
    BY <1>1, <1>5, <1>6, <2>1 DEF AppInv, CycleInv, FieldInv, Unread
  <2>5. mark.faults \in Nat /\ mark.count \in Nat
    BY <1>1 DEF AppInv, TypeOK
  <2>6. MarkInv'
    BY <1>1, <1>6, <2>1, <2>2, <2>5 DEF AppInv, CycleInv, MarkInv
  <2> QED
    BY <1>6, <2>1, <2>2, <2>3, <2>4, <2>6 DEF AppInv, CycleInv
<1>7. CASE s.rslt # "OK"
  <2>1. state' = s /\ ram' = Unset /\ sound' = FALSE
    BY <1>3, <1>7
  <2>2. SetUp' /\ sound' \in BOOLEAN /\ ram' \in [os : {0, 4}, heat : {0, 150}]
    BY <2>1 DEF SetUp, Unset
  <2> QED
    BY <1>5, <1>6, <2>1, <2>2
<1>8. CASE s.rslt = "OK"
  <2>0. PICK t \in Ignoring(bme68x_set_conf(s, 4)) :
          \E u \in Ignoring(bme68x_set_heatr_conf(t, "forced", 150)) :
            /\ state' = u /\ ram' = [os |-> 4, heat |-> 150] /\ sound' = (u.faults = state.faults)
    BY <1>3, <1>8
  <2>1. PICK u \in Ignoring(bme68x_set_heatr_conf(t, "forced", 150)) :
          state' = u /\ ram' = [os |-> 4, heat |-> 150] /\ sound' = (u.faults = state.faults)
    BY <2>0
  <2>2. PICK x \in bme68x_set_conf(s, 4) : t = [x EXCEPT !.rslt = "OK"]
    BY DEF Ignoring
  <2>3. Configured(s, 4, x)
    BY <1>5, <1>8, SetConf
  <2>4. x \in Still
    BY <2>3 DEF Configured, Kept
  <2>5. /\ t \in Still /\ t.rslt = "OK" /\ t.chip = x.chip /\ t.calib = x.calib
        /\ t.data = x.data /\ t.faults = x.faults
    BY <2>2, <2>4, OkayIs
  <2>6. PICK y \in bme68x_set_heatr_conf(t, "forced", 150) : u = [y EXCEPT !.rslt = "OK"]
    BY DEF Ignoring
  <2>7. Heated(t, "forced", 150, y)
    BY <2>5, SetHeaterConf DEF Modes
  <2>8. y \in Still
    BY <2>7 DEF Heated, Kept
  <2>9. /\ u \in Still /\ u.chip = y.chip /\ u.calib = y.calib /\ u.data = y.data /\ u.faults = y.faults
    BY <2>6, <2>8, OkayIs
  <2>10. /\ t.data = s.data /\ t.calib = TRUE /\ s.faults <= t.faults
         /\ t.chip.count = s.chip.count /\ t.chip.fields = s.chip.fields
    BY <1>4, <1>8, <2>3, <2>5 DEF Configured, Kept
  <2>11. /\ u.data = t.data /\ u.calib = t.calib /\ t.faults <= u.faults
         /\ u.chip.count = t.chip.count /\ u.chip.fields = t.chip.fields /\ u.chip.os = t.chip.os
    BY <2>7, <2>9 DEF Heated, Kept
  <2>12. t.faults \in Nat /\ u.faults \in Nat
    BY <2>5, <2>9 DEF Still, Driver
  <2>13. state.faults <= u.faults
    BY <1>1, <1>5, <2>10, <2>11, <2>12
  <2>14. ASSUME u.faults = state.faults
         PROVE  u.chip.os = 4 /\ u.chip.heat = calc_gas_wait(150)
    <3>1. s.faults = state.faults /\ t.faults = s.faults /\ u.faults = t.faults
      BY <1>1, <1>5, <2>10, <2>11, <2>12, <2>14
    <3>2. x.rslt = "OK" /\ y.rslt = "OK"
      BY <2>3, <2>5, <2>7, <2>9, <3>1 DEF Configured, Heated, Clean
    <3>3. x.chip.os = boundary_check(4) /\ boundary_check(4) = 4
      BY <2>3, <3>2 DEF Configured, boundary_check
    <3> QED
      BY <2>5, <2>7, <2>9, <2>11, <3>2, <3>3 DEF Heated, Registered
  <2>15. sound' \in BOOLEAN /\ (sound' => u.faults = state.faults)
    BY <2>1
  <2>16. SetUp'
    BY <2>1, <2>10, <2>11, <2>14, <2>15 DEF SetUp
  <2>17. ram' \in [os : {0, 4}, heat : {0, 150}]
    BY <2>1
  <2>18. u.data = state.data /\ u.chip.count = state.chip.count /\ u.chip.fields[0] = s.chip.fields[0]
    BY <1>5, <2>10, <2>11
  <2> QED
    BY <1>6, <2>1, <2>9, <2>13, <2>15, <2>16, <2>17, <2>18
<1> QED
  BY <1>7, <1>8

LEMMA TriggerStep ==
  ASSUME SensorsInv, ReadTriggers
  PROVE  AppInv'
<1> DEFINE s0 == [state EXCEPT !.rslt = "OK"]
<1>1. /\ state \in Still /\ state.faults \in Nat /\ state.chip.count \in Nat /\ client = "app" /\ AppInv
  BY StillFromInv DEF SensorsInv, AppInv, ReadTriggers, AppDoes
<1>2. /\ s0 \in Still /\ s0.rslt = "OK" /\ s0.chip = state.chip /\ s0.calib = state.calib
      /\ s0.data = state.data /\ s0.faults = state.faults
  BY <1>1, OkayIs
<1>3. state' \in bme68x_set_op_mode(s0, "forced")
  BY DEF ReadTriggers
<1> HIDE DEF s0
<1>4. ModeSet(s0, "forced", state')
  BY <1>2, <1>3, SetOpMode DEF Modes
<1>5. /\ state' \in Still /\ state'.calib = state.calib /\ state'.data = state.data
      /\ state'.chip.count = state.chip.count /\ state'.chip.fields = state.chip.fields
      /\ state.faults <= state'.faults
      /\ state'.chip.os = state.chip.os /\ state'.chip.heat = state.chip.heat
      /\ state'.faults = state.faults => state'.chip.mode = "forced"
  BY <1>2, <1>4 DEF ModeSet, Kept, Clean, SameSettings
<1>6. /\ phase' = "triggered" /\ cycle < MaxCycles
      /\ mark' = [faults |-> state.faults, count |-> state.chip.count, left |-> Undelivered(state.chip)]
      /\ UNCHANGED <<client, ram, reading, cycle, restarts, sound, asked>>
  BY DEF ReadTriggers, AppDoes
<1>7. cycle \in Nat /\ cycle + 1 \in 0..MaxCycles
  BY <1>1, <1>6, SensorsAssumption DEF AppInv, TypeOK
<1>8. dust' \subseteq {0, cycle + 1}
  BY DEF ReadTriggers, dust_sensor_read
<1>9. state' \in Driver /\ state'.chip.awake = FALSE /\ state'.faults \in Nat
  BY <1>5 DEF Still, Driver
<1>10. TypeOK'
  <2>1. reading' \in [valid : BOOLEAN, calib : BOOLEAN, number : 0..state'.chip.count]
    BY <1>1, <1>5, <1>6, <1>9, ReadingTyped DEF AppInv
  <2>2. dust' \in SUBSET (0..MaxCycles)
    BY <1>7, <1>8, SensorsAssumption
  <2>3. mark' \in [faults : 0..MaxFaults, count : Nat, left : Nat]
    <3>1. state.chip.fields[0].number \in Nat
      BY <1>1 DEF Still, Driver, Chip, Field
    <3> QED
      BY <1>1, <1>6, <3>1 DEF Still, Driver, Undelivered
  <2> QED
    BY <1>1, <1>6, <1>9, <2>1, <2>2, <2>3 DEF AppInv, TypeOK
<1>11. SetUp'
  BY <1>1, <1>5, <1>6 DEF AppInv, SetUp
<1>12. FieldInv'
  BY <1>1, <1>5, <1>6 DEF AppInv, CycleInv, FieldInv, Unread
<1>13. MarkInv'
  BY <1>1, <1>5, <1>6, <1>8 DEF MarkInv
<1>14. Undisturbed' => Triggered'
  BY <1>5, <1>6 DEF Undisturbed, Triggered, Undelivered
<1> QED
  BY <1>6, <1>9, <1>10, <1>11, <1>12, <1>13, <1>14 DEF AppInv, CycleInv

(* The wait is as long as the set-up said. *)
LEMMA WaitIsLong ==
  ASSUME AppInv, sound
  PROVE  WaitsLong
<1>1. /\ ram = [os |-> 4, heat |-> 150]
      /\ state.chip.os = 4 /\ state.chip.heat = calc_gas_wait(150)
  BY DEF AppInv, SetUp
<1>2. bme68x_get_meas_dur(4) = 8
  BY DEF bme68x_get_meas_dur, boundary_check, os_to_meas_cycles
<1>3. ram.os = 4 /\ ram.heat = 150
  BY <1>1
<1>4. Decoded(state.chip.heat) <= 150
  BY <1>1, GasWaitIs
<1>5. Heating <= 150
  BY <1>4 DEF Heating
<1> QED
  BY <1>1, <1>2, <1>3, <1>5 DEF WaitsLong

(* A measurement ends, in the application's cycle or between two. *)
LEMMA MeasureStep ==
  ASSUME SensorsInv, client = "app", state' = [state EXCEPT !.chip = Measured(@)],
         UNCHANGED <<client, ram, reading, dust, cycle, restarts, sound, mark, asked>>,
         phase' \in {"set", "idle", "waited"}
  PROVE  /\ TypeOK' /\ state'.chip.awake = FALSE /\ SetUp' /\ FieldInv'
         /\ mark'.count <= state'.chip.count /\ mark'.faults <= state'.faults
         /\ state'.faults = state.faults /\ state'.chip.count = state.chip.count + 1
         /\ state.chip.mode = "forced" =>
              /\ state'.chip.mode = "sleep" /\ state'.chip.fields[0].new = TRUE
              /\ state'.chip.fields[0].number = state'.chip.count
<1> DEFINE c == state.chip
           d == Measured(c)
<1>1. /\ state \in Still /\ c \in Chip /\ c.awake = FALSE /\ c.count \in Nat
      /\ reading.number \in Nat /\ reading.number <= c.count /\ AppInv
  BY StillFromInv DEF SensorsInv, AppInv
<1>2. /\ d \in Chip /\ d.count = c.count + 1 /\ d.awake = FALSE
      /\ d.mode = IF c.mode = "forced" THEN "sleep" ELSE c.mode
      /\ d.os = c.os /\ d.heat = c.heat /\ d.fields[Place(c)] = Stamp(c)
  BY <1>1, MeasuredIs
<1>3. Unread(c, reading.number)
  BY <1>1 DEF AppInv, CycleInv, FieldInv
<1>4. Unread(d, reading.number)
  BY <1>1, <1>3, UnreadMeasured
<1>5. c.mode = "forced" => Place(c) = 0
  BY <1>1, PlaceIs
<1>6. Stamp(c).new = TRUE /\ Stamp(c).number = c.count + 1
  BY <1>1, StampIs
<1>7. state' = [state EXCEPT !.chip = d]
  OBVIOUS
<1> HIDE DEF d
<1>8. /\ state' \in Still /\ state'.chip = d /\ state'.calib = state.calib /\ state'.data = state.data
      /\ state'.faults = state.faults
  <2> DEFINE t == [state EXCEPT !.chip = d]
  <2>1. t \in Still /\ t.chip = d /\ t.calib = state.calib /\ t.data = state.data /\ t.faults = state.faults
    BY <1>1, <1>2, ChipIs
  <2>2. state' = t
    BY <1>7
  <2> HIDE DEF t
  <2> QED
    BY <2>1, <2>2
<1>9. state' \in Driver
  BY <1>8 DEF Still
<1>10. reading' \in [valid : BOOLEAN, calib : BOOLEAN, number : 0..state'.chip.count]
  BY <1>1, <1>2, <1>8, <1>9, ReadingTyped DEF AppInv
<1>11. TypeOK'
  BY <1>1, <1>9, <1>10 DEF AppInv, TypeOK
<1>12. SetUp'
  BY <1>1, <1>2, <1>8 DEF AppInv, SetUp
<1>13. FieldInv'
  BY <1>1, <1>4, <1>8 DEF AppInv, CycleInv, FieldInv
<1>14. mark'.count <= state'.chip.count /\ mark'.faults <= state'.faults
  <2>1. mark.count \in Nat /\ mark.count <= c.count /\ mark.faults <= state.faults
    BY <1>1 DEF AppInv, CycleInv, MarkInv, TypeOK
  <2> QED
    BY <1>1, <1>2, <1>8, <2>1
<1>15. state.chip.mode = "forced" =>
         /\ state'.chip.mode = "sleep" /\ state'.chip.fields[0].new = TRUE
         /\ state'.chip.fields[0].number = state'.chip.count
  BY <1>2, <1>5, <1>6, <1>8
<1> QED
  BY <1>2, <1>8, <1>11, <1>12, <1>13, <1>14, <1>15

LEMMA WaitStep ==
  ASSUME SensorsInv, ReadWaits
  PROVE  AppInv'
<1>1. AppInv /\ client = "app" /\ phase = "triggered" /\ phase' = "waited"
  BY DEF SensorsInv, AppInv, ReadWaits, AppDoes
<1>2. UNCHANGED <<client, ram, reading, dust, cycle, restarts, sound, mark, asked>>
  BY DEF ReadWaits
<1>3. CASE state.chip.mode = "forced" /\ state' = [state EXCEPT !.chip = Measured(@)]
  <2>1. /\ TypeOK' /\ state'.chip.awake = FALSE /\ SetUp' /\ FieldInv'
        /\ mark'.count <= state'.chip.count /\ mark'.faults <= state'.faults
        /\ state'.faults = state.faults /\ state'.chip.count = state.chip.count + 1
        /\ state'.chip.mode = "sleep" /\ state'.chip.fields[0].new = TRUE
        /\ state'.chip.fields[0].number = state'.chip.count
    BY <1>1, <1>2, <1>3, MeasureStep
  <2>2. MarkInv'
    BY <1>1, <1>2, <2>1 DEF MarkInv, AppInv, CycleInv
  <2>3. Undisturbed' => MeasuredOne'
    <3>1. ASSUME Undisturbed'
          PROVE  state.chip.count = mark.count /\ mark.count \in Nat
      BY <1>1, <1>2, <2>1, <3>1 DEF Undisturbed, AppInv, CycleInv, Triggered, TypeOK
    <3> QED
      BY <1>2, <2>1, <3>1 DEF MeasuredOne
  <2> QED
    BY <1>1, <2>1, <2>2, <2>3 DEF AppInv, CycleInv
<1>4. CASE UNCHANGED state
  <2>1. TypeOK' /\ SetUp' /\ state'.chip.awake = FALSE
    BY <1>1, <1>2, <1>4 DEF AppInv, TypeOK, SetUp
  <2>2. FieldInv' /\ MarkInv'
    BY <1>1, <1>2, <1>4 DEF AppInv, CycleInv, FieldInv, MarkInv
  <2>3. Undisturbed' => Triggered'
    BY <1>1, <1>2, <1>4 DEF AppInv, CycleInv, Undisturbed, Triggered
  <2> QED
    BY <1>1, <2>1, <2>2, <2>3 DEF AppInv, CycleInv
<1> QED
  BY <1>3, <1>4 DEF ReadWaits

LEMMA MinuteStep ==
  ASSUME SensorsInv, MinutePasses
  PROVE  AppInv'
<1>1. /\ AppInv /\ client = "app" /\ phase \in {"set", "idle"} /\ phase' = phase
      /\ state.chip.mode = "forced" /\ state' = [state EXCEPT !.chip = Measured(@)]
      /\ UNCHANGED <<client, ram, reading, dust, cycle, restarts, sound, mark, asked>>
  BY DEF SensorsInv, AppInv, MinutePasses
<1>2. /\ TypeOK' /\ state'.chip.awake = FALSE /\ SetUp' /\ FieldInv'
      /\ mark'.count <= state'.chip.count /\ mark'.faults <= state'.faults
      /\ state'.faults = state.faults
  BY <1>1, MeasureStep
<1>3. MarkInv'
  BY <1>1, <1>2 DEF MarkInv
<1>4. phase = "idle" /\ Undisturbed' => Ended'
  BY <1>1, <1>2 DEF Undisturbed, AppInv, CycleInv, Ended
<1> QED
  BY <1>1, <1>2, <1>3, <1>4 DEF AppInv, CycleInv

LEMMA RestartStep ==
  ASSUME SensorsInv, Restarts
  PROVE  AppInv'
<1>1. /\ AppInv /\ phase' = "boot" /\ ram' = Unset /\ sound' = FALSE
      /\ restarts < MaxRestarts /\ restarts' = restarts + 1
      /\ UNCHANGED <<client, state, reading, dust, cycle, mark, asked>>
  BY DEF SensorsInv, AppInv, Restarts
<1>2. restarts' \in 0..MaxRestarts
  BY <1>1, SensorsAssumption DEF AppInv, TypeOK
<1>3. ram' \in [os : {0, 4}, heat : {0, 150}] /\ sound' \in BOOLEAN
  BY <1>1 DEF Unset
<1>4. TypeOK'
  BY <1>1, <1>2, <1>3 DEF AppInv, TypeOK
<1>5. FieldInv' /\ MarkInv'
  BY <1>1 DEF AppInv, CycleInv, FieldInv, MarkInv
<1> QED
  BY <1>1, <1>4, <1>5 DEF AppInv, CycleInv, SetUp


(* What is fetched was not delivered before. *)
LEMMA FetchStep ==
  ASSUME SensorsInv, ReadFetches
  PROVE  AppInv' /\ (reading'.valid => reading'.number > reading.number)
<1> DEFINE s == [state EXCEPT !.rslt = "OK"]
<1>1. /\ state \in Still /\ state.faults \in Nat /\ state.chip.count \in Nat
      /\ reading.number \in Nat /\ reading.number <= state.chip.count
      /\ client = "app" /\ phase = "waited" /\ AppInv
  BY StillFromInv DEF SensorsInv, AppInv, ReadFetches, AppDoes
<1>2. /\ s \in Still /\ s.rslt = "OK" /\ s.chip = state.chip /\ s.calib = state.calib
      /\ s.data = state.data /\ s.faults = state.faults
  BY <1>1, OkayIs
<1>3. state' \in read_field_data(s) /\ reading' = Reading(state') /\ TriesLast(state')
  BY DEF ReadFetches, bme68x_get_data
<1>4. /\ phase' = "idle" /\ cycle' = cycle + 1
      /\ UNCHANGED <<client, ram, dust, restarts, sound, mark, asked>>
  BY DEF ReadFetches, AppDoes
<1> HIDE DEF s
<1>5. Delivered(s, reading.number, state') /\ Tried(s, state')
  BY <1>1, <1>2, <1>3, ForcedReading DEF AppInv, CycleInv, FieldInv
<1>6. /\ state' \in Still /\ state'.calib = state.calib /\ state.faults <= state'.faults
      /\ state'.chip.os = state.chip.os /\ state'.chip.heat = state.chip.heat
      /\ state.chip.count <= state'.chip.count /\ Unread(state'.chip, reading.number)
  BY <1>2, <1>5 DEF Delivered
<1>7. state'.rslt = "OK" =>
        /\ Len(state'.data) = 1 /\ reading.number < state'.data[1].number
        /\ state'.data[1].number <= state'.chip.count /\ state'.chip.fields[0].new = FALSE
  BY <1>5 DEF Delivered
<1>8. state'.rslt # "OK" => state'.data = state.data
  BY <1>2, <1>5 DEF Delivered
<1>9. state'.faults = state.faults /\ state.chip.fields[0].new =>
        /\ state'.rslt = "OK" /\ state'.data[1] = state.chip.fields[0]
        /\ state'.chip.mode = state.chip.mode /\ state'.chip.count = state.chip.count
  BY <1>2, <1>5 DEF Delivered
<1>10. /\ state' \in Driver /\ state'.chip.awake = FALSE /\ state'.faults \in Nat
       /\ state'.chip.count \in Nat
  BY <1>6 DEF Still, Driver, Chip
<1>11. /\ reading'.valid = (state'.rslt = "OK") /\ reading'.calib = state'.calib
       /\ reading'.number = IF state'.rslt = "OK" THEN state'.data[1].number ELSE reading.number
       /\ reading' = [valid |-> reading'.valid, calib |-> reading'.calib, number |-> reading'.number]
  BY <1>3 DEF Reading
<1>12. /\ reading'.number \in 0..state'.chip.count
       /\ reading'.valid => reading'.number > reading.number
  <2>1. CASE state'.rslt = "OK"
    <3>1. state'.data \in Seq(Field) /\ Len(state'.data) = 1
      BY <1>7, <1>10, <2>1 DEF Driver
    <3>2. state'.data[1] \in Field
      BY <3>1
    <3>3. state'.data[1].number \in Nat
      BY <3>2 DEF Field
    <3> QED
      BY <1>1, <1>7, <1>10, <1>11, <2>1, <3>3
  <2>2. CASE state'.rslt # "OK"
    <3>1. reading'.number = reading.number /\ ~reading'.valid
      BY <1>11, <2>2
    <3> QED
      BY <1>1, <1>6, <1>10, <3>1
  <2> QED
    BY <2>1, <2>2
<1>13. TypeOK'
  <2>1. reading'.valid \in BOOLEAN /\ reading'.calib \in BOOLEAN
    BY <1>10, <1>11 DEF Driver
  <2>2. reading' \in [valid : BOOLEAN, calib : BOOLEAN, number : 0..state'.chip.count]
    BY <1>11, <1>12, <2>1
  <2>3. cycle' \in 0..MaxCycles
    BY <1>1, <1>4, SensorsAssumption DEF AppInv, TypeOK, CycleInv, MarkInv
  <2> QED
    BY <1>1, <1>4, <1>10, <2>2, <2>3 DEF AppInv, TypeOK
<1>14. SetUp'
  BY <1>1, <1>4, <1>6 DEF AppInv, SetUp
<1>15. FieldInv'
  <2>1. Len(state'.data) <= 1
    <3>1. Len(state.data) <= 1
      BY <1>1 DEF AppInv, CycleInv, FieldInv
    <3>2. CASE state'.rslt = "OK"
      <4>1. Len(state'.data) = 1
        BY <1>7, <3>2
      <4> QED
        BY <4>1
    <3>3. CASE state'.rslt # "OK"
      BY <1>8, <3>1, <3>3
    <3> QED
      BY <3>2, <3>3
  <2>2. Unread(state'.chip, reading'.number)
    BY <1>6, <1>7, <1>11 DEF Unread
  <2> QED
    BY <1>1, <1>4, <2>1, <2>2 DEF AppInv, CycleInv, FieldInv
<1>16. MarkInv'
  <2>1. mark.count \in Nat /\ mark.count <= state.chip.count /\ mark.faults <= state.faults
        /\ mark.faults \in Nat
    BY <1>1 DEF AppInv, CycleInv, MarkInv, TypeOK
  <2> QED
    BY <1>1, <1>4, <1>6, <1>10, <2>1 DEF MarkInv
<1>17. Undisturbed' => Ended'
  <2> SUFFICES ASSUME Undisturbed' PROVE Ended'
    OBVIOUS
  <2>1. sound /\ mark.faults = state'.faults
    BY <1>4 DEF Undisturbed
  <2>2. mark.faults \in Nat /\ mark.faults <= state.faults
    BY <1>1 DEF AppInv, CycleInv, MarkInv, TypeOK
  <2>3. state'.faults = state.faults /\ mark.faults = state.faults
    BY <1>1, <1>6, <1>10, <2>1, <2>2
  <2>4. Triggered \/ MeasuredOne
    BY <1>1, <2>1, <2>3 DEF Undisturbed, AppInv, CycleInv
  <2>5. state.calib = TRUE
    BY <1>1, <2>1 DEF AppInv, SetUp
  <2>6. CASE MeasuredOne
    BY <1>4, <1>6, <1>9, <1>11, <2>3, <2>5, <2>6 DEF MeasuredOne, Ended
  <2>7. CASE Triggered /\ state.chip.fields[0].new
    <3>1. reading.number < state.chip.fields[0].number
      BY <1>1, <2>7 DEF AppInv, CycleInv, FieldInv, Unread
    <3>2. mark.left # 0
      BY <1>1, <2>7, <3>1 DEF Triggered, Still, Driver, Chip, Field
    <3> QED
      BY <1>4, <1>6, <1>9, <1>11, <2>3, <2>5, <2>7, <3>2 DEF Triggered, Ended
  <2>8. CASE Triggered /\ ~state.chip.fields[0].new
    <3>1. \/ state'.rslt = "OK" /\ state'.data[1].number = state.chip.count + 1
          \/ state'.rslt = "NO_NEW_DATA" /\ state'.chip.mode = "forced"
      BY <1>2, <1>5, <2>3, <2>8 DEF Tried, Triggered
    <3>2. WaitsLong
      BY <1>1, <2>1, WaitIsLong
    <3>3. state'.rslt = "OK" /\ state'.data[1].number = mark.count + 1
      BY <1>3, <2>8, <3>1, <3>2 DEF TriesLast, Triggered
    <3> QED
      BY <1>4, <1>6, <1>11, <2>5, <3>3 DEF Ended
  <2> QED
    BY <2>4, <2>6, <2>7, <2>8
<1> QED
  BY <1>4, <1>10, <1>12, <1>13, <1>14, <1>15, <1>16, <1>17 DEF AppInv, CycleInv

-----------------------------------------------------------------------------
(* Each call of any client. *)

(* What the driver's functions leave of a client's state, the readings'     *)
(* number aside.                                                            *)
LEMMA AnyTyped ==
  ASSUME SensorsInv, AnyDoes, state' \in Still, state.chip.count <= state'.chip.count,
         asked' \in [mode : Modes \cup {"none"}, dur : Durations \cup {0}]
  PROVE  TypeOK' /\ state'.chip.awake = FALSE /\ phase' = "boot"
<1>1. TypeOK /\ state' \in Driver /\ state'.chip.awake = FALSE
  BY DEF SensorsInv, Still
<1>2. UNCHANGED <<client, ram, phase, reading, dust, cycle, restarts, sound, mark>>
  BY DEF AnyDoes
<1>3. reading' \in [valid : BOOLEAN, calib : BOOLEAN, number : 0..state'.chip.count]
  BY <1>1, <1>2, ReadingTyped
<1>4. phase' = "boot"
  BY <1>2 DEF SensorsInv, AnyDoes
<1> QED
  BY <1>1, <1>2, <1>3, <1>4 DEF TypeOK

(* What the heater was told stands while its registers do. *)
LEMMA HeatsOn ==
  ASSUME HeatsAsAsked, asked' = asked,
         state'.chip.heat = state.chip.heat, state'.chip.shared = state.chip.shared
  PROVE  HeatsAsAsked'
BY DEF HeatsAsAsked

LEMMA InTurnKept ==
  ASSUME NEW c \in Chip, NEW d, InTurn(c), d.fields = c.fields, d.count = c.count
  PROVE  InTurn(d)
BY DEF InTurn

LEMMA NothingSorted ==
  ASSUME state'.data = <<>>
  PROVE  SortedByAge'
BY DEF SortedByAge

LEMMA AnyMeasuresStep ==
  ASSUME SensorsInv, AnyMeasures
  PROVE  SensorsInv'
<1> DEFINE d == Measured(state.chip)
           t == [state EXCEPT !.chip = d]
<1>1. /\ state \in Still /\ state.chip \in Chip /\ state.chip.awake = FALSE
      /\ state.chip.count \in Nat /\ client = "any" /\ Sequenced
  BY StillFromInv DEF SensorsInv, AnyMeasures, AnyDoes
<1>2. /\ d \in Chip /\ d.count = state.chip.count + 1 /\ d.awake = FALSE
      /\ d.mode = IF state.chip.mode = "forced" THEN "sleep" ELSE state.chip.mode
      /\ d.heat = state.chip.heat /\ d.shared = state.chip.shared
  BY <1>1, MeasuredIs
<1>3. InTurn(d)
  BY <1>1, InTurnMeasured DEF Sequenced
<1>4. AnyDoes /\ state' = t /\ asked' = asked /\ client' = "any"
  BY <1>1 DEF AnyMeasures, AnyDoes
<1> HIDE DEF d
<1>5. t \in Still /\ t.chip = d /\ t.data = state.data
  BY <1>1, <1>2, ChipIs
<1> HIDE DEF t
<1>6. state' \in Still /\ state'.chip = d /\ state'.data = state.data
  BY <1>4, <1>5
<1>7. TypeOK' /\ state'.chip.awake = FALSE /\ phase' = "boot"
  <2>1. asked' \in [mode : Modes \cup {"none"}, dur : Durations \cup {0}]
    BY <1>4 DEF SensorsInv, TypeOK
  <2>2. state.chip.count <= state'.chip.count
    BY <1>1, <1>2, <1>6
  <2> QED
    BY <1>4, <1>6, <2>1, <2>2, AnyTyped
<1>8. Sequenced'
  BY <1>1, <1>2, <1>3, <1>6 DEF Sequenced
<1>9. SortedByAge'
  BY <1>6 DEF SensorsInv, SortedByAge
<1>10. HeatsAsAsked'
  BY <1>2, <1>4, <1>6, HeatsOn DEF SensorsInv
<1> QED
  BY <1>4, <1>7, <1>8, <1>9, <1>10 DEF SensorsInv

(* A call that changes settings, but not the fields. *)
LEMMA SettingStep ==
  ASSUME SensorsInv, AnyDoes, Kept(Fresh, state'), state'.chip.mode # "forced",
         asked' \in [mode : Modes \cup {"none"}, dur : Durations \cup {0}], HeatsAsAsked'
  PROVE  SensorsInv'
<1>1. /\ state \in Still /\ state.chip \in Chip /\ state.chip.count \in Nat
      /\ client' = "any" /\ Sequenced
  BY StillFromInv DEF SensorsInv, AnyDoes
<1>2. /\ state' \in Still /\ state'.data = <<>> /\ state'.chip.count = state.chip.count
      /\ state'.chip.fields = state.chip.fields
  BY <1>1, FreshIs DEF Kept
<1>3. TypeOK' /\ state'.chip.awake = FALSE /\ phase' = "boot"
  <2>1. state.chip.count <= state'.chip.count
    BY <1>1, <1>2
  <2> QED
    BY <1>2, <2>1, AnyTyped
<1>4. InTurn(state'.chip)
  BY <1>1, <1>2, InTurnKept DEF Sequenced
<1>5. Sequenced'
  BY <1>4 DEF Sequenced
<1> QED
  BY <1>1, <1>2, <1>3, <1>5, NothingSorted DEF SensorsInv

LEMMA AnyConfiguresStep ==
  ASSUME SensorsInv, NEW os \in {0, 4, 7}, AnyConfigures(os)
  PROVE  SensorsInv'
<1>1. state \in Still /\ Sequenced /\ AnyDoes /\ asked' = asked
  BY StillFromInv DEF SensorsInv, AnyConfigures, AnyDoes
<1>2. Fresh \in Still /\ Fresh.rslt = "OK" /\ Fresh.chip = state.chip
  BY <1>1, FreshIs
<1>3. Configured(Fresh, os, state')
  BY <1>2, SetConf DEF AnyConfigures
<1>4. /\ Kept(Fresh, state') /\ state'.chip.mode # "forced"
      /\ state'.chip.heat = state.chip.heat /\ state'.chip.shared = state.chip.shared
  BY <1>1, <1>2, <1>3 DEF Configured, Sequenced
<1>5. asked' \in [mode : Modes \cup {"none"}, dur : Durations \cup {0}]
  BY <1>1 DEF SensorsInv, TypeOK
<1>6. HeatsAsAsked'
  BY <1>1, <1>4, HeatsOn DEF SensorsInv
<1> QED
  BY <1>1, <1>4, <1>5, <1>6, SettingStep

LEMMA AnySetsStep ==
  ASSUME SensorsInv, NEW mode \in Modes \ {"forced"}, AnySets(mode)
  PROVE  SensorsInv'
<1>1. state \in Still /\ Sequenced /\ AnyDoes /\ asked' = asked
  BY StillFromInv DEF SensorsInv, AnySets, AnyDoes
<1>2. Fresh \in Still /\ Fresh.rslt = "OK" /\ Fresh.chip = state.chip
  BY <1>1, FreshIs
<1>3. ModeSet(Fresh, mode, state')
  BY <1>2, SetOpMode DEF AnySets
<1>4. /\ Kept(Fresh, state') /\ state'.chip.mode # "forced"
      /\ state'.chip.heat = state.chip.heat /\ state'.chip.shared = state.chip.shared
  BY <1>1, <1>2, <1>3 DEF ModeSet, SameSettings, Sequenced
<1>5. asked' \in [mode : Modes \cup {"none"}, dur : Durations \cup {0}]
  BY <1>1 DEF SensorsInv, TypeOK
<1>6. HeatsAsAsked'
  BY <1>1, <1>4, HeatsOn DEF SensorsInv
<1> QED
  BY <1>1, <1>4, <1>5, <1>6, SettingStep

(* The heater is set: what its register says is what was asked for. *)
LEMMA AnyHeatsStep ==
  ASSUME SensorsInv, NEW mode \in Modes, NEW dur \in Durations, AnyHeats(mode, dur)
  PROVE  SensorsInv'
<1>1. state \in Still /\ Sequenced /\ AnyDoes /\ dur \in Nat
  <2>1. dur \in Nat
    BY SensorsAssumption
  <2> QED
    BY <2>1, StillFromInv DEF SensorsInv, AnyHeats, AnyDoes
<1>2. Fresh \in Still /\ Fresh.rslt = "OK" /\ Fresh.chip = state.chip
  BY <1>1, FreshIs
<1>3. Heated(Fresh, mode, dur, state')
  BY <1>1, <1>2, SetHeaterConf DEF AnyHeats
<1>4. Kept(Fresh, state') /\ state'.chip.mode # "forced"
  BY <1>1, <1>2, <1>3 DEF Heated, Sequenced
<1>5. asked' = IF state'.rslt = "OK" THEN [mode |-> mode, dur |-> dur] ELSE [mode |-> "none", dur |-> 0]
  BY DEF AnyHeats
<1>6. asked' \in [mode : Modes \cup {"none"}, dur : Durations \cup {0}]
  BY <1>5
<1>7. HeatsAsAsked'
  <2>1. CASE state'.rslt = "OK" /\ mode = "forced"
    <3> DEFINE v == state'.chip.heat
    <3>1. v = calc_gas_wait(dur)
      BY <1>3, <2>1 DEF Heated, Registered
    <3> HIDE DEF v
    <3>2. Decoded(v) <= dur /\ (v < 255 => dur < Decoded(v) + UnitOf(v))
      BY <1>1, <3>1, GasWaitIs
    <3>3. asked'.mode = "forced" /\ asked'.dur = dur
      BY <1>5, <2>1
    <3> USE DEF v
    <3> QED
      BY <3>2, <3>3 DEF HeatsAsAsked
  <2>2. CASE state'.rslt = "OK" /\ mode = "parallel"
    <3> DEFINE v == state'.chip.shared
    <3>1. v = calc_heatr_dur_shared(dur)
      BY <1>3, <2>2 DEF Heated, Registered
    <3> HIDE DEF v
    <3>2. /\ 477 * Decoded(v) <= 1000 * dur + 477 * 4
          /\ v < 255 => 1000 * dur < 477 * (Decoded(v) + UnitOf(v))
      BY <1>1, <3>1, SharedDurationIs
    <3>3. asked'.mode = "parallel" /\ asked'.dur = dur
      BY <1>5, <2>2
    <3> USE DEF v
    <3> QED
      BY <3>2, <3>3 DEF HeatsAsAsked
  <2>3. CASE state'.rslt # "OK"
    <3>1. asked'.mode = "none"
      BY <1>5, <2>3
    <3> QED
      BY <3>1 DEF HeatsAsAsked
  <2>4. state'.rslt = "OK" => mode \in {"forced", "parallel"}
    BY <1>3 DEF Heated, Modes
  <2> QED
    BY <2>1, <2>2, <2>3, <2>4
<1> QED
  BY <1>1, <1>4, <1>6, <1>7, SettingStep

(* The fields are fetched. *)
LEMMA AnyGetsStep ==
  ASSUME SensorsInv, NEW mode \in Modes, AnyGets(mode)
  PROVE  SensorsInv'
<1>1. /\ state \in Still /\ state.chip \in Chip /\ state.chip.count \in Nat
      /\ Sequenced /\ AnyDoes /\ asked' = asked /\ client' = "any"
  BY StillFromInv DEF SensorsInv, AnyGets, AnyDoes
<1>2. Fresh \in Still /\ Fresh.rslt = "OK" /\ Fresh.chip = state.chip /\ Fresh.data = <<>>
  BY <1>1, FreshIs
<1>3. Gathered(Fresh, state')
  BY <1>1, <1>2, AnyReading DEF AnyGets, Sequenced
<1>4. /\ state' \in Still /\ SameRegisters(Fresh, state')
      /\ FieldsTaken(state.chip, state'.chip) /\ AgeOrder(state'.data)
  BY <1>2, <1>3 DEF Gathered
<1>5. /\ state'.chip.mode = state.chip.mode /\ state'.chip.count = state.chip.count
      /\ state'.chip.heat = state.chip.heat /\ state'.chip.shared = state.chip.shared
  BY <1>2, <1>4 DEF SameRegisters
<1>6. TypeOK' /\ state'.chip.awake = FALSE /\ phase' = "boot"
  <2>1. asked' \in [mode : Modes \cup {"none"}, dur : Durations \cup {0}]
    BY <1>1 DEF SensorsInv, TypeOK
  <2>2. state.chip.count <= state'.chip.count
    BY <1>1, <1>5
  <2> QED
    BY <1>1, <1>4, <2>1, <2>2, AnyTyped
<1>7. InTurn(state'.chip)
  BY <1>1, <1>4, <1>5, InTurnTaken DEF Sequenced
<1>8. Sequenced'
  BY <1>1, <1>5, <1>7 DEF Sequenced
<1>9. SortedByAge'
  BY <1>4 DEF SortedByAge, AgeOrder, Older
<1>10. HeatsAsAsked'
  BY <1>1, <1>5, HeatsOn DEF SensorsInv
<1> QED
  BY <1>1, <1>6, <1>8, <1>9, <1>10 DEF SensorsInv

-----------------------------------------------------------------------------
(* The theorems. *)

LEMMA StepKeeps == SensorsInv /\ [Next]_vars => SensorsInv'
<1> SUFFICES ASSUME SensorsInv, [Next]_vars PROVE SensorsInv'
  OBVIOUS
<1>1. CASE App
  <2>1. AppInv'
    BY <1>1, InitStep, TriggerStep, WaitStep, FetchStep, MinuteStep, RestartStep DEF App
  <2>2. client' = "app"
    BY <1>1 DEF App, sensor_manager_init, ReadTriggers, ReadWaits, ReadFetches, MinutePasses, Restarts,
                AppDoes
  <2> QED
    BY <2>1, <2>2, AppEnoughNext
<1>2. CASE Any
  <2>1. CASE AnyMeasures
    BY <2>1, AnyMeasuresStep
  <2>2. ASSUME NEW mode \in Modes, NEW dur \in Durations, AnyHeats(mode, dur)
        PROVE  SensorsInv'
    BY <2>2, AnyHeatsStep
  <2>3. ASSUME NEW os \in {0, 4, 7}, AnyConfigures(os)
        PROVE  SensorsInv'
    BY <2>3, AnyConfiguresStep
  <2>4. ASSUME NEW mode \in Modes \ {"forced"}, AnySets(mode)
        PROVE  SensorsInv'
    BY <2>4, AnySetsStep
  <2>5. ASSUME NEW mode \in Modes, AnyGets(mode)
        PROVE  SensorsInv'
    BY <2>5, AnyGetsStep
  <2> QED
    BY <1>2, <2>1, <2>2, <2>3, <2>4, <2>5 DEF Any
<1>3. CASE UNCHANGED vars
  BY <1>3 DEF vars, SensorsInv, TypeOK, SetUp, CycleInv, FieldInv, Unread, MarkInv, Undisturbed,
              Triggered, MeasuredOne, Ended, Sequenced, InTurn, SortedByAge, HeatsAsAsked
<1> QED
  BY <1>1, <1>2, <1>3 DEF Next

LEMMA Invariant == Spec => []SensorsInv
BY InitHolds, StepKeeps, PTL DEF Spec

(* Every variable keeps its type: no register of the chip is written with   *)
(* a value that it has no room for, and no cycle or fault is counted past   *)
(* its bound.                                                               *)
THEOREM TypeCorrect == Spec => []TypeOK
<1>1. SensorsInv => TypeOK
  BY DEF SensorsInv
<1> QED
  BY <1>1, Invariant, PTL

(* "Configure only in the sleep mode" (bme68x.c:324): no register of the    *)
(* configuration is written while the chip measures, whatever mode it was   *)
(* found in and whichever transfer failed.                                  *)
THEOREM ConfiguredAsleep == Spec => []WrittenAsleep
<1>1. SensorsInv => WrittenAsleep
  BY DEF SensorsInv, WrittenAsleep
<1> QED
  BY <1>1, Invariant, PTL

(* A cycle of bme680_sensor_read that no transfer failed in delivers a      *)
(* reading, compensated with the chip's coefficients, whatever failed       *)
(* before: of the measurement that it started or, as the wait is shorter    *)
(* than the measurement, of one that an earlier cycle has left in the chip; *)
(* the dust samples are the cycle's own.                                    *)
THEOREM FreshCycles == Spec => []CycleIsFresh
<1>1. SensorsInv => CycleIsFresh
  <2> SUFFICES ASSUME SensorsInv PROVE CycleIsFresh
    OBVIOUS
  <2>1. ASSUME client = "app", phase = "idle", sound, mark.faults = state.faults
        PROVE  /\ reading.valid /\ reading.calib
               /\ reading.number = mark.count + 1 \/ (reading.number = mark.left /\ mark.left # 0)
    BY <2>1 DEF SensorsInv, CycleInv, Undisturbed, Ended
  <2>2. phase \in {"triggered", "waited"} => dust \subseteq {0, cycle + 1}
    BY DEF SensorsInv, TypeOK, CycleInv, MarkInv
  <2> QED
    BY <2>1, <2>2 DEF CycleIsFresh
<1> QED
  BY <1>1, Invariant, PTL

(* bme680_sensor_read never reports a measurement twice: neither a failed   *)
(* transfer nor a restart of the controller, while the chip keeps its       *)
(* fields, makes it repeat one.                                             *)
THEOREM EachDeliveredOnce == Spec => DeliveredOnce
<1> DEFINE Step == cycle' > cycle /\ reading'.valid => reading'.number > reading.number
<1>1. SensorsInv /\ [Next]_vars => [Step]_vars
  <2> SUFFICES ASSUME SensorsInv, Next, cycle' > cycle, reading'.valid
               PROVE  reading'.number > reading.number
    OBVIOUS
  <2>1. ~(cycle > cycle)
    BY DEF SensorsInv, TypeOK
  <2>2. ReadFetches
    BY <2>1 DEF Next, App, Any, sensor_manager_init, ReadTriggers, ReadWaits, MinutePasses, Restarts,
                AnyMeasures, AnyHeats, AnyConfigures, AnySets, AnyGets, AnyDoes
  <2> QED
    BY <2>2, FetchStep
<1> QED
  BY <1>1, Invariant, PTL DEF Spec, DeliveredOnce

(* bme68x_get_data hands the fields out with the new ones first and the     *)
(* oldest of them at the head, also where the chip's 8-bit index wraps,     *)
(* which sort_sensor_data has only the index to tell by.                    *)
THEOREM FieldsSortedByAge == Spec => []SortedByAge
<1>1. SensorsInv => SortedByAge
  BY DEF SensorsInv
<1> QED
  BY <1>1, Invariant, PTL

(* calc_gas_wait and calc_heatr_dur_shared pack every 16-bit heating time   *)
(* into eight bits such that the heater heats no longer than it was asked   *)
(* to (in parallel mode by less than one step of 1.9 ms), and less than one *)
(* step of the register too short.                                          *)
THEOREM HeaterObeys == Spec => []HeatsAsAsked
<1>1. SensorsInv => HeatsAsAsked
  BY DEF SensorsInv
<1> QED
  BY <1>1, Invariant, PTL
=============================================================================
