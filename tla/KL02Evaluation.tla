--------------------------- MODULE KL02Evaluation ---------------------------
(***************************************************************************)
(* What the driver makes of a single answer of the KL02: the words of a    *)
(* frame, the voltages and the duty cycle they stand for, and the CP state *)
(* and the ampacity these mean (KL02USSProtocol.cpp, KL02.cpp).            *)
(*                                                                         *)
(* A float voltage n * 0.029 is represented by the 29 * n mV it stands     *)
(* for.  No threshold is a multiple of 29 mV and the closest is 1 mV away, *)
(* far more than the rounding of a float: all comparisons come out alike.  *)
(***************************************************************************)
EXTENDS Integers, Sequences, FiniteSetsExt

(* Words of two bytes, low byte first.                                     *)
Words == 0 .. 65535

append_u16(w) == <<w % 256, w \div 256>>
read_u16(p)   == 256 * p[2] + p[1]

read_i16(p) == IF p[2] >= 128 THEN read_u16(p) - 65536 ELSE read_u16(p)

(* Mutated form of Millivolt: a rounder resolution.                        *)
RoundLsb(n) == 25 * n

(* VOLTAGE_LSB                                                             *)
Millivolt(n) == 29 * n

-----------------------------------------------------------------------------
(* The control pilot.                                                      *)

CpStates   == {"A", "B", "C", "D", "E", "F"}
OutOfRange == "Disconnected"
CpEvents   == CpStates \cup {OutOfRange}

(* cp_voltage_to_cp_state: the first threshold that is reached decides.    *)
CpThresholds ==
    << [from |-> 11000, means |-> "A"], [from |->  10000, means |-> OutOfRange],
       [from |->  8000, means |-> "B"], [from |->   7000, means |-> OutOfRange],
       [from |->  5000, means |-> "C"], [from |->   4000, means |-> OutOfRange],
       [from |->  2000, means |-> "D"], [from |->   1500, means |-> OutOfRange],
       [from |-> -1500, means |-> "E"], [from |-> -11000, means |-> OutOfRange],
       [from |-> -13000, means |-> "F"] >>

Reached(mV) == {i \in DOMAIN CpThresholds : mV >= CpThresholds[i].from}

(* Mutated form of CpBand: the check of the upper end is forgotten.        *)
CpBandUnbounded(mV) ==
    IF Reached(mV) = {} THEN OutOfRange ELSE CpThresholds[Min(Reached(mV))].means

CpBand(mV) ==
    IF mV > 13000 \/ Reached(mV) = {} THEN OutOfRange
    ELSE CpThresholds[Min(Reached(mV))].means

(* cp_voltages_to_cp_state.  An EVSE without PWM is pinned to E, but not   *)
(* if both voltages are out of range.                                      *)
CpState(pos, neg, is_ev, pwm) ==
    IF pos = OutOfRange /\ neg = OutOfRange THEN OutOfRange
    ELSE IF ~is_ev /\ ~pwm THEN "E"
    ELSE IF pos = "E" /\ neg = "F" THEN "F" ELSE pos

CpErrors == {"DiodeFault", "PilotFault", "CPShort"}

CpError(pos, neg, is_ev, pwm) ==
    IF pwm /\ pos = "E" /\ neg = "E" THEN "CPShort"
    ELSE IF neg = OutOfRange /\ CpState(pos, neg, is_ev, pwm) \in {"B", "C", "D"}
         THEN "DiodeFault"
    ELSE IF pos = OutOfRange /\ neg = OutOfRange THEN "PilotFault"
    ELSE "None"

-----------------------------------------------------------------------------
(* The proximity pilot.  The bands are open at both ends: a voltage at a   *)
(* common end of two bands would count as no cable at all.                 *)

PpBands == {[above |-> 3800, below |-> 4500, means |-> "A_13"],
            [above |-> 2500, below |-> 3800, means |-> "A_20"],
            [above |-> 1600, below |-> 2500, means |-> "A_32"],
            [above |->  900, below |-> 1600, means |-> "A_63_3ph_70_1ph"]}

PpBand(mV) ==
    IF mV < 900 THEN "invalid"
    ELSE IF \E b \in PpBands : b.above < mV /\ mV < b.below
         THEN (CHOOSE b \in PpBands : b.above < mV /\ mV < b.below).means
         ELSE "None"

-----------------------------------------------------------------------------
(* The duty cycle, in tenths of a percent: what filter_duty_cycle replaces *)
(* it by, and the values it takes for an error and leaves as they are.     *)

DutyError(dc) == (70 < dc /\ dc < 80) \/ (970 < dc /\ dc <= 990)

(* Mutated form of FilteredDuty: 10 % is not rounded up to.                *)
FilteredDutyUnrounded(dc) ==
    IF dc < 30 THEN 0
    ELSE IF dc <= 70 THEN 50
    ELSE IF 960 < dc /\ dc <= 970 THEN 960
    ELSE IF 990 < dc THEN 1000 ELSE dc

FilteredDuty(dc) ==
    IF dc < 30 THEN 0
    ELSE IF dc <= 70 THEN 50
    ELSE IF 80 <= dc /\ dc < 100 THEN 100
    ELSE IF 960 < dc /\ dc <= 970 THEN 960
    ELSE IF 990 < dc THEN 1000 ELSE dc

=============================================================================
