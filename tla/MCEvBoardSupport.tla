-------------------------- MODULE MCEvBoardSupport --------------------------
(***************************************************************************)
(* The two modules that implement the interface ev_board_support, for TLC: *)
(* EvBoardSupport (EVAchargeSEEV) and MCSBoardSupport (MCSTesterEV).  A    *)
(* behaviour is one of either; the fields both have are the same variables *)
(* here, and the variables only the other one has stay where they are.     *)
(***************************************************************************)
EXTENDS KL02Evaluation

CONSTANTS
    KL02Ampacities, CpReadings, DutyReadings, EvCpStates, KL02Envs, MCUEnvs

VARIABLES
    focus,   \* the module that runs
    driver_enabled, previous_cp_state, previous_ampacity, duty_cycle,
    cp_current_state, pp_ampacity, bsp_measurement, requested_cp_state,
    is_enabled, presented, todo, evaluated, failed, enable_failed, unsent,
    thrown, env,
    (* EVAchargeSEEV *)
    cp_error_raised, pp_error_raised, duty_cycle_error_raised, step, reading,
    coding, duty, duty_is_good, lost,
    (* MCSTesterEV *)
    round, voltages, event

KL02 == INSTANCE EvBoardSupport
           WITH Ampacities <- KL02Ampacities, Envs <- KL02Envs
MCU  == INSTANCE MCSBoardSupport WITH Envs <- MCUEnvs

ASSUME Constants == KL02!EvParameters /\ MCU!MCSParameters

(* A charging station in two states and between two of them, and one       *)
(* with a missing diode.                                                   *)
Mixed == ({"B", "C", OutOfRange} \X {"F"}) \cup {<<"C", OutOfRange>>}

(* One duty cycle that is passed on as it is, one that is replaced, one    *)
(* that is erroneous.                                                      *)
SomeDuties == {530, 85, 75}

sharedVars == <<driver_enabled, previous_cp_state, previous_ampacity,
                duty_cycle, cp_current_state, pp_ampacity, bsp_measurement,
                requested_cp_state, is_enabled, presented, todo, evaluated,
                failed, enable_failed, unsent, thrown, env>>
kl02Vars   == <<cp_error_raised, pp_error_raised, duty_cycle_error_raised,
                step, reading, coding, duty, duty_is_good, lost>>
mcuVars    == <<round, voltages, event>>
vars       == <<focus, sharedVars, kl02Vars, mcuVars>>

Init ==
    \/ /\ focus = "KL02" /\ KL02!Init
       /\ round = <<>> /\ event = "Disconnected"
       /\ voltages = [id |-> "None", ce |-> "zero"]
    \/ /\ focus = "MCU" /\ MCU!Init
       /\ cp_error_raised = FALSE /\ pp_error_raised = FALSE
       /\ duty_cycle_error_raised = FALSE /\ duty_is_good = FALSE
       /\ lost = FALSE /\ step = "idle" /\ reading = "none"
       /\ coding = "none" /\ duty = -1

KL02Runs == focus = "KL02" /\ KL02!Next /\ UNCHANGED <<focus, mcuVars>>
MCURuns  == focus = "MCU"  /\ MCU!Next  /\ UNCHANGED <<focus, kl02Vars>>

Next == KL02Runs \/ MCURuns

Spec == Init /\ [][Next]_vars

TypeOK == /\ focus = "KL02" => KL02!TypeOK
          /\ focus = "MCU"  => MCU!TypeOK

(* An error of the duty cycle ends (only EVAchargeSEEV knows one).         *)
DutyErrorEnds == focus = "KL02" => KL02!DutyErrorEnds

(* The measurement published is the one made last.                         *)
MeasurementCurrent == /\ focus = "KL02" => KL02!MeasurementCurrent
                      /\ focus = "MCU"  => MCU!MeasurementCurrent

(* The CP state presented is the one the framework has asked for, as long  *)
(* as the driver has hold of the resistors.                                *)
PresentsRequested == /\ focus = "KL02" => KL02!PresentsRequested
                     /\ focus = "MCU"  => MCU!PresentsRequested

(* The CP state published is the one evaluated last.                       *)
CpStateTracked == /\ focus = "KL02" => KL02!CpStateTracked
                  /\ focus = "MCU"  => MCU!CpStateTracked

=============================================================================
