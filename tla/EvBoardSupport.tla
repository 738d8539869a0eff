--------------------------- MODULE EvBoardSupport ---------------------------
(***************************************************************************)
(* What the EV module makes of the measurements of the KL02, and the CP    *)
(* state it presents to the charging station: the evaluation in KL02.cpp   *)
(* and the callbacks and command handlers of ev_board_supportImpl.cpp.     *)
(*                                                                         *)
(* As in EvseBoardSupport the reader and the framework thread share this   *)
(* state without a lock, and the reader is split where it matters.  A      *)
(* duty cycle is a number of tenths of a percent.                          *)
(***************************************************************************)
EXTENDS KL02Evaluation

CONSTANTS
    Ampacities,   \* cable codings besides None
    CpReadings,   \* the pairs (positive, negative) of CP bands measured
    DutyReadings, \* the duty cycles measured
    EvCpStates,   \* the CP states the framework asks for
    Envs          \* environments: sets of Mishaps, what may go wrong in each

(* defects: the two sides of the CP disagree with IEC 61851;               *)
(* preemption: the framework thread is interrupted inside disable;         *)
(* reconnect: the connection to the KL02 is made anew;                     *)
(* partial: a request is not written whole.                                *)
Mishaps == {"defects", "preemption", "reconnect", "partial"}

EvParameters ==
    /\ {"None", "invalid", "unset"} \cap Ampacities = {}
    /\ CpReadings \subseteq CpEvents \X CpEvents
    /\ DutyReadings \subseteq Nat
    /\ EvCpStates \subseteq {"A", "B", "C", "D", "E"}
    /\ Envs \subseteq SUBSET Mishaps

Codings == Ampacities \cup {"None"}

(* The duty cycles that have a meaning.                                    *)
Duties == {0, 50, 1000} \cup (100 .. 960)

VARIABLES
    (* fields of the driver *)
    driver_enabled, previous_cp_state, cp_error_raised, previous_ampacity,
    pp_error_raised, duty_cycle, duty_cycle_error_raised,
    (* fields of the module *)
    cp_current_state, pp_ampacity, bsp_measurement, requested_cp_state,
    is_enabled,
    (* the CP state the resistors of the KL02 present *)
    presented,
    (* the reader: its next step and what it evaluates *)
    step, reading,
    (* what is left of the command of the framework thread *)
    todo,
    (* history: the last CP state evaluated without error since the driver *)
    (* was enabled, the last valid coding and duty cycle, the verdict on   *)
    (* the last duty cycle, the commands failed since the last good        *)
    (* command and since the last good disable, and whether the resistors  *)
    (* were not set when they seemed to be, or reset since                 *)
    evaluated, coding, duty, duty_is_good, failed, enable_failed, unsent, lost,
    (* an exception has left the gensio callback *)
    thrown,
    (* the environment of this behaviour, one of Envs *)
    env

cpVars    == <<previous_cp_state, cp_error_raised, cp_current_state>>
ppVars    == <<previous_ampacity, pp_error_raised, pp_ampacity>>
dutyVars  == <<duty_cycle, duty_cycle_error_raised>>
stateVars == <<driver_enabled, is_enabled, requested_cp_state, presented>>
measured  == <<evaluated, coding, duty, duty_is_good>>
failures  == <<failed, enable_failed, unsent, lost>>
vars == <<cpVars, ppVars, dutyVars, stateVars, bsp_measurement, step, reading,
          todo, measured, failures, thrown, env>>

Steps == {"set_requested", "set_A", "enable_driver", "disable_driver",
          "forget_cp_state", "forget_ampacity", "reset_cp_state",
          "reset_ampacity", "enable_module", "disable_module"}

TypeOK ==
    /\ {driver_enabled, cp_error_raised, pp_error_raised, is_enabled,
        duty_cycle_error_raised, duty_is_good, failed, enable_failed,
        unsent, lost, thrown} \subseteq BOOLEAN
    /\ {previous_cp_state, cp_current_state} \subseteq CpEvents \cup {"PowerOn"}
    /\ {previous_ampacity, pp_ampacity} \subseteq Codings \cup {"unset"}
    /\ duty_cycle \in Duties \/ DutyError(duty_cycle)
    /\ bsp_measurement \in [proximity_pilot : Codings \cup {"unset"},
                            cp_pwm_duty_cycle : Duties \cup {-1}]
    /\ {requested_cp_state, presented} \subseteq EvCpStates \cup {"A"}
    /\ step \in {"idle", "cp_change", "cp_remember", "pp", "pp_compare",
                 "pp_change", "pp_removal", "pp_known", "pp_log", "pp_store",
                 "pp_remember"}
    /\ reading \in CpEvents \cup Codings \cup {"none"}
    /\ todo \in Seq(Steps)
    /\ evaluated \in CpEvents \cup {"none"}
    /\ coding \in Codings \cup {"none"}
    /\ duty \in Duties \cup {-1}

(* The measurement is published before it is complete: nothing initialises *)
(* its duty cycle, here -1.                                                *)
Init ==
    /\ driver_enabled = FALSE /\ is_enabled = FALSE
    /\ previous_cp_state = "PowerOn" /\ cp_current_state = "PowerOn"
    /\ previous_ampacity = "unset" /\ pp_ampacity = "unset"
    /\ cp_error_raised = FALSE /\ pp_error_raised = FALSE
    /\ duty_cycle = 1000 /\ duty_cycle_error_raised = FALSE
    /\ bsp_measurement = [proximity_pilot |-> "unset", cp_pwm_duty_cycle |-> -1]
    /\ requested_cp_state = "A" /\ presented = "A"
    /\ step = "idle" /\ reading = "none"
    /\ todo = <<>>
    /\ evaluated = "none" /\ coding = "none" /\ duty = -1
    /\ duty_is_good = FALSE /\ failed = FALSE /\ enable_failed = FALSE
    /\ unsent = FALSE /\ lost = FALSE
    /\ thrown = FALSE
    /\ env \in Envs

-----------------------------------------------------------------------------
(* The reader.                                                             *)

Idle == step = "idle"

Disabling == todo # <<>> /\ Head(todo) \in
                {"disable_driver", "forget_cp_state", "forget_ampacity",
                 "reset_cp_state", "reset_ampacity", "disable_module"}

(* These steps take no time compared with the 200 ms between two rounds of *)
(* measurements: they meet an evaluation only if the thread is preempted.  *)
Evaluates == /\ Idle /\ driver_enabled
             /\ "preemption" \in env \/ ~Disabling

(* A faulty CP measurement is remembered and goes no further: nobody       *)
(* listens to on_cp_error.                                                 *)
CpRead ==
    /\ Evaluates
    /\ \E r \in CpReadings :
          LET s   == CpState(r[1], r[2], TRUE, FALSE)
              err == CpError(r[1], r[2], TRUE, FALSE)
          IN  /\ "defects" \in env \/ err = "None"
              /\ reading' = s
              /\ cp_error_raised' = (err # "None")
              /\ previous_cp_state' = IF err # "None" THEN s ELSE previous_cp_state
              /\ evaluated' = IF err # "None" THEN evaluated ELSE s
              /\ step' = IF err = "None" /\ s # previous_cp_state
                         THEN "cp_change" ELSE "idle"
    /\ UNCHANGED <<cp_current_state, ppVars, dutyVars, stateVars, todo, coding,
                   bsp_measurement, duty, duty_is_good, failures, thrown>>

(* on_cp_change *)
CpChange ==
    /\ step = "cp_change"
    /\ cp_current_state' = reading
    /\ step' = "cp_remember"
    /\ UNCHANGED <<previous_cp_state, cp_error_raised, ppVars, dutyVars, todo,
                   stateVars, bsp_measurement, reading, measured, failures,
                   thrown>>

CpRemember ==
    /\ step = "cp_remember"
    /\ previous_cp_state' = reading
    /\ step' = "idle"
    /\ UNCHANGED <<cp_current_state, cp_error_raised, ppVars, dutyVars, todo,
                   stateVars, bsp_measurement, reading, measured, failures,
                   thrown>>

(* An invalid PP voltage: nobody listens to on_pp_error either.            *)
PpInvalid ==
    /\ Evaluates
    /\ previous_ampacity' = "unset"
    /\ pp_error_raised' = TRUE
    /\ UNCHANGED <<pp_ampacity, cpVars, dutyVars, stateVars, bsp_measurement,
                   step, reading, todo, measured, failures, thrown>>

PpRead ==
    /\ Evaluates
    /\ \E c \in Codings : reading' = c /\ coding' = c
    /\ step' = "pp"
    /\ UNCHANGED <<cpVars, ppVars, dutyVars, stateVars, bsp_measurement, todo,
                   evaluated, duty, duty_is_good, failures, thrown>>

(* previous_ampacity.has_value() and its value(), which throws if disable  *)
(* has reset it in between.                                                *)
PpValid ==
    /\ step = "pp"
    /\ step' = IF previous_ampacity = "unset" THEN "pp_change" ELSE "pp_compare"
    /\ UNCHANGED <<cpVars, ppVars, dutyVars, stateVars, bsp_measurement,
                   reading, todo, measured, failures, thrown>>

PpCompare ==
    /\ step = "pp_compare"
    /\ IF previous_ampacity = "unset"
       THEN thrown' = TRUE /\ UNCHANGED step
       ELSE /\ step' = IF reading = previous_ampacity THEN "idle" ELSE "pp_change"
            /\ UNCHANGED thrown
    /\ UNCHANGED <<cpVars, ppVars, dutyVars, stateVars, bsp_measurement,
                   reading, todo, measured, failures>>

(* on_pp_change logs an ampacity known from before: has_value(), asked     *)
(* once more if None follows None, and value(), which throws if            *)
(* handle_enable has reset it in between ...                               *)
PpChange ==
    /\ step \in {"pp_change", "pp_known"}
    /\ step' = IF pp_ampacity = "unset" THEN "pp_store"
               ELSE IF step = "pp_change" /\ reading = "None" THEN "pp_removal"
               ELSE "pp_log"
    /\ UNCHANGED <<cpVars, ppVars, dutyVars, stateVars, bsp_measurement,
                   reading, todo, measured, failures, thrown>>

PpLog ==
    /\ step \in {"pp_removal", "pp_log"}
    /\ IF pp_ampacity = "unset"
       THEN thrown' = TRUE /\ UNCHANGED step
       ELSE /\ step' = IF step = "pp_removal" /\ pp_ampacity = "None"
                       THEN "pp_known" ELSE "pp_store"
            /\ UNCHANGED thrown
    /\ UNCHANGED <<cpVars, ppVars, dutyVars, stateVars, bsp_measurement,
                   reading, todo, measured, failures>>

(* ... and publishes the measurement with the new one.                     *)
PpStore ==
    /\ step = "pp_store"
    /\ pp_ampacity' = reading
    /\ bsp_measurement' = [bsp_measurement EXCEPT !.proximity_pilot = reading]
    /\ step' = "pp_remember"
    /\ UNCHANGED <<previous_ampacity, pp_error_raised, cpVars, dutyVars, todo,
                   stateVars, reading, measured, failures, thrown>>

PpRemember ==
    /\ step = "pp_remember"
    /\ previous_ampacity' = reading
    /\ pp_error_raised' = FALSE
    /\ step' = "idle"
    /\ UNCHANGED <<pp_ampacity, cpVars, dutyVars, stateVars, bsp_measurement,
                   reading, todo, measured, failures, thrown>>

(* Mutated forms of DutyRead: an erroneous duty cycle is not stored; a     *)
(* changed one is stored but not put into the measurement.                 *)
DutyReadKeeps ==
    /\ Evaluates
    /\ \E dc \in DutyReadings :
          LET new == FilteredDuty(dc)
          IN  /\ duty_is_good' = ~DutyError(dc)
              /\ IF DutyError(dc)
                 THEN /\ duty_cycle_error_raised' = TRUE
                      /\ UNCHANGED <<duty_cycle, duty, bsp_measurement>>
                 ELSE /\ duty' = new
                      /\ duty_cycle' = new
                      /\ IF duty_cycle = new
                         THEN UNCHANGED <<duty_cycle_error_raised, bsp_measurement>>
                         ELSE /\ duty_cycle_error_raised' = FALSE
                              /\ bsp_measurement' =
                                   [bsp_measurement EXCEPT !.cp_pwm_duty_cycle = new]
    /\ UNCHANGED <<cpVars, ppVars, stateVars, step, reading, todo, evaluated,
                   coding, failures, thrown>>

DutyReadUnpublished ==
    /\ Evaluates
    /\ \E dc \in DutyReadings :
          LET new == FilteredDuty(dc)
          IN  /\ duty_is_good' = ~DutyError(dc)
              /\ duty_cycle' = new
              /\ IF DutyError(dc)
                 THEN /\ duty_cycle_error_raised' = TRUE
                      /\ UNCHANGED <<duty, bsp_measurement>>
                 ELSE /\ duty' = new
                      /\ duty_cycle_error_raised' = FALSE
                      /\ IF duty_cycle_error_raised
                         THEN UNCHANGED bsp_measurement
                         ELSE bsp_measurement' =
                                [bsp_measurement EXCEPT !.cp_pwm_duty_cycle = new]
    /\ UNCHANGED <<cpVars, ppVars, stateVars, step, reading, todo, evaluated,
                   coding, failures, thrown>>

(* filter_duty_cycle and on_duty_cycle_change.  An erroneous value is      *)
(* stored like a good one, so that the next good one counts as a change.   *)
DutyRead ==
    /\ Evaluates
    /\ \E dc \in DutyReadings :
          LET new == FilteredDuty(dc)
          IN  /\ duty_is_good' = ~DutyError(dc)
              /\ duty_cycle' = new
              /\ IF DutyError(dc)
                 THEN /\ duty_cycle_error_raised' = TRUE
                      /\ UNCHANGED <<duty, bsp_measurement>>
                 ELSE /\ duty' = new
                      /\ IF duty_cycle = new
                         THEN UNCHANGED <<duty_cycle_error_raised, bsp_measurement>>
                         ELSE /\ duty_cycle_error_raised' = FALSE
                              /\ bsp_measurement' =
                                   [bsp_measurement EXCEPT !.cp_pwm_duty_cycle = new]
    /\ UNCHANGED <<cpVars, ppVars, stateVars, step, reading, todo, evaluated,
                   coding, failures, thrown>>

Reader == \/ CpRead \/ CpChange \/ CpRemember
          \/ PpInvalid \/ PpRead \/ PpValid \/ PpCompare \/ PpChange
          \/ PpLog \/ PpStore \/ PpRemember
          \/ DutyRead

-----------------------------------------------------------------------------
(* The framework thread: the command handlers.                             *)

HandleEnable ==
    /\ todo = <<>>
    /\ \/ todo' = <<"set_requested", "enable_driver", "enable_module">>
       \/ todo' = <<"set_A", "disable_driver", "reset_cp_state",
                    "reset_ampacity", "disable_module">>
    /\ failed' = FALSE
    /\ UNCHANGED <<cpVars, ppVars, dutyVars, stateVars, bsp_measurement, step,
                   reading, measured, enable_failed, unsent, lost, thrown>>

(* Mutated form of HandleSetCpState: it does not wait for the module to be *)
(* enabled.                                                                *)
HandleSetCpStateAtOnce ==
    /\ todo = <<>>
    /\ requested_cp_state' \in EvCpStates
    /\ todo' = <<"set_requested">>
    /\ failed' = FALSE
    /\ UNCHANGED <<cpVars, ppVars, dutyVars, driver_enabled, is_enabled,
                   presented, bsp_measurement, step, reading, measured,
                   enable_failed, unsent, lost, thrown>>

HandleSetCpState ==
    /\ todo = <<>>
    /\ requested_cp_state' \in EvCpStates
    /\ todo' = IF is_enabled THEN <<"set_requested">> ELSE <<>>
    /\ failed' = FALSE
    /\ UNCHANGED <<cpVars, ppVars, dutyVars, driver_enabled, is_enabled,
                   presented, bsp_measurement, step, reading, measured,
                   enable_failed, unsent, lost, thrown>>

Does(s) == todo # <<>> /\ Head(todo) = s
Done    == todo' = Tail(todo)

(* KL02::set_cp_state.  If it throws the handler ends, and the resistors   *)
(* may or may not have been switched.  It returns as well, and nothing is  *)
(* switched, if the request was not written whole (KL02.cpp:76-90).        *)
SetCpState ==
    /\ Does("set_requested") \/ Does("set_A")
    /\ LET s == IF Does("set_A") THEN "A" ELSE requested_cp_state
       IN  \/ presented' = s /\ Done /\ unsent' = FALSE /\ lost' = FALSE
             /\ UNCHANGED <<failed, enable_failed>>
           \/ /\ "partial" \in env
              /\ Done /\ unsent' = TRUE
              /\ UNCHANGED <<presented, failed, enable_failed, lost>>
           \/ /\ presented' \in {presented, s}
              /\ todo' = <<>>
              /\ failed' = TRUE
              /\ enable_failed' = TRUE
              /\ UNCHANGED <<unsent, lost>>
    /\ UNCHANGED <<cpVars, ppVars, dutyVars, driver_enabled, is_enabled,
                   requested_cp_state, bsp_measurement, step, reading, measured,
                   thrown>>

EnableDriver ==
    /\ Does("enable_driver") /\ Done
    /\ driver_enabled' = TRUE
    /\ evaluated' = IF driver_enabled THEN evaluated ELSE "none"
    /\ UNCHANGED <<cpVars, ppVars, dutyVars, is_enabled, requested_cp_state,
                   presented, bsp_measurement, step, reading, coding, duty,
                   duty_is_good, failures, thrown>>

(* KL02::disable forgets what was measured only if it was enabled.         *)
DisableDriver ==
    /\ Does("disable_driver")
    /\ "preemption" \in env \/ Idle
    /\ driver_enabled' = FALSE
    /\ todo' = IF driver_enabled
               THEN <<"forget_cp_state", "forget_ampacity">> \o Tail(todo)
               ELSE Tail(todo)
    /\ UNCHANGED <<cpVars, ppVars, dutyVars, is_enabled, requested_cp_state,
                   presented, bsp_measurement, step, reading, measured,
                   failures, thrown>>

ForgetCpState ==
    /\ Does("forget_cp_state") /\ Done
    /\ previous_cp_state' = OutOfRange
    /\ UNCHANGED <<cp_current_state, cp_error_raised, ppVars, dutyVars,
                   stateVars, bsp_measurement, step, reading, measured,
                   failures, thrown>>

ForgetAmpacity ==
    /\ Does("forget_ampacity") /\ Done
    /\ previous_ampacity' = "unset"
    /\ UNCHANGED <<pp_ampacity, pp_error_raised, cpVars, dutyVars, stateVars,
                   bsp_measurement, step, reading, measured, failures, thrown>>

ResetCpState ==
    /\ Does("reset_cp_state") /\ Done
    /\ cp_current_state' = "PowerOn"
    /\ UNCHANGED <<previous_cp_state, cp_error_raised, ppVars, dutyVars,
                   stateVars, bsp_measurement, step, reading, measured,
                   failures, thrown>>

ResetAmpacity ==
    /\ Does("reset_ampacity") /\ Done
    /\ pp_ampacity' = "unset"
    /\ UNCHANGED <<previous_ampacity, pp_error_raised, cpVars, dutyVars,
                   stateVars, bsp_measurement, step, reading, measured,
                   failures, thrown>>

SetModule ==
    /\ Does("enable_module") \/ Does("disable_module")
    /\ Done
    /\ is_enabled' = Does("enable_module")
    /\ enable_failed' = (enable_failed /\ Does("enable_module"))
    /\ UNCHANGED <<cpVars, ppVars, dutyVars, driver_enabled, requested_cp_state,
                   presented, bsp_measurement, step, reading, measured, failed,
                   unsent, lost, thrown>>

(* A new connection begins with a RESET, sent by the query thread between  *)
(* two requests of others: the resistors are back at A, and nobody sets    *)
(* them again.                                                             *)
Reset ==
    /\ "reconnect" \in env
    /\ presented' = "A" /\ lost' = TRUE
    /\ UNCHANGED <<cpVars, ppVars, dutyVars, driver_enabled, is_enabled,
                   requested_cp_state, bsp_measurement, step, reading, todo,
                   measured, failed, enable_failed, unsent, thrown>>

Handler == \/ HandleEnable \/ HandleSetCpState \/ SetCpState
           \/ EnableDriver \/ DisableDriver \/ ForgetCpState \/ ForgetAmpacity
           \/ ResetCpState \/ ResetAmpacity \/ SetModule

(* An exception that leaves the gensio callback ends everything.           *)
Stopped == thrown /\ UNCHANGED vars

Next == \/ ~thrown /\ (Reader \/ Handler \/ Reset) /\ UNCHANGED env
        \/ Stopped

Spec == Init /\ [][Next]_vars

-----------------------------------------------------------------------------
(* Properties.                                                             *)

(* An error of the duty cycle ends with the first good measurement, even   *)
(* if that is the duty cycle from before the error.                        *)
DutyErrorEnds == duty_is_good => ~duty_cycle_error_raised

(* What is published is what was measured last: the ampacity once it has   *)
(* been evaluated, the duty cycle once one has been published.  They are   *)
(* published together although they change independently, and neither is   *)
(* lost when the module is disabled in between.                            *)
MeasurementCurrent ==
    /\ Idle /\ coding # "none" => bsp_measurement.proximity_pilot = coding
    /\ duty # -1 => \/ bsp_measurement.cp_pwm_duty_cycle = duty
                    \/ bsp_measurement.cp_pwm_duty_cycle = -1 /\ duty = 1000

(* Between two commands an enabled module presents the CP state asked for  *)
(* last, and a disabled one A, although three steps of two handlers decide *)
(* it.  Apart from the ways in which the driver loses hold of the          *)
(* resistors: the command failed with an exception, the request was never  *)
(* sent although set_cp_state returned, or the KL02 was reset since.       *)
PresentsRequested ==
    todo = <<>> /\ ~unsent =>
        IF is_enabled THEN failed \/ lost \/ presented = requested_cp_state
                      ELSE enable_failed \/ presented = "A"

(* The state the module works with is the one that was evaluated last,     *)
(* with healthy readings and without preemption; but as in the EVSE module *)
(* a voltage between two bands, directly after a disable, goes unnoticed.  *)
CpStateTracked ==
    env \subseteq {"reconnect", "partial"} /\ Idle /\ driver_enabled /\ ~Disabling
    /\ evaluated # "none"
        => \/ cp_current_state = evaluated
           \/ cp_current_state = "PowerOn" /\ evaluated = OutOfRange

=============================================================================
