-------------------------- MODULE EvseBoardSupport --------------------------
(***************************************************************************)
(* What the EVSE module makes of the measurements of the KL02:             *)
(* KL02::cp_voltages_to_cp_state and pp_voltage_to_pp_state (KL02.cpp) and *)
(* the callbacks and command handlers of evse_board_supportImpl.cpp.       *)
(*                                                                         *)
(* Two threads share this state without a lock: the reader, which runs     *)
(* inside the gensio callback and evaluates one reply after the other, and *)
(* the framework thread that runs the command handlers.  The reader's      *)
(* evaluation is split where the handler thread can come in between.       *)
(*                                                                         *)
(* A voltage is represented by the event or ampacity its band stands for   *)
(* (KL02Evaluation), a duty cycle not at all.                              *)
(***************************************************************************)
EXTENDS KL02Evaluation

CONSTANTS
    Ampacities,   \* cable codings besides None
    CpReadings,   \* the pairs (positive, negative) of CP bands measured
    Envs          \* environments: sets of Mishaps, what may go wrong in each

(* defects: the two sides of the CP disagree with IEC 61851;               *)
(* preemption: the framework thread is interrupted inside disable.         *)
Mishaps == {"defects", "preemption"}

ASSUME EvseAssumption ==
    /\ {"None", "invalid", "unset"} \cap Ampacities = {}
    /\ CpReadings \subseteq CpEvents \X CpEvents
    /\ Envs \subseteq SUBSET Mishaps

Codings  == Ampacities \cup {"None"}
Errors   == {"DiodeFault", "MREC14PilotFault", "MREC23ProximityFault"}

VARIABLES
    (* fields of the driver *)
    driver_enabled, pwm_status, cp_error_raised, previous_cp_state,
    pp_error_raised, previous_ampacity,
    (* fields of the module *)
    cp_current_state, pp_ampacity, pp_fault_reported, diode_fault_is_active,
    pilot_fault_is_active, is_enabled,
    (* the errors raised and not cleared, as the framework knows them *)
    errors,
    (* the reader: its next step and what it evaluates *)
    step, reading,
    (* what is left of the command of the framework thread *)
    todo,
    (* history: the last CP state evaluated without error since the module *)
    (* was enabled, the verdict on the last CP and PP readings, and whether *)
    (* an evaluation was under way when the driver was disabled last       *)
    evaluated, verdict, coding, overlapped,
    (* an exception has left the gensio callback *)
    thrown,
    (* the environment of this behaviour, one of Envs *)
    env

driverVars == <<driver_enabled, previous_cp_state, previous_ampacity>>
moduleVars == <<cp_current_state, pp_ampacity, is_enabled>>
cpFaults   == <<cp_error_raised, diode_fault_is_active, pilot_fault_is_active>>
ppFaults   == <<pp_error_raised, pp_fault_reported>>
history    == <<evaluated, verdict, coding, overlapped>>
vars == <<driverVars, moduleVars, cpFaults, ppFaults, errors, pwm_status,
          step, reading, todo, history, thrown, env>>

Steps == {"set_duty", "pwm_disable", "enable_driver", "disable_driver",
          "forget_cp_state", "forget_ampacity", "enable_module",
          "reset_cp_state", "reset_ampacity", "disable_module"}

TypeOK ==
    /\ {driver_enabled, pwm_status, cp_error_raised, pp_error_raised,
        pp_fault_reported, diode_fault_is_active, pilot_fault_is_active,
        is_enabled, overlapped, thrown} \subseteq BOOLEAN
    /\ previous_cp_state \in CpEvents \cup {"PowerOn"}
    /\ cp_current_state \in CpEvents \cup {"PowerOn"}
    /\ previous_ampacity \in Codings \cup {"unset"}
    /\ pp_ampacity \in Codings \cup {"unset"}
    /\ errors \subseteq Errors
    /\ step \in {"idle", "cp_fault", "cp_change", "cp_track", "cp_remember",
                 "pp", "pp_compare", "pp_change", "pp_removal", "pp_known",
                 "pp_log", "pp_store", "pp_publish", "pp_check", "pp_remember"}
    /\ reading \in CpEvents \cup Codings \cup {"none", "invalid"}
    /\ todo \in Seq(Steps)
    /\ evaluated \in CpEvents \cup {"none"}
    /\ verdict \in CpErrors \cup {"None"}
    /\ coding \in Codings \cup {"none", "invalid"}

Init ==
    /\ driver_enabled = FALSE /\ pwm_status = FALSE
    /\ cp_error_raised = FALSE /\ pp_error_raised = FALSE
    /\ previous_cp_state = "PowerOn" /\ previous_ampacity = "unset"
    /\ cp_current_state = "PowerOn" /\ pp_ampacity = "unset"
    /\ pp_fault_reported = FALSE
    /\ diode_fault_is_active = FALSE /\ pilot_fault_is_active = FALSE
    /\ is_enabled = FALSE
    /\ errors = {}
    /\ step = "idle" /\ reading = "none"
    /\ todo = <<>>
    /\ evaluated = "none" /\ verdict = "None" /\ coding = "none"
    /\ overlapped = FALSE /\ thrown = FALSE
    /\ env \in Envs

-----------------------------------------------------------------------------
(* The reader, CP voltages.                                                *)

Idle == step = "idle"

(* The framework thread is between the answered set_duty_cycle(0.0) and    *)
(* the end of handle_enable(false).                                        *)
Disabling == todo # <<>> /\ Head(todo) \in
                {"disable_driver", "forget_cp_state", "forget_ampacity",
                 "reset_cp_state", "reset_ampacity", "disable_module"}

(* These steps take no time compared with the 200 ms between two rounds of *)
(* measurements: they meet an evaluation only if the thread is preempted.  *)
Undisturbed == "preemption" \in env \/ (Idle /\ ~Disabling)

(* A GET_UCP reply is evaluated only while the driver is enabled.          *)
CpRead ==
    /\ Idle /\ driver_enabled
    /\ Undisturbed
    /\ \E r \in CpReadings :
          /\ "defects" \in env \/ CpError(r[1], r[2], FALSE, pwm_status) = "None"
          /\ reading' = CpState(r[1], r[2], FALSE, pwm_status)
          /\ verdict' = CpError(r[1], r[2], FALSE, pwm_status)
    /\ step' = "cp_fault"
    /\ UNCHANGED <<driverVars, moduleVars, cpFaults, ppFaults, errors,
                   pwm_status, todo, evaluated, coding, overlapped, thrown>>

(* on_cp_error with an error: only the first of a series is reported.      *)
ReportCpError ==
    /\ diode_fault_is_active' = (diode_fault_is_active \/ verdict = "DiodeFault")
    /\ pilot_fault_is_active' = (pilot_fault_is_active \/ verdict # "DiodeFault")
    /\ errors' = errors \cup {IF verdict = "DiodeFault" THEN "DiodeFault"
                              ELSE "MREC14PilotFault"}

(* Mutated form of CpFault: only the last error of a series is remembered. *)
CpFaultUnlatched ==
    /\ step = "cp_fault" /\ verdict # "None"
    /\ previous_cp_state' = reading
    /\ ReportCpError /\ cp_error_raised' = TRUE
    /\ step' = "idle"
    /\ UNCHANGED <<driver_enabled, previous_ampacity, moduleVars, ppFaults,
                   pwm_status, reading, todo, history, thrown>>

(* A faulty measurement is remembered as the previous state and goes no    *)
(* further.                                                                *)
CpFault ==
    /\ step = "cp_fault" /\ verdict # "None"
    /\ previous_cp_state' = reading
    /\ IF cp_error_raised
       THEN UNCHANGED <<cpFaults, errors>>
       ELSE ReportCpError /\ cp_error_raised' = TRUE
    /\ step' = "idle"
    /\ UNCHANGED <<driver_enabled, previous_ampacity, moduleVars, ppFaults,
                   pwm_status, reading, todo, history, thrown>>

(* on_cp_error with None: what is reported is cleared.                     *)
ClearCpError ==
    /\ diode_fault_is_active' = FALSE
    /\ pilot_fault_is_active' = FALSE
    /\ errors' = errors \ ((IF diode_fault_is_active THEN {"DiodeFault"} ELSE {})
          \cup (IF pilot_fault_is_active THEN {"MREC14PilotFault"} ELSE {}))

(* Mutated form of CpNoFault: a reported error is not cleared.             *)
CpNoFaultSilent ==
    /\ step = "cp_fault" /\ verdict = "None"
    /\ UNCHANGED <<cpFaults, errors>>
    /\ step' = "cp_change"
    /\ evaluated' = reading
    /\ UNCHANGED <<driverVars, moduleVars, ppFaults, pwm_status, reading,
                   todo, verdict, coding, overlapped, thrown>>

CpNoFault ==
    /\ step = "cp_fault" /\ verdict = "None"
    /\ IF cp_error_raised
       THEN ClearCpError /\ cp_error_raised' = FALSE
       ELSE UNCHANGED <<cpFaults, errors>>
    /\ step' = "cp_change"
    /\ evaluated' = reading
    /\ UNCHANGED <<driverVars, moduleVars, ppFaults, pwm_status, reading,
                   todo, verdict, coding, overlapped, thrown>>

(* A changed state is published: on_cp_change up to publish_event.         *)
CpChange ==
    /\ step = "cp_change"
    /\ step' = IF previous_cp_state # reading THEN "cp_track" ELSE "idle"
    /\ UNCHANGED <<driverVars, moduleVars, cpFaults, ppFaults, errors,
                   pwm_status, reading, todo, history, thrown>>

(* ... and from there: state A also clears a proximity fault.              *)
CpTrack ==
    /\ step = "cp_track"
    /\ cp_current_state' = reading
    /\ IF reading = "A" /\ pp_fault_reported
       THEN pp_fault_reported' = FALSE
            /\ errors' = errors \ {"MREC23ProximityFault"}
       ELSE UNCHANGED <<pp_fault_reported, errors>>
    /\ step' = "cp_remember"
    /\ UNCHANGED <<driverVars, pp_ampacity, is_enabled, cpFaults,
                   pp_error_raised, pwm_status, reading, todo, history, thrown>>

CpRemember ==
    /\ step = "cp_remember"
    /\ previous_cp_state' = reading
    /\ step' = "idle"
    /\ UNCHANGED <<driver_enabled, previous_ampacity, moduleVars, cpFaults,
                   ppFaults, errors, pwm_status, reading, todo, history, thrown>>

-----------------------------------------------------------------------------
(* The reader, PP voltage.                                                 *)

PpRead ==
    /\ Idle /\ driver_enabled
    /\ Undisturbed
    /\ \E c \in Codings \cup {"invalid"} : reading' = c /\ coding' = c
    /\ step' = "pp"
    /\ UNCHANGED <<driverVars, moduleVars, cpFaults, ppFaults, errors,
                   pwm_status, todo, evaluated, verdict, overlapped, thrown>>

ReportProximityFault ==
    /\ pp_fault_reported' = TRUE
    /\ errors' = errors \cup {"MREC23ProximityFault"}

(* Mutated forms of PpInvalid: the ampacity is kept; an invalid one is     *)
(* remembered.                                                             *)
PpInvalidKeeps ==
    /\ step = "pp" /\ reading = "invalid"
    /\ pp_error_raised' = TRUE
    /\ IF pp_error_raised THEN UNCHANGED <<pp_fault_reported, errors>>
                          ELSE ReportProximityFault
    /\ step' = "idle"
    /\ UNCHANGED <<driverVars, moduleVars, cpFaults,
                   pwm_status, reading, todo, history, thrown>>

PpInvalidRemembers ==
    /\ step = "pp" /\ reading = "invalid"
    /\ previous_ampacity' = reading
    /\ pp_error_raised' = TRUE
    /\ IF pp_error_raised THEN UNCHANGED <<pp_fault_reported, errors>>
                          ELSE ReportProximityFault
    /\ step' = "idle"
    /\ UNCHANGED <<driver_enabled, previous_cp_state, moduleVars, cpFaults,
                   pwm_status, reading, todo, history, thrown>>

(* The ampacity is forgotten, so that the next valid one counts as a       *)
(* change; only the first error of a series is reported.                   *)
PpInvalid ==
    /\ step = "pp" /\ reading = "invalid"
    /\ previous_ampacity' = "unset"
    /\ pp_error_raised' = TRUE
    /\ IF pp_error_raised THEN UNCHANGED <<pp_fault_reported, errors>>
                          ELSE ReportProximityFault
    /\ step' = "idle"
    /\ UNCHANGED <<driver_enabled, previous_cp_state, moduleVars, cpFaults,
                   pwm_status, reading, todo, history, thrown>>

(* previous_ampacity.has_value() ...                                       *)
PpValid ==
    /\ step = "pp" /\ reading # "invalid"
    /\ step' = IF previous_ampacity = "unset" THEN "pp_change" ELSE "pp_compare"
    /\ UNCHANGED <<driverVars, moduleVars, cpFaults, ppFaults, errors,
                   pwm_status, reading, todo, history, thrown>>

(* ... and its value(), which throws if disable has reset it in between.   *)
PpCompare ==
    /\ step = "pp_compare"
    /\ IF previous_ampacity = "unset"
       THEN thrown' = TRUE /\ UNCHANGED step
       ELSE /\ step' = IF reading = previous_ampacity THEN "idle" ELSE "pp_change"
            /\ UNCHANGED thrown
    /\ UNCHANGED <<driverVars, moduleVars, cpFaults, ppFaults, errors,
                   pwm_status, reading, todo, history>>

(* on_pp_change: an ampacity known from before is logged.  has_value(),    *)
(* asked once more if None follows None, ...                               *)
PpChange ==
    /\ step \in {"pp_change", "pp_known"}
    /\ step' = IF pp_ampacity = "unset" THEN "pp_store"
               ELSE IF step = "pp_change" /\ reading = "None" THEN "pp_removal"
               ELSE "pp_log"
    /\ UNCHANGED <<driverVars, moduleVars, cpFaults, ppFaults, errors,
                   pwm_status, reading, todo, history, thrown>>

(* ... and value(), which throws if handle_enable has reset it in between. *)
PpLog ==
    /\ step \in {"pp_removal", "pp_log"}
    /\ IF pp_ampacity = "unset"
       THEN thrown' = TRUE /\ UNCHANGED step
       ELSE /\ step' = IF step = "pp_removal" /\ pp_ampacity = "None"
                       THEN "pp_known" ELSE "pp_store"
            /\ UNCHANGED thrown
    /\ UNCHANGED <<driverVars, moduleVars, cpFaults, ppFaults, errors,
                   pwm_status, reading, todo, history>>

(* ... the new one is stored, a fault reported before is cleared ...       *)
PpStore ==
    /\ step = "pp_store"
    /\ pp_ampacity' = reading
    /\ pp_fault_reported' = FALSE
    /\ errors' = IF pp_fault_reported THEN errors \ {"MREC23ProximityFault"}
                                      ELSE errors
    /\ step' = "pp_publish"
    /\ UNCHANGED <<driverVars, cp_current_state, is_enabled, cpFaults,
                   pp_error_raised, pwm_status, reading, todo, history, thrown>>

(* ... pp_ampacity.value() is published ...                                *)
PpPublish ==
    /\ step = "pp_publish"
    /\ IF pp_ampacity = "unset" THEN thrown' = TRUE /\ UNCHANGED step
                                ELSE step' = "pp_check" /\ UNCHANGED thrown
    /\ UNCHANGED <<driverVars, moduleVars, cpFaults, ppFaults, errors,
                   pwm_status, reading, todo, history>>

(* Mutated form of PpCheck: charging with ventilation is left out.         *)
PpCheckOnlyC ==
    /\ step = "pp_check"
    /\ IF pp_ampacity = "unset"
       THEN thrown' = TRUE /\ UNCHANGED <<step, pp_fault_reported, errors>>
       ELSE /\ IF pp_ampacity = "None" /\ cp_current_state = "C"
               THEN ReportProximityFault
               ELSE UNCHANGED <<pp_fault_reported, errors>>
            /\ step' = "pp_remember"
            /\ UNCHANGED thrown
    /\ UNCHANGED <<driverVars, moduleVars, cpFaults, pp_error_raised,
                   pwm_status, reading, todo, history>>

(* ... and read once more: a plug removed while charging is a fault.       *)
PpCheck ==
    /\ step = "pp_check"
    /\ IF pp_ampacity = "unset"
       THEN thrown' = TRUE /\ UNCHANGED <<step, pp_fault_reported, errors>>
       ELSE /\ IF pp_ampacity = "None" /\ cp_current_state \in {"C", "D"}
               THEN ReportProximityFault
               ELSE UNCHANGED <<pp_fault_reported, errors>>
            /\ step' = "pp_remember"
            /\ UNCHANGED thrown
    /\ UNCHANGED <<driverVars, moduleVars, cpFaults, pp_error_raised,
                   pwm_status, reading, todo, history>>

PpRemember ==
    /\ step = "pp_remember"
    /\ previous_ampacity' = reading
    /\ pp_error_raised' = FALSE
    /\ step' = "idle"
    /\ UNCHANGED <<driver_enabled, previous_cp_state, moduleVars, cpFaults,
                   pp_fault_reported, errors, pwm_status, reading, todo,
                   history, thrown>>

Reader == \/ CpRead \/ CpFault \/ CpNoFault \/ CpChange \/ CpTrack \/ CpRemember
          \/ PpRead \/ PpInvalid \/ PpValid \/ PpCompare \/ PpChange \/ PpLog
          \/ PpStore \/ PpPublish \/ PpCheck \/ PpRemember

-----------------------------------------------------------------------------
(* The framework thread: the command handlers.                             *)

Commands ==
    [enable  |-> <<"set_duty", "enable_driver", "enable_module">>,
     disable |-> <<"set_duty", "disable_driver", "reset_cp_state",
                   "reset_ampacity", "disable_module">>,
     duty    |-> <<"set_duty">>,       \* pwm_on, cp_state_X1, cp_state_F
     state_E |-> <<"pwm_disable">>]

Handle ==
    /\ todo = <<>>
    /\ \E c \in DOMAIN Commands : todo' = Commands[c]
    /\ UNCHANGED <<driverVars, moduleVars, cpFaults, ppFaults, errors,
                   pwm_status, step, reading, history, thrown>>

Does(s) == todo # <<>> /\ Head(todo) = s
Done    == todo' = Tail(todo)

(* KL02::set_duty_cycle and pwm_disable return with PWM on or off, or      *)
(* throw: the handler ends, and PWM may or may not have been switched.     *)
(* pwm_status itself is written by the reader, between two evaluations.    *)
SwitchPwm ==
    /\ Does("set_duty") \/ Does("pwm_disable")
    /\ \/ pwm_status' = Does("set_duty") /\ Done
       \/ pwm_status' \in {pwm_status, Does("set_duty")} /\ todo' = <<>>
    /\ pwm_status' # pwm_status => Idle
    /\ UNCHANGED <<driverVars, moduleVars, cpFaults, ppFaults, errors,
                   step, reading, history, thrown>>

EnableDriver ==
    /\ Does("enable_driver") /\ Done
    /\ driver_enabled' = TRUE
    /\ evaluated' = IF driver_enabled THEN evaluated ELSE "none"
    /\ UNCHANGED <<previous_cp_state, previous_ampacity, moduleVars, cpFaults,
                   ppFaults, errors, pwm_status, step, reading, verdict, coding,
                   overlapped, thrown>>

(* KL02::disable forgets what was measured only if it was enabled.         *)
DisableDriver ==
    /\ Does("disable_driver")
    /\ "preemption" \in env \/ Idle
    /\ driver_enabled' = FALSE
    /\ overlapped' = (~Idle \/ (overlapped /\ ~driver_enabled))
    /\ todo' = IF driver_enabled
               THEN <<"forget_cp_state", "forget_ampacity">> \o Tail(todo)
               ELSE Tail(todo)
    /\ UNCHANGED <<previous_cp_state, previous_ampacity, moduleVars, cpFaults,
                   ppFaults, errors, pwm_status, step, reading, evaluated,
                   verdict, coding, thrown>>

(* Mutated form of ForgetCpState: nothing is forgotten.                    *)
ForgetNoCpState ==
    /\ Does("forget_cp_state") /\ Done
    /\ UNCHANGED <<driverVars, moduleVars, cpFaults,
                   ppFaults, errors, pwm_status, step, reading, history, thrown>>

ForgetCpState ==
    /\ Does("forget_cp_state") /\ Done
    /\ previous_cp_state' = OutOfRange
    /\ UNCHANGED <<driver_enabled, previous_ampacity, moduleVars, cpFaults,
                   ppFaults, errors, pwm_status, step, reading, history, thrown>>

(* Mutated form of ForgetAmpacity: nothing is forgotten.                   *)
ForgetNoAmpacity ==
    /\ Does("forget_ampacity") /\ Done
    /\ UNCHANGED <<driverVars, moduleVars, cpFaults,
                   ppFaults, errors, pwm_status, step, reading, history, thrown>>

ForgetAmpacity ==
    /\ Does("forget_ampacity") /\ Done
    /\ previous_ampacity' = "unset"
    /\ UNCHANGED <<driver_enabled, previous_cp_state, moduleVars, cpFaults,
                   ppFaults, errors, pwm_status, step, reading, history, thrown>>

ResetCpState ==
    /\ Does("reset_cp_state") /\ Done
    /\ cp_current_state' = "PowerOn"
    /\ UNCHANGED <<driverVars, pp_ampacity, is_enabled, cpFaults, ppFaults,
                   errors, pwm_status, step, reading, history, thrown>>

ResetAmpacity ==
    /\ Does("reset_ampacity") /\ Done
    /\ pp_ampacity' = "unset"
    /\ UNCHANGED <<driverVars, cp_current_state, is_enabled, cpFaults, ppFaults,
                   errors, pwm_status, step, reading, history, thrown>>

SetModule ==
    /\ Does("enable_module") \/ Does("disable_module")
    /\ Done
    /\ is_enabled' = Does("enable_module")
    /\ UNCHANGED <<driverVars, cp_current_state, pp_ampacity, cpFaults, ppFaults,
                   errors, pwm_status, step, reading, history, thrown>>

Handler == \/ Handle \/ SwitchPwm \/ EnableDriver \/ DisableDriver
           \/ ForgetCpState \/ ForgetAmpacity \/ ResetCpState \/ ResetAmpacity
           \/ SetModule

(* An exception that leaves the gensio callback ends everything.           *)
Stopped == thrown /\ UNCHANGED vars

Next == \/ ~thrown /\ (Reader \/ Handler) /\ UNCHANGED env
        \/ Stopped

Spec == Init /\ [][Next]_vars

-----------------------------------------------------------------------------
(* Properties.                                                             *)

(* Four flags of two objects and the framework's list of errors describe   *)
(* the same faults: what is raised can be cleared, nothing is cleared that *)
(* was not raised, and at most one CP error is open at a time.             *)
FaultsAgree ==
    /\ cp_error_raised <=> diode_fault_is_active \/ pilot_fault_is_active
    /\ ~(diode_fault_is_active /\ pilot_fault_is_active)
    /\ diode_fault_is_active <=> "DiodeFault" \in errors
    /\ pilot_fault_is_active <=> "MREC14PilotFault" \in errors
    /\ pp_fault_reported <=> "MREC23ProximityFault" \in errors

(* Between two evaluations a CP error is open if and only if the last CP   *)
(* measurement was faulty: none is missed, none outlives a good one, even  *)
(* when the module was disabled and enabled again in between.              *)
CpErrorFollowsMeasurement ==
    step # "cp_fault" => (cp_error_raised <=> verdict # "None")

(* A cable that is measured again ends a proximity fault: after a valid    *)
(* coding no measurement error is latched, and after that of a plugged-in  *)
(* cable no proximity fault is open.                                       *)
ProximityRecovers ==
    Idle => /\ coding \in Codings => ~pp_error_raised
            /\ coding \in Ampacities => ~pp_fault_reported

(* The state the module works with is the one that was evaluated last, in  *)
(* whatever order enabling, disabling, PWM commands and measurements come, *)
(* if no CP measurement is faulty and the driver was not disabled in the   *)
(* middle of an evaluation since the memories were last reset together.    *)
(* But disable leaves Disconnected behind as the previous state, so that a *)
(* voltage between two bands goes unnoticed if it is the first one after.  *)
CpStateTracked ==
    "defects" \notin env /\ ~overlapped /\ Idle /\ driver_enabled
        /\ evaluated # "none"
        => \/ cp_current_state = evaluated
           \/ cp_current_state = "PowerOn" /\ evaluated = OutOfRange

(* Driver and module each remember the ampacity, and four steps of two     *)
(* threads reset one or the other: what the driver takes for known, and    *)
(* does not pass on again, is what the module has; and the value() of      *)
(* neither is ever missing.  Unless an evaluation was under way when the   *)
(* driver was disabled.                                                    *)
AmpacityKnownToBoth ==
    ~overlapped =>
        /\ ~thrown
        /\ Idle /\ driver_enabled /\ previous_ampacity # "unset"
              => pp_ampacity = previous_ampacity

(* evse_board_supportImpl.cpp:62: "publish a ProximityFault when this we   *)
(* detected a plug removal during charging": in the state last evaluated.  *)
Reported == step = "pp_check" /\ step' = "pp_remember" /\ reading = "None"
                /\ verdict = "None" /\ evaluated \in {"C", "D"}
            => pp_fault_reported'

PlugRemovalReported == [][Reported]_vars

(* ... which holds as long as no CP measurement is faulty and the driver   *)
(* was not disabled in the middle of an evaluation.                        *)
PlugRemovalReportedUndisturbed ==
    [][ "defects" \notin env /\ ~overlapped => Reported ]_vars

=============================================================================
