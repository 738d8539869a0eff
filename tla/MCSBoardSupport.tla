-------------------------- MODULE MCSBoardSupport --------------------------
(***************************************************************************)
(* What the MCS tester's EV module makes of the two voltages of its MCU:   *)
(* the evaluation in modules/MCSTesterEV/MCU.cpp and the callbacks and     *)
(* command handlers of its ev_board_supportImpl.cpp.                       *)
(*                                                                         *)
(* The query thread evaluates a pair of voltages and runs the callbacks    *)
(* while it holds cmd_mtx, the framework thread calls set_cp_state, which  *)
(* takes cmd_mtx, and disable, which does not.  The voltages are the bands *)
(* the driver tells apart, a duty cycle is a percentage.                   *)
(***************************************************************************)
EXTENDS Naturals, Sequences

CONSTANTS
    EvCpStates,   \* the CP states the framework asks for
    Envs          \* environments: sets of Mishaps, what may go wrong in each

(* glitch: ID and CE contradict each other;  preemption: the framework     *)
(* thread is interrupted inside disable;  partial: a command is not        *)
(* written whole.                                                          *)
Mishaps == {"glitch", "preemption", "partial"}

MCSParameters ==
    /\ EvCpStates \subseteq {"A", "B", "C", "D", "E"}
    /\ Envs \subseteq SUBSET Mishaps

(* The bands of the ID voltage, named by the ampacity each stands for, and *)
(* those of the CE voltage; gap is everything between the others.          *)
Ampacities == {"None", "A_13"}
CeBands    == {"B", "D", "C", "F", "zero", "gap"}
Voltages   == [id : Ampacities, ce : CeBands]

(* Without a plug nothing drives CE.                                       *)
Consistent == {v \in Voltages : v.id = "None" => v.ce = "zero"}

Events == {"A", "B", "C", "F", "Disconnected"}

VARIABLES
    (* fields of the driver *)
    driver_enabled, previous_cp_state, previous_ampacity, duty_cycle,
    (* fields of the module *)
    cp_current_state, pp_ampacity, bsp_measurement, requested_cp_state,
    is_enabled,
    (* the CE state the MCU presents *)
    presented,
    (* the query thread: what is left of a round, the voltages it is about *)
    (* and the event it reports                                            *)
    round, voltages, event,
    (* what is left of the command of the framework thread *)
    todo,
    (* history: the voltages evaluated last since the driver was enabled,  *)
    (* the commands failed since the last good command and since the last  *)
    (* good disable, and whether the last state set was not sent           *)
    evaluated, failed, enable_failed, unsent,
    (* an exception has left the query thread *)
    thrown,
    (* the environment of this behaviour, one of Envs *)
    env

driverVars == <<driver_enabled, previous_cp_state, previous_ampacity, duty_cycle>>
moduleVars == <<cp_current_state, pp_ampacity, bsp_measurement,
                requested_cp_state, is_enabled>>
roundVars  == <<round, voltages, event>>
failures   == <<failed, enable_failed, unsent>>
vars == <<driverVars, moduleVars, presented, roundVars, todo, evaluated,
          failures, thrown, env>>

RoundSteps   == {"pp_check", "pp_compare", "pp_change", "pp_look", "pp_store",
                 "pp_remember", "cp", "cp_change", "duty_change"}
CommandSteps == {"set_requested", "set_A", "enable_driver", "disable_driver",
                 "forget_cp_state", "forget_ampacity", "reset_cp_state",
                 "reset_ampacity", "enable_module", "disable_module"}

TypeOK ==
    /\ {driver_enabled, is_enabled, failed, enable_failed, unsent,
        thrown} \subseteq BOOLEAN
    /\ {previous_cp_state, cp_current_state} \subseteq Events \cup {"PowerOn"}
    /\ {previous_ampacity, pp_ampacity} \subseteq Ampacities \cup {"unset"}
    /\ duty_cycle \in {0, 5, 100}
    /\ bsp_measurement \in [proximity_pilot : Ampacities \cup {"unset"},
                            cp_pwm_duty_cycle : {0, 5, 100}]
    /\ {requested_cp_state, presented} \subseteq EvCpStates \cup {"A"}
    /\ round \in Seq(RoundSteps) /\ todo \in Seq(CommandSteps)
    /\ voltages \in Voltages
    /\ event \in Events
    /\ evaluated \subseteq {voltages}

Init ==
    /\ driver_enabled = FALSE /\ is_enabled = FALSE
    /\ previous_cp_state = "PowerOn" /\ cp_current_state = "PowerOn"
    /\ previous_ampacity = "unset" /\ pp_ampacity = "unset"
    /\ duty_cycle = 100
    /\ bsp_measurement = [proximity_pilot |-> "unset", cp_pwm_duty_cycle |-> 100]
    /\ requested_cp_state = "A" /\ presented = "A"
    /\ round = <<>> /\ todo = <<>>
    /\ voltages = [id |-> "None", ce |-> "zero"]
    /\ event = "Disconnected"
    /\ evaluated = {}
    /\ failed = FALSE /\ enable_failed = FALSE /\ unsent = FALSE
    /\ thrown = FALSE
    /\ env \in Envs

-----------------------------------------------------------------------------
(* The query thread.                                                       *)

Idle == round = <<>>

Disabling == todo # <<>> /\ Head(todo) \in
                {"disable_driver", "forget_cp_state", "forget_ampacity",
                 "reset_cp_state", "reset_ampacity", "disable_module"}

(* get_voltages: the voltages are there and the driver is enabled.  The    *)
(* steps of disable take no time compared with the exchange that precedes  *)
(* an evaluation: they meet one only if the framework thread is preempted. *)
GetVoltages ==
    /\ Idle /\ driver_enabled
    /\ "preemption" \in env \/ ~Disabling
    /\ voltages' \in IF "glitch" \in env THEN Voltages ELSE Consistent
    /\ evaluated' = {voltages'}
    /\ round' = <<"pp_check", "cp">>
    /\ UNCHANGED <<driverVars, moduleVars, presented, event, todo, failures,
                   thrown>>

(* The framework thread is about to do s; it is done.                      *)
Does(s) == todo # <<>> /\ Head(todo) = s
Done    == todo' = Tail(todo)

At(s)      == round # <<>> /\ Head(round) = s
Continue(q) == round' = q \o Tail(round)

(* id_voltage_to_pp_state compares with the ampacity known from before,    *)
(* if there is one.                                                        *)
PpCheck ==
    /\ At("pp_check")
    /\ Continue(IF previous_ampacity = "unset" THEN <<"pp_change">>
                                               ELSE <<"pp_compare">>)
    /\ UNCHANGED <<driverVars, moduleVars, presented, voltages, event, todo,
                   evaluated, failures, thrown>>

(* value() of an optional that has been reset in between throws.           *)
PpCompare ==
    /\ At("pp_compare")
    /\ thrown' = (previous_ampacity = "unset")
    /\ Continue(IF previous_ampacity = voltages.id THEN <<>> ELSE <<"pp_change">>)
    /\ UNCHANGED <<driverVars, moduleVars, presented, voltages, event, todo,
                   evaluated, failures>>

(* on_pp_change looks at the ampacity the module knows, if it knows one.   *)
PpChange ==
    /\ At("pp_change")
    /\ Continue(IF pp_ampacity = "unset" THEN <<"pp_store">> ELSE <<"pp_look">>)
    /\ UNCHANGED <<driverVars, moduleVars, presented, voltages, event, todo,
                   evaluated, failures, thrown>>

(* The removal of the plug resets the duty cycle that is published.        *)
PpLook ==
    /\ At("pp_look")
    /\ thrown' = (pp_ampacity = "unset")
    /\ bsp_measurement' =
          IF voltages.id = "None" /\ pp_ampacity \notin {"None", "unset"}
          THEN [bsp_measurement EXCEPT !.cp_pwm_duty_cycle = 100]
          ELSE bsp_measurement
    /\ Continue(<<"pp_store">>)
    /\ UNCHANGED <<driverVars, cp_current_state, pp_ampacity, is_enabled,
                   requested_cp_state, presented, voltages, event, todo,
                   evaluated, failures>>

PpStore ==
    /\ At("pp_store")
    /\ pp_ampacity' = voltages.id
    /\ bsp_measurement' = [bsp_measurement EXCEPT !.proximity_pilot = voltages.id]
    /\ Continue(<<"pp_remember">>)
    /\ UNCHANGED <<driverVars, cp_current_state, is_enabled, requested_cp_state,
                   presented, voltages, event, todo, evaluated, failures, thrown>>

PpRemember ==
    /\ At("pp_remember")
    /\ previous_ampacity' = voltages.id
    /\ Continue(<<>>)
    /\ UNCHANGED <<driver_enabled, previous_cp_state, duty_cycle, moduleVars,
                   presented, voltages, event, todo, evaluated, failures, thrown>>

(* ce_voltage_to_bsp_event.  0 V mean that there is no plug if ID says so. *)
BspEvent == IF voltages.ce = "gap" THEN "A"
            ELSE IF voltages.ce # "zero" THEN voltages.ce
            ELSE IF previous_ampacity # "None" THEN "A" ELSE "Disconnected"

(* ... and the duty cycle the event simulates.                             *)
SimulatedDuty(e) == IF e \in {"B", "C"} THEN 5
                    ELSE IF e \in {"D", "Disconnected"} THEN 100
                    ELSE IF e = "F" THEN 0
                    ELSE duty_cycle

(* Mutated form of CpEvaluate: D is not taken for B.                       *)
CpEvaluateKeepsD ==
    /\ At("cp")
    /\ event' = BspEvent
    /\ duty_cycle' = SimulatedDuty(BspEvent)
    /\ previous_cp_state' = event'
    /\ Continue(  (IF previous_cp_state = event' THEN <<>> ELSE <<"cp_change">>)
               \o (IF duty_cycle' = duty_cycle THEN <<>> ELSE <<"duty_change">>))
    /\ UNCHANGED <<driver_enabled, previous_ampacity, moduleVars, presented,
                   voltages, todo, evaluated, failures, thrown>>

(* ce_voltage_to_cp_state; D stands for B without PWM.                     *)
CpEvaluate ==
    /\ At("cp")
    /\ event' = IF BspEvent = "D" THEN "B" ELSE BspEvent
    /\ duty_cycle' = SimulatedDuty(BspEvent)
    /\ previous_cp_state' = event'
    /\ Continue(  (IF previous_cp_state = event' THEN <<>> ELSE <<"cp_change">>)
               \o (IF duty_cycle' = duty_cycle THEN <<>> ELSE <<"duty_change">>))
    /\ UNCHANGED <<driver_enabled, previous_ampacity, moduleVars, presented,
                   voltages, todo, evaluated, failures, thrown>>

(* on_cp_change publishes; A without a plug is Disconnected.  The value()  *)
(* of the ampacity throws if handle_enable resets it in the meantime.      *)
CpChange ==
    /\ At("cp_change")
    /\ \/ /\ cp_current_state' = IF event = "A" /\ pp_ampacity = "None"
                                 THEN "Disconnected" ELSE event
          /\ UNCHANGED thrown
       \/ /\ pp_ampacity # "unset" /\ Does("reset_ampacity")
          /\ thrown' = TRUE /\ UNCHANGED cp_current_state
    /\ Continue(<<>>)
    /\ UNCHANGED <<driverVars, pp_ampacity, bsp_measurement, is_enabled,
                   requested_cp_state, presented, voltages, event, todo,
                   evaluated, failures>>

DutyChange ==
    /\ At("duty_change")
    /\ bsp_measurement' = [bsp_measurement EXCEPT !.cp_pwm_duty_cycle = duty_cycle]
    /\ Continue(<<>>)
    /\ UNCHANGED <<driverVars, cp_current_state, pp_ampacity, is_enabled,
                   requested_cp_state, presented, voltages, event, todo,
                   evaluated, failures, thrown>>

QueryThread == \/ GetVoltages
               \/ PpCheck \/ PpCompare \/ PpChange \/ PpLook \/ PpStore
               \/ PpRemember \/ CpEvaluate \/ CpChange \/ DutyChange

-----------------------------------------------------------------------------
(* The framework thread: the command handlers.                             *)

HandleEnable ==
    /\ todo = <<>>
    /\ \/ todo' = <<"set_requested", "enable_driver", "enable_module">>
       \/ todo' = <<"set_A", "disable_driver", "reset_cp_state",
                    "reset_ampacity", "disable_module">>
    /\ failed' = FALSE
    /\ UNCHANGED <<driverVars, moduleVars, presented, roundVars, evaluated,
                   enable_failed, unsent, thrown>>

HandleSetCpState ==
    /\ todo = <<>>
    /\ requested_cp_state' \in EvCpStates
    /\ todo' = IF is_enabled THEN <<"set_requested">> ELSE <<>>
    /\ failed' = FALSE
    /\ UNCHANGED <<driverVars, cp_current_state, pp_ampacity, bsp_measurement,
                   is_enabled, presented, roundVars, evaluated, enable_failed,
                   unsent, thrown>>

(* MCU::set_cp_state, between two rounds: it needs cmd_mtx.  If it throws  *)
(* the handler ends, and the MCU may or may not have switched.  It returns *)
(* as well, and nothing is switched, if the command was not written whole  *)
(* (MCU.cpp:59-74).                                                        *)
SetCpState ==
    /\ Does("set_requested") \/ Does("set_A")
    /\ Idle
    /\ LET s == IF Does("set_A") THEN "A" ELSE requested_cp_state
       IN  \/ presented' = s /\ Done /\ unsent' = FALSE
             /\ UNCHANGED <<failed, enable_failed>>
           \/ /\ "partial" \in env
              /\ Done /\ unsent' = TRUE
              /\ UNCHANGED <<presented, failed, enable_failed>>
           \/ /\ presented' \in {presented, s}
              /\ todo' = <<>>
              /\ failed' = TRUE /\ enable_failed' = TRUE
              /\ UNCHANGED unsent
    /\ UNCHANGED <<driverVars, moduleVars, roundVars, evaluated, thrown>>

EnableDriver ==
    /\ Does("enable_driver") /\ Done
    /\ driver_enabled' = TRUE
    /\ evaluated' = IF driver_enabled THEN evaluated ELSE {}
    /\ UNCHANGED <<previous_cp_state, previous_ampacity, duty_cycle, moduleVars,
                   presented, roundVars, failures, thrown>>

(* MCU::disable forgets what was measured only if it was enabled.          *)
DisableDriver ==
    /\ Does("disable_driver")
    /\ "preemption" \in env \/ Idle
    /\ driver_enabled' = FALSE
    /\ todo' = IF driver_enabled
               THEN <<"forget_cp_state", "forget_ampacity">> \o Tail(todo)
               ELSE Tail(todo)
    /\ UNCHANGED <<previous_cp_state, previous_ampacity, duty_cycle, moduleVars,
                   presented, roundVars, evaluated, failures, thrown>>

(* Mutated form of ForgetCpState: nothing is forgotten.                    *)
ForgetNoCpState ==
    /\ Does("forget_cp_state") /\ Done
    /\ UNCHANGED <<driverVars, moduleVars, presented, roundVars, evaluated,
                   failures, thrown>>

ForgetCpState ==
    /\ Does("forget_cp_state") /\ Done
    /\ previous_cp_state' = "Disconnected"
    /\ UNCHANGED <<driver_enabled, previous_ampacity, duty_cycle, moduleVars,
                   presented, roundVars, evaluated, failures, thrown>>

ForgetAmpacity ==
    /\ Does("forget_ampacity") /\ Done
    /\ previous_ampacity' = "unset"
    /\ UNCHANGED <<driver_enabled, previous_cp_state, duty_cycle, moduleVars,
                   presented, roundVars, evaluated, failures, thrown>>

ResetCpState ==
    /\ Does("reset_cp_state") /\ Done
    /\ cp_current_state' = "PowerOn"
    /\ UNCHANGED <<driverVars, pp_ampacity, bsp_measurement, is_enabled,
                   requested_cp_state, presented, roundVars, evaluated,
                   failures, thrown>>

ResetAmpacity ==
    /\ Does("reset_ampacity") /\ Done
    /\ pp_ampacity' = "unset"
    /\ UNCHANGED <<driverVars, cp_current_state, bsp_measurement, is_enabled,
                   requested_cp_state, presented, roundVars, evaluated,
                   failures, thrown>>

SetModule ==
    /\ Does("enable_module") \/ Does("disable_module")
    /\ Done
    /\ is_enabled' = Does("enable_module")
    /\ enable_failed' = (enable_failed /\ Does("enable_module"))
    /\ UNCHANGED <<driverVars, cp_current_state, pp_ampacity, bsp_measurement,
                   requested_cp_state, presented, roundVars, evaluated, failed,
                   unsent, thrown>>

Handler == \/ HandleEnable \/ HandleSetCpState \/ SetCpState
           \/ EnableDriver \/ DisableDriver \/ ForgetCpState \/ ForgetAmpacity
           \/ ResetCpState \/ ResetAmpacity \/ SetModule

(* An exception that leaves the query thread ends everything.              *)
Stopped == thrown /\ UNCHANGED vars

Next == \/ ~thrown /\ (QueryThread \/ Handler) /\ UNCHANGED env
        \/ Stopped

Spec == Init /\ [][Next]_vars

-----------------------------------------------------------------------------
(* Properties.                                                             *)

(* What a pair of voltages says about the CP, whatever was measured before.*)
Meaning(v) == IF v.ce \in {"zero", "gap"}
              THEN IF v.id = "None" THEN "Disconnected" ELSE "A"
              ELSE IF v.ce = "D" THEN "B" ELSE v.ce

Settled == Idle /\ driver_enabled /\ ~Disabling

(* The state the module has published is what the last voltages mean,      *)
(* although events pass through two memories that are reset separately;    *)
(* the one exception: disable leaves Disconnected behind as the previous   *)
(* state, so that a plug that is not there when the module is enabled      *)
(* again is not reported.                                                  *)
CpStateTracked ==
    env \subseteq {"partial"} /\ Settled => \A v \in evaluated :
        \/ cp_current_state = Meaning(v)
        \/ cp_current_state = "PowerOn" /\ Meaning(v) = "Disconnected"

(* The published measurement is complete: it has the ampacity measured     *)
(* last and, unless ID and CE contradict each other, the simulated duty    *)
(* cycle.  Each is stored twice and published by its own callback, and the *)
(* removal of the plug changes the published duty cycle only.              *)
MeasurementCurrent ==
    /\ Settled => \A v \in evaluated : bsp_measurement.proximity_pilot = v.id
    /\ env \subseteq {"partial"} /\ Settled => bsp_measurement.cp_pwm_duty_cycle = duty_cycle

(* Between two commands an enabled module presents the CP state asked for  *)
(* last, if that command did not fail; a disabled one presents A, unless a *)
(* command has failed since it was disabled.  Unless set_cp_state returned *)
(* without having sent it.                                                 *)
PresentsRequested ==
    todo = <<>> /\ ~unsent =>
        IF is_enabled THEN failed \/ presented = requested_cp_state
                      ELSE enable_failed \/ presented = "A"

=============================================================================
