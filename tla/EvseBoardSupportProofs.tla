----------------------- MODULE EvseBoardSupportProofs -----------------------
(***************************************************************************)
(* Proofs about EvseBoardSupport for every set of cable codings, every set *)
(* of CP readings, and with or without preemption inside disable.  What    *)
(* preemption spoils is excepted where it bites: as long as the driver was *)
(* disabled in the middle of an evaluation (overlapped).                   *)
(***************************************************************************)
EXTENDS EvseBoardSupport, EnableCommands

(* Why a measured cable ends a proximity fault: a measurement error that   *)
(* is latched has made the driver forget the ampacity, so that the next    *)
(* coding counts as a change; and the driver remembers no coding of a      *)
(* plugged-in cable while a proximity fault is open, except between the    *)
(* two halves of on_pp_change.                                             *)
Publishing == step \in {"pp_publish", "pp_check", "pp_remember"}
Changing   == step \in {"pp_compare", "pp_change", "pp_removal", "pp_known",
                        "pp_log", "pp_store"} \/ Publishing
PpRunning  == step = "pp" \/ Changing

LatchedIsForgotten ==
    pp_error_raised => previous_ampacity = "unset" \/ Publishing

RememberedIsSound ==
    previous_ampacity \in Ampacities => ~pp_fault_reported \/ Publishing

PublishedIsSound ==
    /\ step \in {"pp_publish", "pp_check"}
          => pp_ampacity \in {reading, "unset"} /\ ~pp_fault_reported
    /\ step = "pp_remember" /\ reading \in Ampacities => ~pp_fault_reported

(* What is evaluated is of the kind its evaluation expects.                *)
ReadingFits ==
    /\ step \in {"cp_fault", "cp_change", "cp_track", "cp_remember"}
          => reading \in CpEvents
    /\ PpRunning => reading = coding
    /\ step = "pp" => reading \in Codings \cup {"invalid"}
    /\ Changing => reading \in Codings

(* ProximityRecovers, whenever no cable is being evaluated.                *)
MeasuredIsSound ==
    ~PpRunning =>
        /\ coding \in Codings => ~pp_error_raised
        /\ coding \in Ampacities => ~pp_fault_reported

ProximityInv == /\ LatchedIsForgotten /\ RememberedIsSound
                /\ PublishedIsSound /\ MeasuredIsSound

(* What a command may have left to do.  Only a set_duty_cycle or a         *)
(* pwm_disable that failed ends one early.                                 *)
Programs ==
    Rests \cup
    {<<"set_duty">>, <<"pwm_disable">>,
     <<"set_duty", "enable_driver", "enable_module">>,
     <<"set_duty", "disable_driver", "reset_cp_state", "reset_ampacity",
       "disable_module">>}

(* While a handler is in the later steps of a disable the driver is        *)
(* disabled, so that no evaluation begins.                                 *)
DisabledFirst == First(todo) \in Late => ~driver_enabled

(* If none was under way either, no value() that has been seen to be there *)
(* is gone, and what the driver remembers is what the module has.          *)
AmpacityInv ==
    ~overlapped =>
        /\ ~thrown
        /\ step \in {"pp_removal", "pp_log"} => pp_ampacity # "unset"
        /\ step = "pp_compare" => previous_ampacity # "unset"
        /\ IF driver_enabled
           THEN IF Publishing THEN pp_ampacity = reading
                ELSE previous_ampacity # "unset" => pp_ampacity = previous_ampacity
           ELSE Idle /\ \/ First(todo) \in {"forget_cp_state", "forget_ampacity"}
                        \/ previous_ampacity = "unset"

(* While the driver is enabled and no measurement is faulty its previous   *)
(* state is the one the module has, except between the two halves of       *)
(* on_cp_change; when it has been disabled both have forgotten it.         *)
Calm       == "defects" \notin env
Tracked(s) == \/ cp_current_state = s
              \/ cp_current_state = "PowerOn" /\ s = OutOfRange
Tracking   == step \in {"cp_change", "cp_track", "cp_remember"}

TrackedWhileEnabled ==
    /\ step # "cp_remember" => Tracked(previous_cp_state)
    /\ Tracking => evaluated = reading
    /\ step = "cp_remember" => cp_current_state = reading
    /\ ~Tracking /\ evaluated # "none" => Tracked(evaluated)

ForgottenWhenDisabled ==
    /\ Idle
    /\ First(todo) # "forget_cp_state" => previous_cp_state \in {OutOfRange, "PowerOn"}
    /\ First(todo) \notin Forgetting => cp_current_state = "PowerOn"

TrackedTogether == IF driver_enabled THEN TrackedWhileEnabled
                                     ELSE ForgottenWhenDisabled

TrackedInv ==
    Calm => /\ verdict = "None"
            /\ ~overlapped => TrackedTogether

IInv == /\ TypeOK /\ ReadingFits
        /\ FaultsAgree /\ CpErrorFollowsMeasurement /\ ProximityInv
        /\ todo \in Programs /\ DisabledFirst /\ AmpacityInv /\ TrackedInv

USE DEF driverVars, moduleVars, cpFaults, ppFaults, history

-----------------------------------------------------------------------------
(* Type correctness.                                                       *)

(* The steps of every command are steps.                                   *)
LEMMA CommandsType ==
    ASSUME NEW c \in DOMAIN Commands
    PROVE  Commands[c] \in Seq(Steps)
<1>1. {"set_duty", "pwm_disable", "enable_driver", "disable_driver",
       "enable_module", "reset_cp_state", "reset_ampacity",
       "disable_module"} \subseteq Steps
  BY DEF Steps
<1>3. c \in {"enable", "disable", "duty", "state_E"}
  BY DEF Commands
<1>4. CASE c = "enable"
  BY <1>1, <1>4, TupleTypes DEF Commands
<1>5. CASE c = "disable"
  BY <1>1, <1>5, TupleTypes DEF Commands
<1>6. CASE c = "duty"
  BY <1>1, <1>6, TupleTypes DEF Commands
<1>7. CASE c = "state_E"
  BY <1>1, <1>7, TupleTypes DEF Commands
<1> QED BY <1>3, <1>4, <1>5, <1>6, <1>7

(* What is left of a command when its first step is done is typed.         *)
LEMMA RestType ==
    ASSUME TypeOK, NEW s, Does(s)
    PROVE  Tail(todo) \in Seq(Steps)
  BY HeadTailProperties DEF TypeOK, Does

(* The evaluation of a pair of CP voltages has a verdict.                  *)
LEMMA CpStateType ==
    ASSUME NEW pos \in CpEvents, NEW neg \in CpEvents, NEW pwm \in BOOLEAN
    PROVE  /\ CpState(pos, neg, FALSE, pwm) \in CpEvents
           /\ CpError(pos, neg, FALSE, pwm) \in CpErrors \cup {"None"}
  BY DEF CpState, CpError, CpEvents, CpStates, CpErrors, OutOfRange

(* Every step of the reader keeps the types.                               *)
LEMMA ReaderType ==
    ASSUME EvseAssumption, TypeOK, ReadingFits, Reader
    PROVE  TypeOK' /\ ReadingFits'
<1>1. CASE CpRead
  <2>1. PICK r \in CpReadings :
            /\ reading' = CpState(r[1], r[2], FALSE, pwm_status)
            /\ verdict' = CpError(r[1], r[2], FALSE, pwm_status)
    BY <1>1 DEF CpRead
  <2>2. r[1] \in CpEvents /\ r[2] \in CpEvents /\ pwm_status \in BOOLEAN
    BY DEF EvseAssumption, TypeOK
  <2>3. reading' \in CpEvents /\ verdict' \in CpErrors \cup {"None"}
    BY <2>1, <2>2, CpStateType
  <2> QED BY <1>1, <2>3 DEF TypeOK, ReadingFits, PpRunning, Changing, Publishing, CpRead
<1>2. CASE CpFault
  <2>1. previous_cp_state' \in CpEvents \cup {"PowerOn"}
    BY <1>2 DEF ReadingFits, CpFault
  <2> QED BY <1>2, <2>1 DEF TypeOK, ReadingFits, PpRunning, Changing, Publishing, CpFault, ReportCpError, Errors
<1>3. CASE CpNoFault
  BY <1>3 DEF TypeOK, ReadingFits, PpRunning, Changing, Publishing, CpNoFault, ClearCpError, Errors
<1>4. CASE CpChange
  BY <1>4 DEF TypeOK, ReadingFits, PpRunning, Changing, Publishing, CpChange
<1>5. CASE CpTrack
  BY <1>5 DEF TypeOK, ReadingFits, PpRunning, Changing, Publishing, CpTrack
<1>6. CASE CpRemember
  BY <1>6 DEF TypeOK, ReadingFits, PpRunning, Changing, Publishing, CpRemember
<1>7. CASE PpRead
  BY <1>7 DEF TypeOK, ReadingFits, PpRunning, Changing, Publishing, PpRead
<1>8. CASE PpInvalid
  BY <1>8 DEF TypeOK, ReadingFits, PpRunning, Changing, Publishing, PpInvalid, ReportProximityFault, Errors
<1>9. CASE PpValid \/ PpCompare
  BY <1>9 DEF TypeOK, ReadingFits, PpRunning, Changing, Publishing, PpValid, PpCompare
<1>10. CASE PpChange \/ PpLog
  BY <1>10 DEF TypeOK, ReadingFits, PpRunning, Changing, Publishing, PpChange, PpLog
<1>13. CASE PpStore
  BY <1>13 DEF TypeOK, ReadingFits, PpRunning, Changing, Publishing, PpStore
<1>11. CASE PpPublish \/ PpCheck
  BY <1>11 DEF TypeOK, ReadingFits, PpRunning, Changing, Publishing, PpPublish, PpCheck,
               ReportProximityFault, Errors
<1>12. CASE PpRemember
  BY <1>12 DEF TypeOK, ReadingFits, PpRunning, Changing, Publishing, PpRemember
<1> QED BY <1>1, <1>2, <1>3, <1>4, <1>5, <1>6, <1>7, <1>8, <1>9, <1>10,
           <1>11, <1>12, <1>13 DEF Reader

(* Every step of a command handler keeps the types.                        *)
LEMMA HandlerType ==
    ASSUME EvseAssumption, TypeOK, ReadingFits, Handler
    PROVE  TypeOK' /\ ReadingFits'
<1>1. CASE Handle
  <2>1. todo' \in Seq(Steps)
    BY <1>1, CommandsType DEF Handle
  <2> QED BY <1>1, <2>1 DEF TypeOK, ReadingFits, PpRunning, Changing, Publishing, Handle
<1>2. CASE SwitchPwm
  <2>1. todo' \in Seq(Steps)
    <3>1. todo' = <<>> \/ todo' = Tail(todo)
      BY <1>2 DEF SwitchPwm, Done
    <3>2. Tail(todo) \in Seq(Steps)
      BY <1>2, RestType DEF SwitchPwm
    <3>3. <<>> \in Seq(Steps)
      OBVIOUS
    <3> QED BY <3>1, <3>2, <3>3
  <2>2. pwm_status' \in BOOLEAN
    BY <1>2 DEF SwitchPwm, TypeOK, Does
  <2> QED BY <1>2, <2>1, <2>2 DEF TypeOK, ReadingFits, PpRunning, Changing, Publishing, SwitchPwm
<1>3. CASE EnableDriver
  <2>1. todo' \in Seq(Steps)
    BY <1>3, RestType DEF EnableDriver, Done
  <2> QED BY <1>3, <2>1 DEF TypeOK, ReadingFits, PpRunning, Changing, Publishing, EnableDriver
<1>4. CASE DisableDriver
  <2>1. Tail(todo) \in Seq(Steps)
    BY <1>4, RestType DEF DisableDriver
  <2>2. <<"forget_cp_state", "forget_ampacity">> \in Seq(Steps)
    BY DEF Steps
  <2>3. <<"forget_cp_state", "forget_ampacity">> \o Tail(todo) \in Seq(Steps)
    BY <2>1, <2>2, ConcatProperties
  <2>4. todo' \in Seq(Steps)
    BY <1>4, <2>1, <2>3 DEF DisableDriver
  <2>5. /\ driver_enabled' = FALSE
        /\ UNCHANGED <<previous_cp_state, previous_ampacity, moduleVars, cpFaults,
                       ppFaults, errors, pwm_status, step, reading, evaluated,
                       verdict, coding, thrown>>
    BY <1>4 DEF DisableDriver
  <2>8. overlapped' \in BOOLEAN
    BY <1>4 DEF DisableDriver
  <2>6. TypeOK'
    <3>1. {driver_enabled, pwm_status, cp_error_raised, pp_error_raised,
           pp_fault_reported, diode_fault_is_active, pilot_fault_is_active,
           is_enabled, overlapped, thrown}' \subseteq BOOLEAN
      BY <2>5, <2>8 DEF TypeOK
    <3> QED BY <2>4, <2>5, <3>1 DEF TypeOK
  <2>7. ReadingFits'
    BY <2>5 DEF ReadingFits, PpRunning, Changing, Publishing
  <2> QED BY <2>6, <2>7
<1>5. CASE ForgetCpState \/ ForgetAmpacity
  <2>1. todo' \in Seq(Steps)
    BY <1>5, RestType DEF ForgetCpState, ForgetAmpacity, Done
  <2> QED BY <1>5, <2>1 DEF TypeOK, ReadingFits, PpRunning, Changing, Publishing, ForgetCpState,
                            ForgetAmpacity, CpEvents
<1>6. CASE ResetCpState \/ ResetAmpacity
  <2>1. todo' \in Seq(Steps)
    BY <1>6, RestType DEF ResetCpState, ResetAmpacity, Done
  <2> QED BY <1>6, <2>1 DEF TypeOK, ReadingFits, PpRunning, Changing, Publishing, ResetCpState,
                            ResetAmpacity
<1>7. CASE SetModule
  <2>1. todo' \in Seq(Steps)
    BY <1>7, RestType DEF SetModule, Done
  <2>2. is_enabled' \in BOOLEAN
    BY <1>7 DEF SetModule, Does
  <2> QED BY <1>7, <2>1, <2>2 DEF TypeOK, ReadingFits, PpRunning, Changing, Publishing, SetModule
<1> QED BY <1>1, <1>2, <1>3, <1>4, <1>5, <1>6, <1>7 DEF Handler

-----------------------------------------------------------------------------
(* The faults.                                                             *)

(* No command touches the faults, nor what the reader has measured.        *)
LEMMA HandlerLeavesFaults ==
    ASSUME Handler
    PROVE  /\ UNCHANGED <<cpFaults, ppFaults, errors, step, reading, verdict>>
           /\ coding' = coding
           /\ previous_ampacity' \in {previous_ampacity, "unset"}
           /\ pp_ampacity' \in {pp_ampacity, "unset"}
  BY DEF Handler, Handle, SwitchPwm, EnableDriver, DisableDriver,
         ForgetCpState, ForgetAmpacity, ResetCpState, ResetAmpacity, SetModule

(* The reader keeps the flags of driver and module and the framework's     *)
(* list of errors in agreement, and a CP error follows the measurement.    *)
LEMMA ReaderFaults ==
    ASSUME TypeOK, FaultsAgree, CpErrorFollowsMeasurement, Reader
    PROVE  FaultsAgree' /\ CpErrorFollowsMeasurement'
<1>1. CASE CpRead
  BY <1>1 DEF FaultsAgree, CpErrorFollowsMeasurement, CpRead, Idle
<1>2. CASE CpFault
  <2>1. CASE cp_error_raised
    BY <1>2, <2>1 DEF TypeOK, FaultsAgree, CpErrorFollowsMeasurement, CpFault
  <2>2. CASE ~cp_error_raised
    <3>1. ~diode_fault_is_active /\ ~pilot_fault_is_active
      BY <2>2 DEF FaultsAgree
    <3>2. ReportCpError /\ cp_error_raised' = TRUE
      BY <1>2, <2>2 DEF CpFault
    <3>3. verdict' = verdict /\ verdict # "None"
          /\ pp_fault_reported' = pp_fault_reported
      BY <1>2 DEF CpFault
    <3> QED BY <3>1, <3>2, <3>3 DEF TypeOK, FaultsAgree, ReportCpError,
                                    CpErrorFollowsMeasurement
  <2> QED BY <2>1, <2>2
<1>3. CASE CpNoFault
  <2>1. CASE cp_error_raised
    BY <1>3, <2>1 DEF TypeOK, FaultsAgree, CpErrorFollowsMeasurement,
                      CpNoFault, ClearCpError
  <2>2. CASE ~cp_error_raised
    BY <1>3, <2>2 DEF TypeOK, FaultsAgree, CpErrorFollowsMeasurement, CpNoFault
  <2> QED BY <2>1, <2>2
<1>4. CASE CpChange
  BY <1>4 DEF FaultsAgree, CpErrorFollowsMeasurement, CpChange
<1>5. CASE CpTrack
  BY <1>5 DEF TypeOK, FaultsAgree, CpErrorFollowsMeasurement, CpTrack
<1>6. CASE CpRemember
  BY <1>6 DEF FaultsAgree, CpErrorFollowsMeasurement, CpRemember
<1>7. CASE PpRead
  BY <1>7 DEF FaultsAgree, CpErrorFollowsMeasurement, PpRead, Idle
<1>8. CASE PpInvalid
  BY <1>8 DEF TypeOK, FaultsAgree, CpErrorFollowsMeasurement, PpInvalid,
              ReportProximityFault
<1>9. CASE PpValid \/ PpCompare
  BY <1>9 DEF FaultsAgree, CpErrorFollowsMeasurement, PpValid, PpCompare
<1>10. CASE PpChange \/ PpLog
  BY <1>10 DEF FaultsAgree, CpErrorFollowsMeasurement, PpChange, PpLog
<1>13. CASE PpStore
  BY <1>13 DEF TypeOK, FaultsAgree, CpErrorFollowsMeasurement, PpStore
<1>11. CASE PpPublish \/ PpCheck
  BY <1>11 DEF TypeOK, FaultsAgree, CpErrorFollowsMeasurement, PpPublish,
               PpCheck, ReportProximityFault
<1>12. CASE PpRemember
  BY <1>12 DEF FaultsAgree, CpErrorFollowsMeasurement, PpRemember
<1> QED BY <1>1, <1>2, <1>3, <1>4, <1>5, <1>6, <1>7, <1>8, <1>9, <1>10,
           <1>11, <1>12, <1>13 DEF Reader

(* The reader keeps what makes a measured cable end a proximity fault.     *)
LEMMA ReaderProximity ==
    ASSUME EvseAssumption, TypeOK, ReadingFits, ProximityInv, Reader
    PROVE  ProximityInv'
<1> USE DEF ProximityInv, LatchedIsForgotten, RememberedIsSound,
            PublishedIsSound, MeasuredIsSound, PpRunning, Changing,
            Publishing, Idle
<1>1. CASE CpRead
  BY <1>1 DEF CpRead
<1>2. CASE CpFault
  BY <1>2 DEF CpFault
<1>3. CASE CpNoFault
  BY <1>3 DEF CpNoFault
<1>4. CASE CpChange
  BY <1>4 DEF CpChange
<1>5. CASE CpTrack
  BY <1>5 DEF CpTrack
<1>6. CASE CpRemember
  BY <1>6 DEF CpRemember
<1>7. CASE PpRead
  BY <1>7 DEF PpRead
<1>8. CASE PpInvalid
  BY <1>8 DEF EvseAssumption, ReadingFits, Codings, PpInvalid
<1>9. CASE PpValid
  BY <1>9 DEF PpValid
<1>14. CASE PpCompare
  BY <1>14 DEF EvseAssumption, ReadingFits, Codings, PpCompare
<1>10. CASE PpChange \/ PpLog
  BY <1>10 DEF PpChange, PpLog
<1>13. CASE PpStore
  BY <1>13 DEF PpStore
<1>11. CASE PpPublish
  BY <1>11 DEF PpPublish
<1>15. CASE PpCheck
  BY <1>15 DEF EvseAssumption, ReadingFits, PpCheck, ReportProximityFault
<1>12. CASE PpRemember
  BY <1>12 DEF EvseAssumption, ReadingFits, PpRemember
<1> QED BY <1>1, <1>2, <1>3, <1>4, <1>5, <1>6, <1>7, <1>8, <1>9, <1>10,
           <1>11, <1>12, <1>13, <1>14, <1>15 DEF Reader

-----------------------------------------------------------------------------
(* The steps of the commands.                                              *)

(* What a step of a command is followed by.                                *)
LEMMA Follows ==
    ASSUME NEW p \in Programs, p # <<>>
    PROVE  /\ Tail(p) \in Programs
           /\ First(p) \in {"set_duty", "pwm_disable"} =>
                 First(Tail(p)) \in {"none", "enable_driver", "disable_driver"}
           /\ First(p) = "enable_driver" => First(Tail(p)) = "enable_module"
           /\ First(p) = "enable_module" => First(Tail(p)) = "none"
           /\ First(p) = "disable_driver" =>
                 p \in Rests /\ First(Tail(p)) = "reset_cp_state"
           /\ First(p) = "forget_cp_state" => First(Tail(p)) = "forget_ampacity"
           /\ First(p) = "forget_ampacity" => First(Tail(p)) = "reset_cp_state"
           /\ First(p) = "reset_cp_state" => First(Tail(p)) = "reset_ampacity"
           /\ First(p) = "reset_ampacity" => First(Tail(p)) = "disable_module"
           /\ First(p) = "disable_module" => First(Tail(p)) = "none"
<1>1. CASE p \in Rests
  <2>1. Tail(p) \in Rests /\ First(p) \in EnableSteps
    BY <1>1, RestFollows
  <2> QED BY <1>1, <2>1, RestFollows DEF Programs, EnableSteps, Late, Forgetting
<1>2. CASE p = <<"set_duty">>
  <2>1. First(p) = "set_duty" /\ Tail(p) = <<>>
    BY <1>2, TupleSteps DEF First
  <2> QED BY <1>2, <2>1, TupleSteps DEF First, Programs, Rests
<1>3. CASE p = <<"pwm_disable">>
  <2>1. First(p) = "pwm_disable" /\ Tail(p) = <<>>
    BY <1>3, TupleSteps DEF First
  <2> QED BY <1>3, <2>1, TupleSteps DEF First, Programs, Rests
<1>4. CASE p = <<"set_duty", "enable_driver", "enable_module">>
  <2>1. First(p) = "set_duty" /\ Tail(p) = <<"enable_driver",
                                             "enable_module">>
    BY <1>4, TupleSteps DEF First
  <2> QED BY <1>4, <2>1, TupleSteps DEF First, Programs, Rests
<1>5. CASE p = <<"set_duty", "disable_driver", "reset_cp_state",
                 "reset_ampacity", "disable_module">>
  <2>1. First(p) = "set_duty" /\ Tail(p) = <<"disable_driver",
                                             "reset_cp_state",
                                             "reset_ampacity",
                                             "disable_module">>
    BY <1>5, TupleSteps DEF First
  <2> QED BY <1>5, <2>1, TupleSteps DEF First, Programs, Rests
<1> QED BY <1>1, <1>2, <1>3, <1>4, <1>5 DEF Programs

(* A step that is done leaves the rest of its program.                     *)
LEMMA StepDone ==
    ASSUME todo \in Programs, NEW s, s # "none", Does(s), Done
    PROVE  /\ First(todo) = s /\ First(todo)' = First(Tail(todo))
           /\ todo' \in Programs
  BY Follows DEF Does, Done, First

(* KL02::disable of an enabled driver forgets before the module does.      *)
LEMMA DisableForgets ==
    ASSUME todo \in Programs, DisableDriver, driver_enabled
    PROVE  todo' \in Programs /\ First(todo)' = "forget_cp_state"
<1>1. /\ First(todo) = "disable_driver"
      /\ todo' = <<"forget_cp_state", "forget_ampacity">> \o Tail(todo)
  BY DEF DisableDriver, Does, First
<1>2. todo \in Rests
  BY <1>1, Follows DEF First
<1>3. todo' \in Rests /\ todo' # <<>> /\ First(todo') = "forget_cp_state"
  BY <1>1, <1>2, ForgetsFirst
<1> QED BY <1>3 DEF Programs, First

(* What a step of a handler does to the program, as far as it matters.     *)
LEMMA HandlerProgram ==
    ASSUME todo \in Programs, Handler
    PROVE  /\ todo' \in Programs
           /\ First(todo)' \in Late =>
                 First(todo) \in Late \/ DisableDriver
<1>1. CASE Handle
  <2>1. \/ todo' = <<"set_duty", "enable_driver", "enable_module">>
        \/ todo' = <<"set_duty", "disable_driver", "reset_cp_state",
                     "reset_ampacity", "disable_module">>
        \/ todo' = <<"set_duty">> \/ todo' = <<"pwm_disable">>
    BY <1>1 DEF Handle, Commands
  <2>2. First(todo)' \in {"set_duty", "pwm_disable"}
    BY <2>1, TupleSteps DEF First
  <2> QED BY <2>1, <2>2 DEF Programs, Late, Forgetting
<1>2. CASE SwitchPwm
  <2>1. CASE todo' = <<>>
    BY <2>1 DEF First, Programs, Rests, Late, Forgetting
  <2>2. CASE Done
    <3>1. First(todo) \in {"set_duty", "pwm_disable"} /\ todo' \in Programs
          /\ First(todo)' = First(Tail(todo))
      BY <1>2, <2>2, StepDone DEF SwitchPwm
    <3>2. First(todo)' \in {"none", "enable_driver", "disable_driver"}
      BY <1>2, <3>1, Follows DEF SwitchPwm, Does
    <3> QED BY <3>1, <3>2 DEF Late, Forgetting
  <2> QED BY <1>2, <2>1, <2>2 DEF SwitchPwm
<1>3. CASE EnableDriver
  <2>1. First(todo)' = "enable_module" /\ todo' \in Programs
    BY <1>3, StepDone, Follows DEF EnableDriver, Does
  <2> QED BY <2>1 DEF Late, Forgetting
<1>4. CASE DisableDriver
  <2>1. CASE driver_enabled
    BY <1>4, <2>1, DisableForgets
  <2>2. CASE ~driver_enabled
    BY <1>4, <2>2, StepDone DEF DisableDriver, Done
  <2> QED BY <1>4, <2>1, <2>2
<1>5. CASE ForgetCpState \/ ForgetAmpacity \/ ResetCpState \/ ResetAmpacity
  <2>1. Done /\ todo # <<>>
        /\ First(todo) \in {"forget_cp_state", "forget_ampacity",
                            "reset_cp_state", "reset_ampacity"}
    BY <1>5 DEF ForgetCpState, ForgetAmpacity, ResetCpState, ResetAmpacity,
                Does, First
  <2> QED BY <2>1, Follows DEF Done, Late, Forgetting
<1>6. CASE SetModule
  <2>1. First(todo)' = "none" /\ todo' \in Programs
    BY <1>6, StepDone, Follows DEF SetModule, Does
  <2> QED BY <2>1 DEF Late, Forgetting
<1> QED BY <1>1, <1>2, <1>3, <1>4, <1>5, <1>6 DEF Handler

(* The reader leaves the commands alone, and begins only while the driver  *)
(* is enabled.                                                             *)
LEMMA ReaderApart ==
    ASSUME Reader
    PROVE  /\ UNCHANGED <<todo, driver_enabled, pwm_status, overlapped>>
           /\ First(todo)' = First(todo)
           /\ Idle => driver_enabled
<1>1. UNCHANGED <<todo, driver_enabled, pwm_status, overlapped>>
  BY DEF Reader, CpRead, CpFault, CpNoFault, CpChange, CpTrack, CpRemember,
         PpRead, PpInvalid, PpValid, PpCompare, PpChange, PpLog, PpStore,
         PpPublish, PpCheck, PpRemember
<1>2. Idle => driver_enabled
  BY DEF Reader, CpRead, CpFault, CpNoFault, CpChange, CpTrack, CpRemember,
         PpRead, PpInvalid, PpValid, PpCompare, PpChange, PpLog, PpStore,
         PpPublish, PpCheck, PpRemember, Idle
<1> QED BY <1>1, <1>2 DEF First

(* A disable that is done finds the driver disabled.                       *)
LEMMA DisabledFirstNext ==
    ASSUME todo \in Programs, DisabledFirst, Reader \/ Handler
    PROVE  DisabledFirst'
<1>1. CASE Reader
  BY <1>1, ReaderApart DEF DisabledFirst
<1>2. CASE DisableDriver
  BY <1>2 DEF DisableDriver, DisabledFirst
<1>3. CASE EnableDriver
  <2>1. First(todo)' = "enable_module"
    BY <1>3, StepDone, Follows DEF EnableDriver, Does
  <2> QED BY <2>1 DEF DisabledFirst, Late, Forgetting
<1>4. CASE Handler /\ ~DisableDriver /\ ~EnableDriver
  <2>1. driver_enabled' = driver_enabled
    BY <1>4 DEF Handler, Handle, SwitchPwm, ForgetCpState, ForgetAmpacity,
                ResetCpState, ResetAmpacity, SetModule
  <2> QED BY <1>4, <2>1, HandlerProgram DEF DisabledFirst
<1> QED BY <1>1, <1>2, <1>3, <1>4

(* The reader finds every value() it has seen to be there.                 *)
LEMMA ReaderAmpacity ==
    ASSUME EvseAssumption, TypeOK, ReadingFits, AmpacityInv, Reader
    PROVE  AmpacityInv'
<1> SUFFICES ASSUME ~overlapped PROVE AmpacityInv'
  BY ReaderApart DEF AmpacityInv
<1>0. /\ ~thrown /\ driver_enabled /\ driver_enabled'
      /\ step \in {"pp_removal", "pp_log"} => pp_ampacity # "unset"
      /\ step = "pp_compare" => previous_ampacity # "unset"
      /\ IF Publishing THEN pp_ampacity = reading
         ELSE previous_ampacity # "unset" => pp_ampacity = previous_ampacity
  BY ReaderApart DEF AmpacityInv
<1> USE DEF AmpacityInv, Publishing
<1>1. CASE CpRead
  BY <1>0, <1>1 DEF CpRead, Idle
<1>2. CASE CpFault \/ CpNoFault \/ CpChange \/ CpTrack \/ CpRemember
  BY <1>0, <1>2 DEF CpFault, CpNoFault, CpChange, CpTrack, CpRemember
<1>3. CASE PpRead \/ PpInvalid \/ PpValid
  BY <1>0, <1>3 DEF PpRead, PpInvalid, PpValid, Idle
<1>4. CASE PpCompare \/ PpChange \/ PpLog
  BY <1>0, <1>4 DEF PpCompare, PpChange, PpLog
<1>5. CASE PpStore
  BY <1>0, <1>5 DEF PpStore
<1>6. CASE PpPublish \/ PpCheck
  <2>1. reading # "unset"
    BY <1>6 DEF PpPublish, PpCheck, ReadingFits, Changing, Codings, EvseAssumption
  <2> QED BY <1>0, <1>6, <2>1 DEF PpPublish, PpCheck
<1>7. CASE PpRemember
  BY <1>0, <1>7 DEF PpRemember
<1> QED BY <1>1, <1>2, <1>3, <1>4, <1>5, <1>6, <1>7 DEF Reader

(* The handlers reset driver and module only after no evaluation is left.  *)
LEMMA HandlerAmpacity ==
    ASSUME todo \in Programs, DisabledFirst, AmpacityInv, ~thrown, Handler
    PROVE  AmpacityInv'
<1> USE DEF AmpacityInv
<1>0. UNCHANGED <<step, reading, thrown>>
  BY DEF Handler, Handle, SwitchPwm, EnableDriver, DisableDriver,
         ForgetCpState, ForgetAmpacity, ResetCpState, ResetAmpacity, SetModule
<1>1. CASE DisableDriver
  <2>1. /\ driver_enabled' = FALSE
        /\ UNCHANGED <<previous_ampacity, pp_ampacity>>
        /\ overlapped' = (~Idle \/ (overlapped /\ ~driver_enabled))
        /\ First(todo) = "disable_driver"
    BY <1>1 DEF DisableDriver, Does, First
  <2>2. CASE driver_enabled
    BY <1>0, <1>1, <2>1, <2>2, DisableForgets DEF Idle
  <2>3. CASE ~driver_enabled
    BY <1>0, <2>1, <2>3 DEF Idle
  <2> QED BY <2>2, <2>3
<1>2. CASE ForgetAmpacity
  <2>1. First(todo) = "forget_ampacity" /\ ~driver_enabled
    BY <1>2 DEF ForgetAmpacity, Does, First, DisabledFirst, Late, Forgetting
  <2> QED BY <1>0, <1>2, <2>1 DEF ForgetAmpacity, Idle
<1>3. CASE ForgetCpState
  <2>1. First(todo) = "forget_cp_state" /\ First(todo)' = "forget_ampacity"
        /\ ~driver_enabled
    BY <1>3, StepDone, Follows DEF ForgetCpState, Does, DisabledFirst, Late, Forgetting
  <2> QED BY <1>0, <1>3, <2>1 DEF ForgetCpState, Idle
<1>4. CASE ResetAmpacity
  <2>1. First(todo) = "reset_ampacity" /\ ~driver_enabled
    BY <1>4 DEF ResetAmpacity, Does, First, DisabledFirst, Late
  <2> QED BY <1>0, <1>4, <2>1 DEF ResetAmpacity, Idle
<1>5. CASE EnableDriver
  <2>1. First(todo) = "enable_driver"
    BY <1>5 DEF EnableDriver, Does, First
  <2> QED BY <1>0, <1>5, <2>1 DEF EnableDriver, Idle, Publishing
<1>6. CASE Handle \/ SwitchPwm \/ ResetCpState \/ SetModule
  <2>1. /\ UNCHANGED <<driver_enabled, previous_ampacity, pp_ampacity, overlapped>>
        /\ First(todo) \notin {"forget_cp_state", "forget_ampacity"}
    BY <1>6 DEF Handle, SwitchPwm, ResetCpState, SetModule, Does, First
  <2> QED BY <1>0, <2>1 DEF Idle, Publishing
<1> QED BY <1>1, <1>2, <1>3, <1>4, <1>5, <1>6 DEF Handler

(* Without a defect no verdict is an error.                                *)
LEMMA VerdictNext ==
    ASSUME Calm, verdict = "None", Reader \/ Handler
    PROVE  verdict' = "None"
<1>1. CASE CpRead
  <2>1. PICK r \in CpReadings :
            /\ "defects" \in env \/ CpError(r[1], r[2], FALSE, pwm_status) = "None"
            /\ verdict' = CpError(r[1], r[2], FALSE, pwm_status)
    BY <1>1 DEF CpRead
  <2> QED BY <2>1 DEF Calm
<1>2. CASE Reader /\ ~CpRead
  BY <1>2 DEF Reader, CpFault, CpNoFault, CpChange, CpTrack, CpRemember,
         PpRead, PpInvalid, PpValid, PpCompare, PpChange, PpLog, PpStore,
         PpPublish, PpCheck, PpRemember
<1>3. CASE Handler
  BY <1>3, HandlerLeavesFaults
<1> QED BY <1>1, <1>2, <1>3

(* The reader keeps the states of driver and module together.              *)
LEMMA ReaderTracks ==
    ASSUME verdict = "None", TrackedTogether, Reader
    PROVE  TrackedTogether'
<1>0. driver_enabled /\ driver_enabled' /\ TrackedWhileEnabled
  BY ReaderApart DEF TrackedTogether, ForgottenWhenDisabled
<1> USE DEF TrackedTogether, TrackedWhileEnabled, Tracked, Tracking
<1>2. CASE CpRead
  <2>3. /\ UNCHANGED <<previous_cp_state, cp_current_state, evaluated>>
        /\ step = "idle" /\ step' = "cp_fault"
    BY <1>2 DEF CpRead, Idle
  <2> QED BY <1>0, <2>3
<1>3. CASE CpFault
  BY <1>0, <1>3 DEF CpFault
<1>4. CASE CpNoFault
  BY <1>0, <1>4 DEF CpNoFault
<1>5. CASE CpChange
  BY <1>0, <1>5 DEF CpChange
<1>6. CASE CpTrack
  BY <1>0, <1>6 DEF CpTrack
<1>7. CASE CpRemember
  BY <1>0, <1>7 DEF CpRemember
<1>8. CASE PpRead \/ PpInvalid \/ PpValid \/ PpCompare \/ PpChange \/ PpLog
           \/ PpStore \/ PpPublish \/ PpCheck \/ PpRemember
  <2>1. /\ UNCHANGED <<previous_cp_state, cp_current_state, evaluated>>
        /\ ~Tracking /\ ~Tracking'
    BY <1>8 DEF PpRead, PpInvalid, PpValid, PpCompare, PpChange, PpLog,
                PpStore, PpPublish, PpCheck, PpRemember, Idle
  <2> QED BY <1>0, <2>1
<1> QED BY <1>0, <1>2, <1>3, <1>4, <1>5, <1>6, <1>7, <1>8 DEF Reader

(* A step of a command that touches none of them leaves them together.     *)
LEMMA Untouched ==
    ASSUME TrackedTogether,
           UNCHANGED <<previous_cp_state, cp_current_state, driver_enabled, step,
                       reading, evaluated>>,
           \/ First(todo) \notin Forgetting
           \/ ~driver_enabled /\ First(todo)' = "disable_module"
              /\ First(todo) \notin Forgetting
           \/ ~driver_enabled /\ First(todo) = "forget_ampacity"
              /\ First(todo)' = "reset_cp_state"
    PROVE  TrackedTogether'
  BY DEF TrackedTogether, TrackedWhileEnabled, ForgottenWhenDisabled, Tracked,
         Tracking, Idle, Late, Forgetting

(* So do those that do.                                                    *)
LEMMA HandlerTracks ==
    ASSUME todo \in Programs, DisabledFirst, ~overlapped => TrackedTogether,
           Handler, ~overlapped'
    PROVE  TrackedTogether'
<1> USE DEF Late, Forgetting
<1>0. /\ First(todo) \in Late => ~driver_enabled
      /\ DisableDriver \/ overlapped' = overlapped
  BY DEF DisabledFirst, Handler, Handle, SwitchPwm, EnableDriver,
         ForgetCpState, ForgetAmpacity, ResetCpState, ResetAmpacity, SetModule
<1>10. DisableDriver \/ TrackedTogether
  BY <1>0
<1>1. CASE Handle
  <2>1. First(todo) = "none"
    BY <1>1 DEF Handle, First
  <2> QED BY <1>0, <1>1, <1>10, <2>1, Untouched DEF Handle, DisableDriver, Does
<1>2. CASE SwitchPwm
  <2>1. First(todo) \in {"set_duty", "pwm_disable"}
    BY <1>2 DEF SwitchPwm, Does, First
  <2> QED BY <1>10, <1>2, <2>1, Untouched DEF SwitchPwm, DisableDriver, Does, First
<1>3. CASE EnableDriver
  <2>1. First(todo) = "enable_driver" /\ First(todo)' = "enable_module"
    BY <1>3, StepDone, Follows DEF EnableDriver, Does
  <2>4. TrackedTogether
    BY <1>10, <2>1 DEF DisableDriver, Does, First
  <2>2. CASE driver_enabled
    BY <1>3, <2>1, <2>2, <2>4, Untouched DEF EnableDriver
  <2>3. CASE ~driver_enabled
    <3>1. /\ previous_cp_state \in {OutOfRange, "PowerOn"}
          /\ cp_current_state = "PowerOn" /\ step = "idle"
      BY <2>1, <2>3, <2>4 DEF TrackedTogether, ForgottenWhenDisabled, Idle
    <3> QED BY <1>3, <2>1, <2>3, <3>1
            DEF EnableDriver, TrackedTogether, TrackedWhileEnabled, Tracked, Tracking
  <2> QED BY <2>2, <2>3
<1>4. CASE DisableDriver
  <2>1. /\ Idle /\ Idle' /\ driver_enabled' = FALSE
        /\ overlapped => driver_enabled
        /\ UNCHANGED <<previous_cp_state, cp_current_state>>
        /\ First(todo) = "disable_driver"
    BY <1>4 DEF DisableDriver, Idle, Does, First
  <2>2. CASE driver_enabled
    <3>1. First(todo)' = "forget_cp_state"
      BY <1>4, <2>2, DisableForgets
    <3> QED BY <2>1, <3>1 DEF TrackedTogether, ForgottenWhenDisabled
  <2>3. CASE ~driver_enabled
    <3>1. First(todo)' = "reset_cp_state"
      BY <1>4, <2>3, StepDone, Follows DEF DisableDriver, Done, Does
    <3> QED BY <2>1, <2>3, <3>1 DEF TrackedTogether, ForgottenWhenDisabled
  <2> QED BY <2>2, <2>3
<1>5. CASE ForgetCpState
  <2>1. First(todo) = "forget_cp_state" /\ First(todo)' = "forget_ampacity"
    BY <1>5, StepDone, Follows DEF ForgetCpState, Does
  <2> QED BY <1>0, <1>10, <1>5, <2>1
          DEF ForgetCpState, TrackedTogether, ForgottenWhenDisabled, Idle,
              DisableDriver, Does, First
<1>6. CASE ForgetAmpacity
  <2>1. First(todo) = "forget_ampacity" /\ First(todo)' = "reset_cp_state"
    BY <1>6, StepDone, Follows DEF ForgetAmpacity, Does
  <2> QED BY <1>0, <1>10, <1>6, <2>1, Untouched
          DEF ForgetAmpacity, DisableDriver, Does, First
<1>7. CASE ResetCpState
  <2>1. First(todo) = "reset_cp_state" /\ First(todo)' = "reset_ampacity"
    BY <1>7, StepDone, Follows DEF ResetCpState, Does
  <2> QED BY <1>0, <1>10, <1>7, <2>1
          DEF ResetCpState, TrackedTogether, ForgottenWhenDisabled, Idle,
              DisableDriver, Does, First
<1>8. CASE ResetAmpacity
  <2>1. First(todo) = "reset_ampacity" /\ First(todo)' = "disable_module"
    BY <1>8, StepDone, Follows DEF ResetAmpacity, Does
  <2> QED BY <1>0, <1>10, <1>8, <2>1, Untouched
          DEF ResetAmpacity, DisableDriver, Does, First
<1>9. CASE SetModule
  <2>1. First(todo) \in {"enable_module", "disable_module"} /\ First(todo)' = "none"
    BY <1>9, StepDone, Follows DEF SetModule, Does
  <2> QED BY <1>10, <1>9, <2>1, Untouched DEF SetModule, DisableDriver, Does, First
<1> QED BY <1>1, <1>2, <1>3, <1>4, <1>5, <1>6, <1>7, <1>8, <1>9 DEF Handler

-----------------------------------------------------------------------------
(* The inductive invariant.                                                *)

LEMMA InvInit == EvseAssumption /\ Init => IInv
<1> SUFFICES ASSUME EvseAssumption, Init PROVE IInv
  OBVIOUS
<1>1. TypeOK
  <2>1. todo \in Seq(Steps)
    BY DEF Init
  <2> QED BY <2>1 DEF Init, TypeOK
<1>2. ReadingFits /\ FaultsAgree /\ CpErrorFollowsMeasurement
  BY DEF Init, ReadingFits, PpRunning, Changing, Publishing, FaultsAgree, CpErrorFollowsMeasurement
<1>3. ProximityInv
  BY DEF Init, EvseAssumption, ProximityInv, LatchedIsForgotten,
         RememberedIsSound, PublishedIsSound, MeasuredIsSound, PpRunning,
         Changing, Publishing
<1>4. todo \in Programs /\ First(todo) = "none"
  BY DEF Init, Programs, Rests, First
<1>5. DisabledFirst /\ AmpacityInv /\ TrackedInv
  BY <1>4 DEF Init, DisabledFirst, AmpacityInv, Late, Forgetting, TrackedInv,
              TrackedTogether, ForgottenWhenDisabled, Idle
<1> QED BY <1>1, <1>2, <1>3, <1>4, <1>5 DEF IInv

LEMMA InvNext == EvseAssumption /\ IInv /\ [Next]_vars => IInv'
<1> SUFFICES ASSUME EvseAssumption, IInv, [Next]_vars PROVE IInv'
  OBVIOUS
<1>0. /\ TypeOK /\ ReadingFits /\ ProximityInv
      /\ FaultsAgree /\ CpErrorFollowsMeasurement
      /\ todo \in Programs /\ DisabledFirst /\ AmpacityInv /\ TrackedInv
  BY DEF IInv
<1>1. ASSUME ~thrown, Reader, env' = env PROVE IInv'
  <2>1. /\ TypeOK' /\ ReadingFits' /\ ProximityInv'
        /\ FaultsAgree' /\ CpErrorFollowsMeasurement'
    BY <1>0, <1>1, ReaderType, ReaderFaults, ReaderProximity
  <2>2. AmpacityInv' /\ DisabledFirst'
    BY <1>0, <1>1, ReaderAmpacity, DisabledFirstNext
  <2>3. todo' \in Programs /\ overlapped' = overlapped
    BY <1>0, <1>1, ReaderApart
  <2>4. TrackedInv'
    <3>1. ASSUME Calm' PROVE verdict' = "None"
      BY <1>0, <1>1, <3>1, VerdictNext DEF TrackedInv, Calm
    <3>2. ASSUME Calm', ~overlapped' PROVE TrackedTogether'
      BY <1>0, <1>1, <2>3, <3>2, ReaderTracks DEF TrackedInv, Calm
    <3> QED BY <3>1, <3>2 DEF TrackedInv
  <2> QED BY <2>1, <2>2, <2>3, <2>4 DEF IInv
<1>2. ASSUME ~thrown, Handler, env' = env PROVE IInv'
  <2>1. TypeOK' /\ ReadingFits'
    BY <1>0, <1>2, HandlerType
  <2>2. /\ UNCHANGED <<cpFaults, ppFaults, errors, step, reading, verdict>>
        /\ coding' = coding
        /\ previous_ampacity' \in {previous_ampacity, "unset"}
        /\ pp_ampacity' \in {pp_ampacity, "unset"}
    BY <1>2, HandlerLeavesFaults
  <2>3. FaultsAgree' /\ CpErrorFollowsMeasurement'
    BY <1>0, <2>2 DEF FaultsAgree, CpErrorFollowsMeasurement
  <2>4. ProximityInv'
    BY <1>0, <2>2 DEF EvseAssumption, ProximityInv, LatchedIsForgotten,
                      RememberedIsSound, PublishedIsSound, MeasuredIsSound,
                      PpRunning, Changing, Publishing
  <2>5. AmpacityInv' /\ DisabledFirst' /\ todo' \in Programs
    BY <1>0, <1>2, HandlerAmpacity, DisabledFirstNext, HandlerProgram
  <2>6. TrackedInv'
    <3>1. ASSUME Calm' PROVE verdict' = "None"
      BY <1>0, <1>2, <3>1, VerdictNext DEF TrackedInv, Calm
    <3>2. ASSUME Calm', ~overlapped' PROVE TrackedTogether'
      BY <1>0, <1>2, <3>2, HandlerTracks DEF TrackedInv, Calm
    <3> QED BY <3>1, <3>2 DEF TrackedInv
  <2> QED BY <2>1, <2>3, <2>4, <2>5, <2>6 DEF IInv
<1>3. CASE UNCHANGED vars
  <2>1. TypeOK' /\ ReadingFits' /\ todo' \in Programs
    BY <1>0, <1>3 DEF vars, TypeOK, ReadingFits, PpRunning, Changing, Publishing
  <2>2. FaultsAgree' /\ CpErrorFollowsMeasurement'
    BY <1>0, <1>3 DEF vars, FaultsAgree, CpErrorFollowsMeasurement
  <2>3. ProximityInv'
    BY <1>0, <1>3 DEF vars, ProximityInv, LatchedIsForgotten,
                      RememberedIsSound, PublishedIsSound, MeasuredIsSound,
                      PpRunning, Changing, Publishing
  <2>4. AmpacityInv' /\ DisabledFirst'
    BY <1>0, <1>3 DEF vars, AmpacityInv, DisabledFirst, First, Idle, Publishing
  <2>5. TrackedInv'
    BY <1>0, <1>3 DEF vars, TrackedInv, TrackedTogether, TrackedWhileEnabled,
          ForgottenWhenDisabled, Tracked, Tracking, First, Idle, Calm
  <2> QED BY <2>1, <2>2, <2>3, <2>4, <2>5 DEF IInv
<1> QED BY <1>1, <1>2, <1>3 DEF Next, Stopped

(* The inductive invariant holds in every state.                           *)
THEOREM Invariant == Spec => []IInv
  BY EvseAssumption, InvInit, InvNext, PTL DEF Spec

(* Every variable has its type in every state.                             *)
THEOREM TypeCorrect == Spec => []TypeOK
<1>1. IInv => TypeOK
  BY DEF IInv
<1> QED BY <1>1, Invariant, PTL

(* Driver, module and framework never disagree about the open faults: each *)
(* raised error can be cleared, and no error is cleared that was not       *)
(* raised, however commands and measurements interleave.                   *)
THEOREM FaultsStayConsistent == Spec => []FaultsAgree
<1>1. IInv => FaultsAgree
  BY DEF IInv
<1> QED BY <1>1, Invariant, PTL

(* A CP error is open exactly after a faulty CP measurement, for every set *)
(* of readings and every interleaving with enabling and disabling.         *)
THEOREM CpErrorIsCurrent == Spec => []CpErrorFollowsMeasurement
<1>1. IInv => CpErrorFollowsMeasurement
  BY DEF IInv
<1> QED BY <1>1, Invariant, PTL

(* A valid measurement of the cable ends the latched measurement error,    *)
(* and that of a plugged-in cable every proximity fault, although the      *)
(* driver passes on only changes of the ampacity.                          *)
THEOREM CableEndsProximityFault == Spec => []ProximityRecovers
<1>1. IInv => ProximityRecovers
  BY DEF IInv, ProximityInv, MeasuredIsSound, ProximityRecovers, PpRunning,
         Changing, Publishing, Idle
<1> QED BY <1>1, Invariant, PTL

(* What the driver remembers as the ampacity, and does not pass on again,  *)
(* is what the module has, and no value() of either is missing: a disable  *)
(* in the middle of an evaluation is all that can part them, whatever the  *)
(* readings, and the next one that is not puts them together again.        *)
THEOREM AmpacityIsKnown == Spec => []AmpacityKnownToBoth
<1>1. IInv => AmpacityKnownToBoth
  BY DEF IInv, AmpacityInv, AmpacityKnownToBoth, Publishing, Idle
<1> QED BY <1>1, Invariant, PTL

(* The two memories of the CP state, of KL02 and of the module, are reset  *)
(* by different steps of a disable, but the module has the state evaluated *)
(* last: as long as no CP measurement is faulty and the last disable of    *)
(* the driver met no evaluation.                                           *)
THEOREM StateIsTracked == Spec => []CpStateTracked
<1>1. IInv => CpStateTracked
  BY DEF IInv, TrackedInv, Calm, TrackedTogether, TrackedWhileEnabled,
         Tracking, Tracked, CpStateTracked, Idle
<1> QED BY <1>1, Invariant, PTL

(* A plug removed in state C or D is reported: on_pp_change looks at the   *)
(* state of the module, which is the one evaluated last if no measurement  *)
(* of the CP is faulty and the driver was not disabled in the middle of an *)
(* evaluation.                                                             *)
THEOREM RemovalIsReported == Spec => PlugRemovalReportedUndisturbed
<1>1. IInv /\ [Next]_vars => ["defects" \notin env /\ ~overlapped => Reported]_vars
  <2> SUFFICES ASSUME IInv, Next, "defects" \notin env, ~overlapped,
                      step = "pp_check", step' = "pp_remember",
                      reading = "None", evaluated \in {"C", "D"}
               PROVE  pp_fault_reported'
    BY DEF Reported
  <2>1. CASE PpCheck
    <3>1. driver_enabled /\ pp_ampacity = "None"
      BY DEF IInv, AmpacityInv, Publishing, Idle
    <3>2. cp_current_state = evaluated
      BY <3>1 DEF IInv, TrackedInv, Calm, TrackedTogether,
             TrackedWhileEnabled, Tracking, Tracked, OutOfRange
    <3> QED BY <2>1, <3>1, <3>2 DEF PpCheck, ReportProximityFault
  <2>2. CASE Reader /\ ~PpCheck
    BY <2>2 DEF Reader, CpRead, CpFault, CpNoFault, CpChange, CpTrack,
         CpRemember, PpRead, PpInvalid, PpValid, PpCompare, PpChange, PpLog,
         PpStore, PpPublish, PpRemember, Idle
  <2>3. CASE Handler
    BY <2>3, HandlerLeavesFaults
  <2> QED BY <2>1, <2>2, <2>3 DEF Next, Stopped, vars
<1> QED BY <1>1, Invariant, PTL DEF Spec, PlugRemovalReportedUndisturbed

=============================================================================
