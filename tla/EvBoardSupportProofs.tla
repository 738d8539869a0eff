------------------------ MODULE EvBoardSupportProofs ------------------------
(***************************************************************************)
(* Proofs about the two modules that implement ev_board_support, for every *)
(* set of cable codings, of CP readings and of duty cycles, every CP state *)
(* asked for and every environment: an inductive invariant of each, and    *)
(* what follows for a behaviour that is one of either.                     *)
(***************************************************************************)
EXTENDS MCEvBoardSupport, EnableCommands

-----------------------------------------------------------------------------
(* EVAchargeSEEV.                                                          *)

(* A coding has been measured and not yet been stored.                     *)
PpRunning == step \in {"pp", "pp_compare", "pp_change", "pp_removal",
                       "pp_known", "pp_log", "pp_store"}

(* What is evaluated is of the kind its evaluation expects.                *)
ReadingFits ==
    /\ step \in {"cp_change", "cp_remember"} => reading \in KL02!CpEvents
    /\ PpRunning \/ step = "pp_remember" =>
          reading \in KL02!Codings /\ reading = coding

(* A duty cycle that is latched as an error is stored as the last one, so  *)
(* that a good one differs from it; a good one stored was published.       *)
DutyCurrent(d) ==
    \/ bsp_measurement.cp_pwm_duty_cycle = d
    \/ bsp_measurement.cp_pwm_duty_cycle = -1 /\ d = 1000

KL02DutyInv ==
    /\ duty_cycle_error_raised => KL02!DutyError(duty_cycle)
    /\ duty_is_good => ~KL02!DutyError(duty_cycle)
    /\ ~KL02!DutyError(duty_cycle) => DutyCurrent(duty_cycle)
    /\ duty # -1 => DutyCurrent(duty)

(* The coding remembered by the driver is the one published, except        *)
(* between the two halves of on_pp_change.                                 *)
KL02AmpacityInv ==
    /\ \/ previous_ampacity \in {"unset", bsp_measurement.proximity_pilot}
       \/ step = "pp_remember"
    /\ step = "pp_remember" => bsp_measurement.proximity_pilot = reading
    /\ coding # "none" => \/ bsp_measurement.proximity_pilot = coding
                          \/ PpRunning

(* What the resistors present when set_cp_state has succeeded.             *)
KL02PresentsInv ==
    /\ KL02!PresentsRequested
    /\ todo = <<"set_requested">> => is_enabled
    /\ First(todo) \in {"enable_driver", "enable_module"} =>
          unsent \/ lost \/ presented = requested_cp_state
    /\ KL02!Disabling => unsent \/ presented = "A"

(* While a healthy driver is enabled its previous state is the one the     *)
(* module has, and when it has been disabled both have forgotten it.       *)
KL02Calm       == env \subseteq {"reconnect", "partial"}
KL02Tracked(s) == \/ cp_current_state = s
                  \/ cp_current_state = "PowerOn" /\ s = KL02!OutOfRange
Changing   == step \in {"cp_change", "cp_remember"}

TrackedWhileEnabled ==
    /\ step # "cp_remember" => KL02Tracked(previous_cp_state)
    /\ Changing => evaluated = reading
    /\ step = "cp_remember" => cp_current_state = reading
    /\ ~Changing /\ evaluated # "none" => KL02Tracked(evaluated)
    /\ First(todo) \notin Late

KL02ForgottenWhenDisabled ==
    /\ KL02!Idle
    /\ First(todo) # "forget_cp_state" =>
          previous_cp_state \in {KL02!OutOfRange, "PowerOn"}
    /\ First(todo) \notin Forgetting => cp_current_state = "PowerOn"

TrackedInv == KL02Calm => IF driver_enabled THEN TrackedWhileEnabled
                                            ELSE KL02ForgottenWhenDisabled

KL02Inv == /\ KL02!TypeOK /\ ReadingFits /\ todo \in EvPrograms
           /\ KL02DutyInv /\ KL02AmpacityInv /\ KL02PresentsInv /\ TrackedInv

USE DEF KL02!cpVars, KL02!ppVars, KL02!dutyVars, KL02!stateVars,
        KL02!measured, KL02!failures, KL02!Codings

-----------------------------------------------------------------------------
(* The steps of the commands.                                              *)

(* A step that is done leaves the rest of its list.                        *)
LEMMA KL02StepDone ==
    ASSUME todo \in EvPrograms, NEW s, s # "none", KL02!Does(s), KL02!Done
    PROVE  /\ First(todo) = s /\ First(todo)' = First(Tail(todo))
           /\ todo' \in EvPrograms
  BY EvFollows DEF KL02!Does, KL02!Done, First

(* KL02::disable of an enabled driver forgets before the module does.      *)
LEMMA KL02DisableForgets ==
    ASSUME todo \in EvPrograms, KL02!DisableDriver, driver_enabled
    PROVE  todo' \in EvPrograms /\ First(todo)' = "forget_cp_state"
<1>1. /\ First(todo) = "disable_driver"
      /\ todo' = <<"forget_cp_state", "forget_ampacity">> \o Tail(todo)
  BY DEF KL02!DisableDriver, KL02!Does, First
<1>2. todo \in Rests
  BY <1>1, EvFollows DEF First
<1>3. todo' \in Rests /\ todo' # <<>> /\ First(todo') = "forget_cp_state"
  BY <1>1, <1>2, ForgetsFirst
<1> QED BY <1>3 DEF EvPrograms, First

-----------------------------------------------------------------------------
(* Type correctness.                                                       *)

(* A pair of CP voltages has a state.                                      *)
LEMMA CpStateType ==
    ASSUME NEW pos \in KL02!CpEvents, NEW neg \in KL02!CpEvents
    PROVE  KL02!CpState(pos, neg, TRUE, FALSE) \in KL02!CpEvents
  BY DEF KL02!CpState, KL02!CpEvents, KL02!CpStates, KL02!OutOfRange

(* The filter of the duty cycle neither hides an error nor makes one.      *)
LEMMA DutyVerdict ==
    ASSUME NEW dc \in Nat
    PROVE  /\ KL02!DutyError(KL02!FilteredDuty(dc)) <=> KL02!DutyError(dc)
           /\ ~KL02!DutyError(dc) => KL02!FilteredDuty(dc) \in KL02!Duties
           /\ -1 \notin KL02!Duties
<1>1. dc \in Int /\ 0 <= dc
  OBVIOUS
<1>2. KL02!DutyError(KL02!FilteredDuty(dc)) <=> KL02!DutyError(dc)
  <2>1. CASE KL02!DutyError(dc)
    <3>1. KL02!FilteredDuty(dc) = dc
      BY <1>1, <2>1 DEF KL02!DutyError, KL02!FilteredDuty
    <3> QED BY <2>1, <3>1
  <2>2. CASE ~KL02!DutyError(dc)
    <3>1. \/ KL02!FilteredDuty(dc) \in {0, 50, 100, 960, 1000}
          \/ KL02!FilteredDuty(dc) = dc
      BY DEF KL02!FilteredDuty
    <3>2. \A d \in {0, 50, 100, 960, 1000} : ~KL02!DutyError(d)
      BY DEF KL02!DutyError
    <3> QED BY <2>2, <3>1, <3>2
  <2> QED BY <2>1, <2>2
<1>3. ~KL02!DutyError(dc) => KL02!FilteredDuty(dc) \in KL02!Duties
  <2>1. \A f \in Int : f \in {0, 50, 1000} \/ (100 <= f /\ f <= 960) =>
                       f \in KL02!Duties
    BY DEF KL02!Duties
  <2>2. ~KL02!DutyError(dc) => /\ KL02!FilteredDuty(dc) \in Int
                               /\ \/ KL02!FilteredDuty(dc) \in {0, 50, 1000}
                                  \/ /\ 100 <= KL02!FilteredDuty(dc)
                                     /\ KL02!FilteredDuty(dc) <= 960
    BY <1>1 DEF KL02!DutyError, KL02!FilteredDuty
  <2> QED BY <2>1, <2>2
<1>4. -1 \notin KL02!Duties
  BY DEF KL02!Duties
<1> QED BY <1>2, <1>3, <1>4

(* Every step of the reader keeps the types.                               *)
LEMMA ReaderType ==
    ASSUME KL02!EvParameters, KL02!TypeOK, ReadingFits, KL02!Reader
    PROVE  KL02!TypeOK' /\ ReadingFits'
<1> USE DEF KL02!TypeOK, ReadingFits, PpRunning
<1>1. CASE KL02!CpRead
  <2>1. PICK r \in CpReadings :
            LET s   == KL02!CpState(r[1], r[2], TRUE, FALSE)
                err == KL02!CpError(r[1], r[2], TRUE, FALSE)
            IN  /\ reading' = s
                /\ cp_error_raised' = (err # "None")
                /\ previous_cp_state' = IF err # "None" THEN s ELSE previous_cp_state
                /\ evaluated' = IF err # "None" THEN evaluated ELSE s
                /\ step' = IF err = "None" /\ s # previous_cp_state
                           THEN "cp_change" ELSE "idle"
    BY <1>1 DEF KL02!CpRead
  <2>2. r[1] \in KL02!CpEvents /\ r[2] \in KL02!CpEvents
    BY DEF KL02!EvParameters
  <2>3. reading' \in KL02!CpEvents
    BY <2>1, <2>2, CpStateType
  <2>4. /\ previous_cp_state' \in KL02!CpEvents \cup {"PowerOn"}
        /\ evaluated' \in KL02!CpEvents \cup {"none"}
        /\ step' \in {"cp_change", "idle"}
    BY <2>1, <2>3
  <2>5. cp_error_raised' \in BOOLEAN
    BY <2>1
  <2> QED BY <1>1, <2>3, <2>4, <2>5 DEF KL02!CpRead
<1>2. CASE KL02!CpChange
  BY <1>2 DEF KL02!CpChange
<1>3. CASE KL02!CpRemember
  BY <1>3 DEF KL02!CpRemember
<1>4. CASE KL02!PpInvalid
  BY <1>4 DEF KL02!PpInvalid, KL02!Evaluates, KL02!Idle
<1>5. CASE KL02!PpRead
  BY <1>5 DEF KL02!PpRead
<1>6. CASE KL02!PpValid \/ KL02!PpCompare
  BY <1>6 DEF KL02!PpValid, KL02!PpCompare
<1>10. CASE KL02!PpChange \/ KL02!PpLog
  BY <1>10 DEF KL02!PpChange, KL02!PpLog
<1>7. CASE KL02!PpStore
  BY <1>7 DEF KL02!PpStore
<1>8. CASE KL02!PpRemember
  BY <1>8 DEF KL02!PpRemember
<1>9. CASE KL02!DutyRead
  <2>1. PICK dc \in DutyReadings :
            LET new == KL02!FilteredDuty(dc)
            IN  /\ duty_is_good' = ~KL02!DutyError(dc)
                /\ duty_cycle' = new
                /\ IF KL02!DutyError(dc)
                   THEN /\ duty_cycle_error_raised' = TRUE
                        /\ UNCHANGED <<duty, bsp_measurement>>
                   ELSE /\ duty' = new
                        /\ IF duty_cycle = new
                           THEN UNCHANGED <<duty_cycle_error_raised, bsp_measurement>>
                           ELSE /\ duty_cycle_error_raised' = FALSE
                                /\ bsp_measurement' =
                                     [bsp_measurement EXCEPT !.cp_pwm_duty_cycle = new]
    BY <1>9 DEF KL02!DutyRead
  <2>2. dc \in Nat
    BY DEF KL02!EvParameters
  <2>3. duty_is_good' \in BOOLEAN
    BY <2>1
  <2>4. duty_cycle_error_raised' \in BOOLEAN
    BY <2>1
  <2>5. /\ duty_cycle' \in KL02!Duties \/ KL02!DutyError(duty_cycle)'
        /\ duty' \in KL02!Duties \cup {-1}
        /\ bsp_measurement' \in [proximity_pilot : KL02!Codings \cup {"unset"},
                                 cp_pwm_duty_cycle : KL02!Duties \cup {-1}]
    <3> HIDE DEF KL02!Codings
    <3>1. CASE KL02!DutyError(dc)
      BY <2>1, <2>2, <3>1, DutyVerdict
    <3>2. CASE ~KL02!DutyError(dc)
      BY <2>1, <2>2, <3>2, DutyVerdict
    <3> QED BY <3>1, <3>2
  <2> QED BY <1>9, <2>3, <2>4, <2>5 DEF KL02!DutyRead
<1> QED BY <1>1, <1>2, <1>3, <1>4, <1>5, <1>6, <1>7, <1>8, <1>9,
           <1>10 DEF KL02!Reader

(* Every step of a command leaves a program ...                            *)
LEMMA HandlerProgram ==
    ASSUME todo \in EvPrograms, KL02!Handler
    PROVE  todo' \in EvPrograms
<1>1. CASE KL02!HandleEnable \/ KL02!HandleSetCpState
  BY <1>1 DEF KL02!HandleEnable, KL02!HandleSetCpState, EvPrograms, Rests
<1>2. CASE KL02!SetCpState
  <2>1. CASE KL02!Done
    BY <1>2, <2>1, KL02StepDone DEF KL02!SetCpState
  <2>2. CASE todo' = <<>>
    BY <2>2 DEF EvPrograms, Rests
  <2> QED BY <1>2, <2>1, <2>2 DEF KL02!SetCpState
<1>3. CASE KL02!DisableDriver
  <2>1. CASE driver_enabled
    BY <1>3, <2>1, KL02DisableForgets
  <2>2. CASE ~driver_enabled
    BY <1>3, <2>2, KL02StepDone DEF KL02!DisableDriver, KL02!Done
  <2> QED BY <2>1, <2>2
<1>4. CASE \/ KL02!EnableDriver \/ KL02!ForgetCpState \/ KL02!ForgetAmpacity
           \/ KL02!ResetCpState \/ KL02!ResetAmpacity \/ KL02!SetModule
  BY <1>4, KL02StepDone
     DEF KL02!EnableDriver, KL02!ForgetCpState, KL02!ForgetAmpacity,
         KL02!ResetCpState, KL02!ResetAmpacity, KL02!SetModule
<1> QED BY <1>1, <1>2, <1>3, <1>4 DEF KL02!Handler

(* ... and keeps the types.                                                *)
LEMMA KL02HandlerType ==
    ASSUME KL02!EvParameters, KL02!TypeOK, ReadingFits, todo \in EvPrograms,
           KL02!Handler \/ KL02!Reset
    PROVE  KL02!TypeOK' /\ ReadingFits'
<1>0. todo' \in Seq(KL02!Steps)
  <2>1. CASE KL02!Handler
    <3>1. todo' \in Seq(EvSteps)
      BY <2>1, HandlerProgram, EvProgramsType
    <3>2. EvSteps = KL02!Steps
      BY DEF EvSteps, EnableSteps, Late, Forgetting, KL02!Steps
    <3> QED BY <3>1, <3>2
  <2>2. CASE KL02!Reset
    BY <2>2 DEF KL02!Reset, KL02!TypeOK
  <2> QED BY <2>1, <2>2
<1>1. /\ UNCHANGED <<cp_error_raised, pp_error_raised, KL02!dutyVars, bsp_measurement,
                      step, reading, coding, duty, duty_is_good, thrown>>
      /\ previous_cp_state' \in {previous_cp_state, KL02!OutOfRange}
      /\ cp_current_state' \in {cp_current_state, "PowerOn"}
      /\ previous_ampacity' \in {previous_ampacity, "unset"}
      /\ pp_ampacity' \in {pp_ampacity, "unset"}
      /\ evaluated' \in {evaluated, "none"}
  BY DEF KL02!Handler, KL02!HandleEnable, KL02!HandleSetCpState,
         KL02!SetCpState, KL02!EnableDriver, KL02!DisableDriver,
         KL02!ForgetCpState, KL02!ForgetAmpacity, KL02!ResetCpState,
         KL02!ResetAmpacity, KL02!SetModule, KL02!Reset
<1>2. /\ requested_cp_state' \in {requested_cp_state} \cup EvCpStates
      /\ presented' \in {presented, requested_cp_state, "A"}
  BY DEF KL02!Handler, KL02!HandleEnable, KL02!HandleSetCpState,
         KL02!SetCpState, KL02!EnableDriver, KL02!DisableDriver,
         KL02!ForgetCpState, KL02!ForgetAmpacity, KL02!ResetCpState,
         KL02!ResetAmpacity, KL02!SetModule, KL02!Reset
<1>3. {driver_enabled, is_enabled, failed, enable_failed, unsent, lost}' \subseteq BOOLEAN
  <2> USE DEF KL02!TypeOK
  <2>1. CASE KL02!SetCpState
    BY <2>1 DEF KL02!SetCpState
  <2>2. CASE KL02!SetModule
    <3>1. is_enabled' \in BOOLEAN /\ enable_failed' \in BOOLEAN
      BY <2>2 DEF KL02!SetModule, KL02!Does
    <3> QED BY <2>2, <3>1 DEF KL02!SetModule
  <2>3. CASE KL02!HandleEnable \/ KL02!HandleSetCpState \/ KL02!EnableDriver
             \/ KL02!DisableDriver
    BY <2>3
       DEF KL02!HandleEnable, KL02!HandleSetCpState, KL02!EnableDriver,
           KL02!DisableDriver
  <2>4. CASE KL02!ForgetCpState \/ KL02!ForgetAmpacity \/ KL02!ResetCpState
             \/ KL02!ResetAmpacity \/ KL02!Reset
    BY <2>4
       DEF KL02!ForgetCpState, KL02!ForgetAmpacity, KL02!ResetCpState,
           KL02!ResetAmpacity, KL02!Reset
  <2> QED BY <2>1, <2>2, <2>3, <2>4 DEF KL02!Handler
<1>4. ReadingFits'
  BY <1>1 DEF ReadingFits, PpRunning
<1>5. /\ {driver_enabled, cp_error_raised, pp_error_raised, is_enabled,
          duty_cycle_error_raised, duty_is_good, failed, enable_failed,
          unsent, lost, thrown}' \subseteq BOOLEAN
      /\ {requested_cp_state, presented}' \subseteq EvCpStates \cup {"A"}
  BY <1>1, <1>2, <1>3 DEF KL02!TypeOK
<1>6. /\ {previous_cp_state, cp_current_state}' \subseteq
             KL02!CpEvents \cup {"PowerOn"}
      /\ {previous_ampacity, pp_ampacity}' \subseteq KL02!Codings \cup {"unset"}
      /\ evaluated' \in KL02!CpEvents \cup {"none"}
  <2> HIDE DEF KL02!Codings
  <2> QED BY <1>1 DEF KL02!TypeOK, KL02!CpEvents
<1>7. /\ (duty_cycle \in KL02!Duties \/ KL02!DutyError(duty_cycle))'
      /\ bsp_measurement' \in [proximity_pilot : KL02!Codings \cup {"unset"},
                               cp_pwm_duty_cycle : KL02!Duties \cup {-1}]
      /\ step' \in {"idle", "cp_change", "cp_remember", "pp", "pp_compare",
                    "pp_change", "pp_removal", "pp_known", "pp_log",
                    "pp_store", "pp_remember"}
      /\ reading' \in KL02!CpEvents \cup KL02!Codings \cup {"none"}
      /\ coding' \in KL02!Codings \cup {"none"}
      /\ duty' \in KL02!Duties \cup {-1}
  <2> HIDE DEF KL02!Codings
  <2> QED BY <1>1 DEF KL02!TypeOK
<1> QED BY <1>0, <1>4, <1>5, <1>6, <1>7 DEF KL02!TypeOK

-----------------------------------------------------------------------------
(* The invariant.                                                          *)

(* The duty cycle and its error follow the measurements.                   *)
LEMMA DutyNext ==
    ASSUME KL02!EvParameters, KL02!TypeOK, KL02DutyInv,
           KL02!Reader \/ KL02!Handler \/ KL02!Reset
    PROVE  KL02DutyInv'
<1>1. ASSUME UNCHANGED <<KL02!dutyVars, duty, duty_is_good>>,
             bsp_measurement'.cp_pwm_duty_cycle = bsp_measurement.cp_pwm_duty_cycle
      PROVE  KL02DutyInv'
  BY <1>1 DEF KL02DutyInv, DutyCurrent
<1>2. CASE KL02!DutyRead
  <2>1. PICK dc \in DutyReadings :
            LET new == KL02!FilteredDuty(dc)
            IN  /\ duty_is_good' = ~KL02!DutyError(dc)
                /\ duty_cycle' = new
                /\ IF KL02!DutyError(dc)
                   THEN /\ duty_cycle_error_raised' = TRUE
                        /\ UNCHANGED <<duty, bsp_measurement>>
                   ELSE /\ duty' = new
                        /\ IF duty_cycle = new
                           THEN UNCHANGED <<duty_cycle_error_raised, bsp_measurement>>
                           ELSE /\ duty_cycle_error_raised' = FALSE
                                /\ bsp_measurement' =
                                     [bsp_measurement EXCEPT !.cp_pwm_duty_cycle = new]
    BY <1>2 DEF KL02!DutyRead
  <2>2. KL02!DutyError(KL02!FilteredDuty(dc)) <=> KL02!DutyError(dc)
    BY DutyVerdict DEF KL02!EvParameters
  <2>3. CASE KL02!DutyError(dc)
    <3>1. ~duty_is_good'
      BY <2>1, <2>3
    <3>2. KL02!DutyError(duty_cycle)' /\ UNCHANGED <<duty, bsp_measurement>>
      BY <2>1, <2>2, <2>3
    <3> QED BY <3>1, <3>2 DEF KL02DutyInv, DutyCurrent
  <2>4. CASE ~KL02!DutyError(dc) /\ duty_cycle = KL02!FilteredDuty(dc)
    BY <2>1, <2>2, <2>4 DEF KL02DutyInv, DutyCurrent
  <2>5. CASE ~KL02!DutyError(dc) /\ duty_cycle # KL02!FilteredDuty(dc)
    <3>1. bsp_measurement'.cp_pwm_duty_cycle = KL02!FilteredDuty(dc)
      BY <2>1, <2>5 DEF KL02!TypeOK
    <3> QED BY <2>1, <2>2, <2>5, <3>1 DEF KL02DutyInv, DutyCurrent
  <2> QED BY <2>3, <2>4, <2>5
<1>3. CASE KL02!PpStore
  BY <1>1, <1>3 DEF KL02!PpStore, KL02!TypeOK
<1>4. CASE KL02!CpRead \/ KL02!CpChange \/ KL02!CpRemember \/ KL02!PpInvalid
           \/ KL02!PpRead \/ KL02!PpValid \/ KL02!PpCompare
           \/ KL02!PpChange \/ KL02!PpLog \/ KL02!PpRemember
  BY <1>1, <1>4
     DEF KL02!CpRead, KL02!CpChange, KL02!CpRemember, KL02!PpInvalid,
         KL02!PpRead, KL02!PpValid, KL02!PpCompare, KL02!PpChange,
         KL02!PpLog, KL02!PpRemember
<1>5. CASE KL02!Handler \/ KL02!Reset
  BY <1>1, <1>5
     DEF KL02!Handler, KL02!HandleEnable, KL02!HandleSetCpState,
         KL02!SetCpState, KL02!EnableDriver, KL02!DisableDriver,
         KL02!ForgetCpState, KL02!ForgetAmpacity, KL02!ResetCpState,
         KL02!ResetAmpacity, KL02!SetModule, KL02!Reset
<1> QED BY <1>2, <1>3, <1>4, <1>5 DEF KL02!Reader

(* The ampacity published follows the measurements.                        *)
LEMMA KL02AmpacityNext ==
    ASSUME KL02!EvParameters, KL02!TypeOK, ReadingFits, KL02AmpacityInv,
           KL02!Reader \/ KL02!Handler \/ KL02!Reset
    PROVE  KL02AmpacityInv'
<1>1. ASSUME UNCHANGED <<step, reading, coding>>,
             previous_ampacity' \in {previous_ampacity, "unset"},
             bsp_measurement'.proximity_pilot = bsp_measurement.proximity_pilot
      PROVE  KL02AmpacityInv'
  BY <1>1 DEF KL02AmpacityInv, PpRunning
<1>2. ASSUME UNCHANGED <<previous_ampacity, coding, bsp_measurement>>,
             ~PpRunning, ~PpRunning',
             step # "pp_remember", step' # "pp_remember"
      PROVE  KL02AmpacityInv'
  BY <1>2 DEF KL02AmpacityInv
<1>3. CASE KL02!CpRead \/ KL02!CpChange \/ KL02!CpRemember
  BY <1>2, <1>3
     DEF KL02!CpRead, KL02!CpChange, KL02!CpRemember, KL02!Evaluates,
         KL02!Idle, PpRunning
<1>4. CASE KL02!PpInvalid
  BY <1>1, <1>4 DEF KL02!PpInvalid
<1>5. CASE KL02!PpRead
  BY <1>5 DEF KL02!PpRead, KL02!Evaluates, KL02!Idle, KL02AmpacityInv, PpRunning
<1>6. CASE KL02!PpValid \/ KL02!PpCompare
  <2>1. reading = coding /\ "unset" \notin KL02!Codings /\ reading \in KL02!Codings
    BY <1>6 DEF KL02!PpValid, KL02!PpCompare, ReadingFits, PpRunning,
                KL02!EvParameters
  <2> HIDE DEF KL02!Codings
  <2> QED BY <1>6, <2>1 DEF KL02!PpValid, KL02!PpCompare, KL02AmpacityInv, PpRunning
<1>11. CASE KL02!PpChange \/ KL02!PpLog
  BY <1>11 DEF KL02!PpChange, KL02!PpLog, KL02AmpacityInv, PpRunning
<1>7. CASE KL02!PpStore
  <2>1. bsp_measurement'.proximity_pilot = reading /\ reading = coding
    BY <1>7 DEF KL02!PpStore, KL02!TypeOK, ReadingFits, PpRunning
  <2> QED BY <1>7, <2>1 DEF KL02!PpStore, KL02AmpacityInv, PpRunning
<1>8. CASE KL02!PpRemember
  BY <1>8 DEF KL02!PpRemember, KL02AmpacityInv, PpRunning
<1>9. CASE KL02!DutyRead
  <2>1. bsp_measurement'.proximity_pilot = bsp_measurement.proximity_pilot
    BY <1>9 DEF KL02!DutyRead, KL02!TypeOK
  <2> QED BY <1>1, <1>9, <2>1 DEF KL02!DutyRead
<1>10. CASE KL02!Handler \/ KL02!Reset
  BY <1>1, <1>10
     DEF KL02!Handler, KL02!HandleEnable, KL02!HandleSetCpState,
         KL02!SetCpState, KL02!EnableDriver, KL02!DisableDriver,
         KL02!ForgetCpState, KL02!ForgetAmpacity, KL02!ResetCpState,
         KL02!ResetAmpacity, KL02!SetModule, KL02!Reset
<1> QED BY <1>3, <1>4, <1>5, <1>6, <1>7, <1>8, <1>9, <1>10, <1>11 DEF KL02!Reader

(* A step of the reader leaves resistors and commands alone.               *)
LEMMA ReaderApart ==
    ASSUME KL02!Reader
    PROVE  UNCHANGED <<KL02!stateVars, todo, KL02!failures>>
  BY DEF KL02!Reader, KL02!CpRead, KL02!CpChange, KL02!CpRemember,
         KL02!PpInvalid, KL02!PpRead, KL02!PpValid, KL02!PpCompare,
         KL02!PpChange, KL02!PpLog, KL02!PpStore, KL02!PpRemember, KL02!DutyRead

(* Which step that is decides whether a command disables.                  *)
LEMMA KL02DisablingFirst ==
    KL02!Disabling <=> First(todo) \in {"disable_driver", "forget_cp_state",
                                        "forget_ampacity", "reset_cp_state",
                                        "reset_ampacity", "disable_module"}
  BY DEF KL02!Disabling, First

(* The resistors follow the commands.                                      *)
LEMMA KL02PresentsNext ==
    ASSUME KL02!TypeOK, todo \in EvPrograms, KL02PresentsInv,
           KL02!Reader \/ KL02!Handler \/ KL02!Reset
    PROVE  KL02PresentsInv'
<1> DEFINE DisableSteps == Late \cup {"disable_driver"}
<1> USE DEF Late, Forgetting
<1>1. CASE KL02!Reader
  BY <1>1, ReaderApart
     DEF KL02PresentsInv, KL02!PresentsRequested, KL02!Disabling, First
<1>2. CASE KL02!Reset
  BY <1>2
     DEF KL02!Reset, KL02PresentsInv, KL02!PresentsRequested, KL02!Disabling,
         First
<1>3. ASSUME KL02!Handler PROVE KL02PresentsInv'
  <2>0. /\ todo' \in EvPrograms
        /\ todo = <<>> <=> First(todo) = "none"
        /\ todo' = <<>> <=> First(todo)' = "none"
        /\ todo' = <<"set_requested">> => First(todo)' = "set_requested"
        /\ KL02!Disabling <=> First(todo) \in DisableSteps
        /\ KL02!Disabling' <=> First(todo)' \in DisableSteps
    <3>1. todo' \in EvPrograms
      BY <1>3, HandlerProgram
    <3>2. KL02!Disabling' <=> First(todo)' \in DisableSteps
      BY DEF KL02!Disabling, First
    <3> QED BY <3>1, <3>2, EvProgramsType, KL02DisablingFirst DEF First
  <2> USE DEF KL02PresentsInv, KL02!PresentsRequested
  <2>1. ASSUME First(todo)' \in {"set_requested", "set_A"},
               todo' # <<"set_requested">>
        PROVE  KL02PresentsInv'
    BY <2>0, <2>1
  <2>2. ASSUME First(todo)' \in DisableSteps, unsent' \/ presented' = "A"
        PROVE  KL02PresentsInv'
    BY <2>0, <2>2
  <2>3. ASSUME First(todo)' \in {"enable_driver", "enable_module"},
               unsent' \/ lost' \/ presented' = requested_cp_state'
        PROVE  KL02PresentsInv'
    BY <2>0, <2>3
  <2>4. ASSUME First(todo)' = "none",
               unsent' \/
               IF is_enabled'
               THEN failed' \/ lost' \/ presented' = requested_cp_state'
                              ELSE enable_failed' \/ presented' = "A"
        PROVE  KL02PresentsInv'
    BY <2>0, <2>4
  <2>5. CASE KL02!HandleEnable
    BY <2>1, <2>5, TupleSteps DEF KL02!HandleEnable, First
  <2>6. CASE KL02!HandleSetCpState
    <3>1. CASE is_enabled
      BY <2>0, <2>6, <3>1, TupleSteps DEF KL02!HandleSetCpState, First
    <3>2. CASE ~is_enabled
      BY <2>0, <2>4, <2>6, <3>2 DEF KL02!HandleSetCpState
    <3> QED BY <3>1, <3>2
  <2>7. CASE KL02!SetCpState
    <3>1. CASE todo' = <<>> /\ failed' = TRUE /\ enable_failed' = TRUE
      BY <2>0, <2>4, <3>1
    <3>2. CASE KL02!Does("set_A") /\ (unsent' \/ presented' = "A") /\ KL02!Done
      BY <2>2, <3>2, KL02StepDone, EvFollows DEF KL02!Does
    <3>3. CASE /\ KL02!Does("set_requested") /\ KL02!Done
               /\ unsent' \/ presented' = requested_cp_state
               /\ UNCHANGED <<is_enabled, requested_cp_state>>
      <4>1. /\ First(todo) = "set_requested"
            /\ \/ todo = <<"set_requested">> /\ First(todo)' = "none"
               \/ First(todo)' = "enable_driver"
        BY <3>3, KL02StepDone, EvFollows DEF KL02!Does
      <4>2. CASE todo = <<"set_requested">> /\ First(todo)' = "none"
        BY <2>4, <3>3, <4>2
      <4>3. CASE First(todo)' = "enable_driver"
        BY <2>3, <3>3, <4>3
      <4> QED BY <4>1, <4>2, <4>3
    <3>4. ~(KL02!Does("set_A") /\ KL02!Does("set_requested"))
      BY DEF KL02!Does
    <3> QED BY <2>7, <3>1, <3>2, <3>3, <3>4 DEF KL02!SetCpState
  <2>8. CASE KL02!EnableDriver
    BY <2>3, <2>8, KL02StepDone, EvFollows DEF KL02!EnableDriver, KL02!Does
  <2>9. CASE KL02!DisableDriver
    <3>1. First(todo) = "disable_driver" /\ (unsent' \/ presented' = "A")
      BY <2>0, <2>9 DEF KL02!DisableDriver, KL02!Does, First
    <3>2. First(todo)' \in {"forget_cp_state", "reset_cp_state"}
      <4>1. CASE driver_enabled
        BY <2>9, <4>1, KL02DisableForgets
      <4>2. CASE ~driver_enabled
        BY <2>9, <4>2, KL02StepDone, EvFollows
           DEF KL02!DisableDriver, KL02!Done, KL02!Does
      <4> QED BY <4>1, <4>2
    <3> QED BY <2>2, <3>1, <3>2
  <2>10. CASE KL02!ForgetCpState \/ KL02!ForgetAmpacity \/ KL02!ResetCpState
              \/ KL02!ResetAmpacity
    <3>1. UNCHANGED <<presented, unsent>> /\ KL02!Done /\ todo # <<>>
      BY <2>10
         DEF KL02!ForgetCpState, KL02!ForgetAmpacity, KL02!ResetCpState,
             KL02!ResetAmpacity, KL02!Does
    <3>2. First(todo) \in {"forget_cp_state", "forget_ampacity",
                           "reset_cp_state", "reset_ampacity"}
      BY <2>10
         DEF KL02!ForgetCpState, KL02!ForgetAmpacity, KL02!ResetCpState,
             KL02!ResetAmpacity, KL02!Does, First
    <3>3. First(todo)' = First(Tail(todo))
      BY <3>1 DEF KL02!Done, First
    <3>4. First(todo)' \in DisableSteps
      BY <3>1, <3>2, <3>3, EvFollows
    <3> QED BY <2>0, <2>2, <3>1, <3>2, <3>4
  <2>11. CASE KL02!SetModule
    <3>1. CASE KL02!Does("enable_module")
      <4>1. First(todo) = "enable_module" /\ First(todo)' = "none"
        BY <2>11, <3>1, KL02StepDone, EvFollows DEF KL02!SetModule, KL02!Does
      <4>2. is_enabled' /\ UNCHANGED <<presented, requested_cp_state, unsent, lost>>
        BY <2>11, <3>1 DEF KL02!SetModule
      <4> QED BY <2>4, <4>1, <4>2
    <3>2. CASE KL02!Does("disable_module")
      <4>1. First(todo) = "disable_module" /\ First(todo)' = "none"
        BY <2>11, <3>2, KL02StepDone, EvFollows DEF KL02!SetModule, KL02!Does
      <4>2. ~is_enabled' /\ UNCHANGED <<presented, unsent>>
        BY <2>11, <3>2 DEF KL02!SetModule, KL02!Does
      <4> QED BY <2>0, <2>4, <4>1, <4>2
    <3> QED BY <2>11, <3>1, <3>2 DEF KL02!SetModule
  <2> QED BY <1>3, <2>5, <2>6, <2>7, <2>8, <2>9, <2>10, <2>11 DEF KL02!Handler
<1> QED BY <1>1, <1>2, <1>3

(* The reader keeps the states of driver and module together.              *)
LEMMA ReaderTracks ==
    ASSUME TrackedInv, KL02Calm, KL02!Reader
    PROVE  driver_enabled /\ TrackedWhileEnabled'
<1>0. driver_enabled /\ TrackedWhileEnabled
  <2>1. KL02!Idle => driver_enabled
    BY DEF KL02!Reader, KL02!CpRead, KL02!CpChange, KL02!CpRemember,
           KL02!PpInvalid, KL02!PpRead, KL02!PpValid, KL02!PpCompare,
           KL02!PpChange, KL02!PpLog, KL02!PpStore, KL02!PpRemember, KL02!DutyRead, KL02!Evaluates, KL02!Idle
  <2> QED BY <2>1 DEF TrackedInv, KL02ForgottenWhenDisabled
<1>1. First(todo)' = First(todo)
  BY ReaderApart DEF First
<1> USE DEF TrackedWhileEnabled, KL02Tracked, Changing
<1>2. CASE KL02!CpRead
  <2>1. PICK r \in CpReadings :
            LET s   == KL02!CpState(r[1], r[2], TRUE, FALSE)
                err == KL02!CpError(r[1], r[2], TRUE, FALSE)
            IN  /\ "defects" \in env \/ err = "None"
                /\ reading' = s
                /\ previous_cp_state' = IF err # "None" THEN s ELSE previous_cp_state
                /\ evaluated' = IF err # "None" THEN evaluated ELSE s
                /\ step' = IF err = "None" /\ s # previous_cp_state
                           THEN "cp_change" ELSE "idle"
    BY <1>2 DEF KL02!CpRead
  <2>2. "defects" \notin env
    BY DEF KL02Calm
  <2>3. /\ UNCHANGED <<previous_cp_state, cp_current_state>> /\ evaluated' = reading'
        /\ step' = IF reading' # previous_cp_state THEN "cp_change" ELSE "idle"
    BY <1>2, <2>1, <2>2 DEF KL02!CpRead
  <2>4. step = "idle"
    BY <1>2 DEF KL02!CpRead, KL02!Evaluates, KL02!Idle
  <2> QED BY <1>0, <1>1, <2>3, <2>4
<1>3. CASE KL02!CpChange
  BY <1>0, <1>1, <1>3 DEF KL02!CpChange
<1>4. CASE KL02!CpRemember
  BY <1>0, <1>1, <1>4 DEF KL02!CpRemember
<1>5. CASE KL02!PpInvalid \/ KL02!PpRead \/ KL02!PpValid \/ KL02!PpCompare
           \/ KL02!PpChange \/ KL02!PpLog \/ KL02!PpStore
           \/ KL02!PpRemember \/ KL02!DutyRead
  <2>1. /\ UNCHANGED <<KL02!cpVars, evaluated>>
        /\ step \notin {"cp_change", "cp_remember"}
        /\ step' \notin {"cp_change", "cp_remember"}
    BY <1>5
       DEF KL02!PpInvalid, KL02!PpRead, KL02!PpValid, KL02!PpCompare,
           KL02!PpChange, KL02!PpLog, KL02!PpStore, KL02!PpRemember, KL02!DutyRead, KL02!Evaluates, KL02!Idle
  <2> QED BY <1>0, <1>1, <2>1
<1> QED BY <1>0, <1>2, <1>3, <1>4, <1>5 DEF KL02!Reader

(* A step of a command that touches none of them leaves them together.     *)
LEMMA Untouched ==
    ASSUME TrackedInv, UNCHANGED <<KL02!cpVars, driver_enabled, step, reading,
           evaluated>>,
           KL02Calm, KL02Calm',
           \/ First(todo)' = First(todo)
           \/ /\ First(todo) \notin Forgetting
              /\ First(todo)' \notin Late
           \/ ~driver_enabled /\ First(todo)' = "disable_module"
              /\ First(todo) \notin Forgetting
           \/ ~driver_enabled /\ First(todo) = "forget_ampacity"
              /\ First(todo)' = "reset_cp_state"
    PROVE  TrackedInv'
  BY DEF TrackedInv, TrackedWhileEnabled, KL02ForgottenWhenDisabled,
         KL02Tracked, Changing, KL02!Idle, Late, Forgetting

(* So do those that do.                                                    *)
LEMMA HandlerTracks ==
    ASSUME todo \in EvPrograms, TrackedInv, KL02Calm, KL02Calm', KL02!Handler
    PROVE  TrackedInv'
<1> USE DEF Late, Forgetting
<1>1. CASE KL02!HandleEnable
  <2>1. First(todo) = "none" /\ First(todo)' \in {"set_requested", "set_A"}
    BY <1>1, TupleSteps DEF KL02!HandleEnable, First
  <2> QED BY <1>1, <2>1, Untouched DEF KL02!HandleEnable
<1>2. CASE KL02!HandleSetCpState
  <2>1. First(todo) = "none" /\ First(todo)' \in {"none", "set_requested"}
    BY <1>2, TupleSteps DEF KL02!HandleSetCpState, First
  <2> QED BY <1>2, <2>1, Untouched DEF KL02!HandleSetCpState
<1>3. CASE KL02!SetCpState
  <2>1. First(todo) \in {"set_requested", "set_A"}
    BY <1>3 DEF KL02!SetCpState, KL02!Does, First
  <2>2. First(todo)' \in {"none", "enable_driver", "disable_driver"}
    <3>1. CASE KL02!Done
      BY <1>3, <3>1, KL02StepDone, EvFollows DEF KL02!SetCpState, KL02!Does
    <3>2. CASE todo' = <<>>
      BY <3>2 DEF First
    <3> QED BY <1>3, <3>1, <3>2 DEF KL02!SetCpState
  <2> QED BY <1>3, <2>1, <2>2, Untouched DEF KL02!SetCpState
<1>4. CASE KL02!EnableDriver
  <2>1. First(todo) = "enable_driver" /\ First(todo)' = "enable_module"
    BY <1>4, KL02StepDone, EvFollows DEF KL02!EnableDriver, KL02!Does
  <2>2. CASE driver_enabled
    BY <1>4, <2>1, <2>2, Untouched DEF KL02!EnableDriver
  <2>3. CASE ~driver_enabled
    <3>1. /\ previous_cp_state \in {KL02!OutOfRange, "PowerOn"}
          /\ cp_current_state = "PowerOn" /\ step = "idle"
      BY <2>1, <2>3 DEF TrackedInv, KL02ForgottenWhenDisabled, KL02!Idle
    <3> QED BY <1>4, <2>1, <2>3, <3>1
               DEF KL02!EnableDriver, TrackedInv, TrackedWhileEnabled,
                   KL02Tracked, Changing
  <2> QED BY <2>2, <2>3
<1>5. CASE KL02!DisableDriver
  <2>1. KL02!Idle /\ KL02!Idle' /\ driver_enabled' = FALSE /\ UNCHANGED KL02!cpVars
        /\ First(todo) = "disable_driver"
    BY <1>5 DEF KL02!DisableDriver, KL02!Idle, KL02Calm, KL02!Does, First
  <2>2. CASE driver_enabled
    <3>1. First(todo)' = "forget_cp_state"
      BY <1>5, <2>2, KL02DisableForgets
    <3> QED BY <2>1, <3>1 DEF TrackedInv, KL02ForgottenWhenDisabled
  <2>3. CASE ~driver_enabled
    <3>1. First(todo)' = "reset_cp_state"
      BY <1>5, <2>3, KL02StepDone, EvFollows
         DEF KL02!DisableDriver, KL02!Done, KL02!Does
    <3> QED BY <2>1, <2>3, <3>1 DEF TrackedInv, KL02ForgottenWhenDisabled
  <2> QED BY <2>2, <2>3
<1>6. CASE KL02!ForgetCpState
  <2>1. First(todo) = "forget_cp_state" /\ First(todo)' = "forget_ampacity"
    BY <1>6, KL02StepDone, EvFollows DEF KL02!ForgetCpState, KL02!Does
  <2>2. ~driver_enabled
    BY <2>1 DEF TrackedInv, TrackedWhileEnabled
  <2> QED BY <1>6, <2>1, <2>2
             DEF KL02!ForgetCpState, TrackedInv, KL02ForgottenWhenDisabled,
                 KL02!Idle
<1>7. CASE KL02!ForgetAmpacity
  <2>1. First(todo) = "forget_ampacity" /\ First(todo)' = "reset_cp_state"
    BY <1>7, KL02StepDone, EvFollows DEF KL02!ForgetAmpacity, KL02!Does
  <2>2. ~driver_enabled
    BY <2>1 DEF TrackedInv, TrackedWhileEnabled
  <2> QED BY <1>7, <2>1, <2>2, Untouched DEF KL02!ForgetAmpacity
<1>8. CASE KL02!ResetCpState
  <2>1. First(todo) = "reset_cp_state" /\ First(todo)' = "reset_ampacity"
    BY <1>8, KL02StepDone, EvFollows DEF KL02!ResetCpState, KL02!Does
  <2>2. ~driver_enabled
    BY <2>1 DEF TrackedInv, TrackedWhileEnabled
  <2> QED BY <1>8, <2>1, <2>2
             DEF KL02!ResetCpState, TrackedInv, KL02ForgottenWhenDisabled,
                 KL02!Idle
<1>9. CASE KL02!ResetAmpacity
  <2>1. First(todo) = "reset_ampacity" /\ First(todo)' = "disable_module"
    BY <1>9, KL02StepDone, EvFollows DEF KL02!ResetAmpacity, KL02!Does
  <2>2. ~driver_enabled
    BY <2>1 DEF TrackedInv, TrackedWhileEnabled
  <2> QED BY <1>9, <2>1, <2>2, Untouched DEF KL02!ResetAmpacity
<1>10. CASE KL02!SetModule
  <2>1. First(todo) \in {"enable_module", "disable_module"} /\ First(todo)' = "none"
    BY <1>10, KL02StepDone, EvFollows DEF KL02!SetModule, KL02!Does
  <2> QED BY <1>10, <2>1, Untouched DEF KL02!SetModule
<1> QED BY <1>1, <1>2, <1>3, <1>4, <1>5, <1>6, <1>7, <1>8, <1>9, <1>10
           DEF KL02!Handler

(* The invariant holds at first ...                                        *)
LEMMA KL02InvInit == KL02!EvParameters /\ KL02!Init => KL02Inv
<1> SUFFICES ASSUME KL02!EvParameters, KL02!Init PROVE KL02Inv
  OBVIOUS
<1> USE DEF KL02!Init
<1>1. <<>> \in Seq(KL02!Steps)
  OBVIOUS
<1>2. KL02!TypeOK
  <2>1. duty_cycle \in KL02!Duties /\ requested_cp_state \in EvCpStates \cup {"A"}
    BY DEF KL02!Duties
  <2>2. bsp_measurement \in [proximity_pilot : KL02!Codings \cup {"unset"},
                             cp_pwm_duty_cycle : KL02!Duties \cup {-1}]
    BY DEF KL02!Duties
  <2> QED BY <1>1, <2>1, <2>2 DEF KL02!TypeOK
<1>3. ReadingFits /\ todo \in EvPrograms /\ KL02AmpacityInv
  BY DEF ReadingFits, PpRunning, EvPrograms, Rests, KL02AmpacityInv
<1>4. KL02DutyInv
  BY DEF KL02DutyInv, KL02!DutyError, DutyCurrent
<1>5. First(todo) = "none"
  BY DEF First
<1>6. KL02PresentsInv /\ TrackedInv
  BY <1>5, TupleSteps
     DEF KL02PresentsInv, KL02!PresentsRequested, KL02!Disabling, TrackedInv,
         KL02ForgottenWhenDisabled, KL02!Idle
<1> QED BY <1>2, <1>3, <1>4, <1>6 DEF KL02Inv

(* ... and every step keeps it.                                            *)
LEMMA KL02InvNext ==
    KL02!EvParameters /\ KL02Inv /\ [KL02!Next]_(KL02!vars) => KL02Inv'
<1> SUFFICES ASSUME KL02!EvParameters, KL02Inv, [KL02!Next]_(KL02!vars) PROVE KL02Inv'
  OBVIOUS
<1>0. /\ KL02!TypeOK /\ ReadingFits /\ todo \in EvPrograms
      /\ KL02DutyInv /\ KL02AmpacityInv /\ KL02PresentsInv /\ TrackedInv
  BY DEF KL02Inv
<1>1. CASE UNCHANGED KL02!vars
  <2>1. KL02!TypeOK' /\ ReadingFits' /\ todo' \in EvPrograms
    BY <1>0, <1>1 DEF KL02!vars, KL02!TypeOK, ReadingFits, PpRunning,
                         KL02!DutyError
  <2>2. KL02DutyInv' /\ KL02AmpacityInv'
    BY <1>0, <1>1
       DEF KL02!vars, KL02DutyInv, KL02!DutyError, DutyCurrent,
           KL02AmpacityInv, PpRunning
  <2>3. KL02PresentsInv' /\ TrackedInv'
    BY <1>0, <1>1
       DEF KL02!vars, KL02PresentsInv, KL02!PresentsRequested, KL02!Disabling,
           First, TrackedInv, TrackedWhileEnabled, KL02ForgottenWhenDisabled,
           KL02Tracked, Changing, KL02!Idle, KL02Calm
  <2> QED BY <2>1, <2>2, <2>3 DEF KL02Inv
<1>2. ASSUME KL02!Reader \/ KL02!Handler \/ KL02!Reset, env' = env PROVE KL02Inv'
  <2>1. KL02!TypeOK' /\ ReadingFits'
    BY <1>0, <1>2, ReaderType, KL02HandlerType
  <2>2. todo' \in EvPrograms
    BY <1>0, <1>2, HandlerProgram, ReaderApart DEF KL02!Reset
  <2>3. KL02DutyInv' /\ KL02AmpacityInv' /\ KL02PresentsInv'
    BY <1>0, <1>2, DutyNext, KL02AmpacityNext, KL02PresentsNext
  <2>4. TrackedInv'
    <3>1. KL02Calm' <=> KL02Calm
      BY <1>2 DEF KL02Calm
    <3> SUFFICES ASSUME KL02Calm, KL02Calm' PROVE TrackedInv'
      BY <3>1 DEF TrackedInv
    <3>2. CASE KL02!Reader
      <4>1. driver_enabled' /\ TrackedWhileEnabled'
        BY <1>0, <3>2, ReaderTracks, ReaderApart
      <4> QED BY <4>1 DEF TrackedInv
    <3>3. CASE KL02!Handler
      BY <1>0, <3>3, HandlerTracks
    <3>4. CASE KL02!Reset
      <4>1. First(todo)' = First(todo)
        BY <3>4 DEF KL02!Reset, First
      <4> QED BY <1>0, <3>4, <4>1, Untouched DEF KL02!Reset
    <3> QED BY <1>2, <3>2, <3>3, <3>4
  <2> QED BY <2>1, <2>2, <2>3, <2>4 DEF KL02Inv
<1> QED BY <1>1, <1>2 DEF KL02!Next, KL02!Stopped

(* What follows of it.                                                     *)
LEMMA KL02Safe ==
    ASSUME KL02Inv
    PROVE  /\ KL02!TypeOK /\ KL02!DutyErrorEnds /\ KL02!MeasurementCurrent
           /\ KL02!PresentsRequested /\ KL02!CpStateTracked
<1>1. KL02!TypeOK
  BY DEF KL02Inv
<1>2. KL02!DutyErrorEnds
  BY DEF KL02Inv, KL02DutyInv, KL02!DutyErrorEnds
<1>3. KL02!MeasurementCurrent
  BY DEF KL02Inv, KL02AmpacityInv, KL02DutyInv, DutyCurrent,
         KL02!MeasurementCurrent, KL02!Idle, PpRunning
<1>4. KL02!PresentsRequested
  BY DEF KL02Inv, KL02PresentsInv
<1>5. KL02!CpStateTracked
  BY DEF KL02Inv, TrackedInv, KL02Calm, TrackedWhileEnabled, Changing,
         KL02Tracked, KL02!CpStateTracked, KL02!Idle
<1> QED BY <1>1, <1>2, <1>3, <1>4, <1>5

-----------------------------------------------------------------------------
(* MCSTesterEV.                                                            *)

(* What the query thread may have left of a round.                         *)
Rounds ==
    {<<>>, <<"pp_check", "cp">>, <<"pp_compare", "cp">>, <<"pp_change", "cp">>,
     <<"pp_look", "cp">>, <<"pp_store", "cp">>, <<"pp_remember", "cp">>,
     <<"cp">>, <<"cp_change">>, <<"duty_change">>,
     <<"cp_change", "duty_change">>}

(* Its next step, and whether a changed duty cycle will be published.      *)
phase   == First(round)
pending == round \in {<<"duty_change">>, <<"cp_change", "duty_change">>}

(* The ampacity the driver remembers is the one published, except between  *)
(* the two halves of on_pp_change; after them it is the one measured.      *)
MCUAmpacityInv ==
    /\ \/ previous_ampacity \in {"unset", bsp_measurement.proximity_pilot}
       \/ phase = "pp_remember"
    /\ phase \in {"pp_remember", "cp", "cp_change", "duty_change"} =>
          bsp_measurement.proximity_pilot = voltages.id
    /\ MCU!Idle /\ evaluated # {} => bsp_measurement.proximity_pilot = voltages.id

(* What the MCU presents when set_cp_state has succeeded.                  *)
MCUPresentsInv ==
    /\ MCU!PresentsRequested
    /\ todo = <<"set_requested">> => is_enabled
    /\ First(todo) \in {"enable_driver", "enable_module"} =>
          unsent \/ presented = requested_cp_state
    /\ MCU!Disabling => unsent \/ presented = "A"

(* When what is measured makes sense: the removal of a plug changes the    *)
(* published duty cycle before the one of the driver.                      *)
MCUCalm == env \subseteq {"partial"}

MCUDutyInv ==
    \/ bsp_measurement.cp_pwm_duty_cycle = duty_cycle
    \/ pending
    \/ /\ phase \in {"pp_store", "pp_remember", "cp"}
       /\ voltages.id = "None"
       /\ bsp_measurement.cp_pwm_duty_cycle = 100

(* While a driver is enabled its previous state is the one the module has, *)
(* except while a change is under way, and it is what the voltages of the  *)
(* last round mean; the two memories of the ampacity agree when the event  *)
(* is made.                                                                *)
MCUTracked == \/ cp_current_state = previous_cp_state
              \/ cp_current_state = "PowerOn" /\ previous_cp_state = "Disconnected"

StateInv ==
    /\ phase # "cp_change" => MCUTracked
    /\ phase \in {"none", "cp_change", "duty_change"} =>
          \A v \in evaluated : previous_cp_state = MCU!Meaning(v)
    /\ phase = "cp_change" => /\ event = previous_cp_state
                              /\ event = "A" => pp_ampacity # "None"

CodingInv ==
    /\ previous_ampacity \in {"unset", pp_ampacity} \/ phase = "pp_remember"
    /\ phase = "cp" => previous_ampacity = voltages.id
    /\ phase \in {"pp_remember", "cp"} => pp_ampacity = voltages.id
    /\ ~MCU!Idle => voltages \in MCU!Consistent

(* A driver that was disabled has forgotten both, and so has the module.   *)
MCUForgottenWhenDisabled ==
    /\ MCU!Idle
    /\ First(todo) # "forget_cp_state" =>
          previous_cp_state \in {"Disconnected", "PowerOn"}
    /\ First(todo) \notin {"forget_cp_state", "forget_ampacity"} =>
          previous_ampacity = "unset"
    /\ First(todo) \notin Forgetting => cp_current_state = "PowerOn"

CalmInv ==
    /\ MCUDutyInv
    /\ IF driver_enabled THEN StateInv /\ CodingInv /\ First(todo) \notin Late
                         ELSE MCUForgottenWhenDisabled

MCUInv == /\ MCU!TypeOK /\ round \in Rounds /\ todo \in EvPrograms
          /\ MCUAmpacityInv /\ MCUPresentsInv /\ (MCUCalm => CalmInv)

USE DEF MCU!driverVars, MCU!moduleVars, MCU!roundVars, MCU!failures

-----------------------------------------------------------------------------
(* The steps of a round.                                                   *)

(* Lists put together.                                                     *)
LEMMA Concatenations ==
    ASSUME NEW a, NEW b
    PROVE  /\ <<>> \o <<a>> = <<a>> /\ <<a>> \o <<>> = <<a>>
           /\ <<a>> \o <<b>> = <<a, b>> /\ <<a, b>> \o <<>> = <<a, b>>
           /\ <<>> \o <<>> = <<>>
<1> DEFINE S == {a, b}
<1>1. <<a>> \in Seq(S) /\ <<b>> \in Seq(S) /\ <<a, b>> \in Seq(S) /\ <<>> \in Seq(S)
  OBVIOUS
<1>2. <<a>> \o <<b>> = <<a, b>>
  <2>1. Len(<<a>>) = 1 /\ Len(<<b>>) = 1 /\ Len(<<a, b>>) = 2
    OBVIOUS
  <2>2. \A i \in 1 .. 2 : (<<a>> \o <<b>>)[i] = <<a, b>>[i]
    OBVIOUS
  <2>3. <<a>> \o <<b>> \in Seq(S) /\ Len(<<a>> \o <<b>>) = 2
    BY <1>1, <2>1, ConcatProperties
  <2> HIDE DEF S
  <2> QED BY <1>1, <2>1, <2>2, <2>3, SeqEqual
<1> HIDE DEF S
<1>3. \A s \in Seq(S) : s \o <<>> = s /\ <<>> \o s = s
  BY ConcatEmptySeq
<1> QED BY <1>1, <1>2, <1>3

(* A round begins with the step that is next, ...                          *)
LEMMA RoundBegins ==
    ASSUME round \in Rounds
    PROVE  /\ MCU!Idle <=> phase = "none"
           /\ \A s \in MCU!RoundSteps : MCU!At(s) <=> phase = s
           /\ phase \in MCU!RoundSteps \cup {"none"}
           /\ pending => phase \in {"cp_change", "duty_change"}
<1> DEFINE H == Head(round)
<1>1. \/ round = <<>> /\ ~pending
      \/ /\ round # <<>> /\ H \in MCU!RoundSteps
         /\ pending => H \in {"cp_change", "duty_change"}
  BY TupleSteps DEF Rounds, MCU!RoundSteps, pending
<1>2. "none" \notin MCU!RoundSteps
  BY DEF MCU!RoundSteps
<1> HIDE DEF H
<1>3. phase = IF round = <<>> THEN "none" ELSE H
  BY DEF phase, First, H
<1>4. \A s : MCU!At(s) <=> round # <<>> /\ H = s
  BY DEF MCU!At, H
<1> QED BY <1>1, <1>2, <1>3, <1>4 DEF MCU!Idle

(* ... which is followed by what it says and the rest.                     *)
LEMMA AmpacityRound ==
    ASSUME round \in Rounds,
           NEW s \in {"pp_check", "pp_compare", "pp_change", "pp_look",
                      "pp_store", "pp_remember"}, MCU!At(s),
           NEW q, MCU!Continue(q)
    PROVE  /\ q = <<>> => round' = <<"cp">>
           /\ \A x : q = <<x>> => round' = <<x, "cp">>
<1>1. round = <<s, "cp">>
  BY TupleSteps DEF Rounds, MCU!At
<1>2. round' = q \o <<"cp">>
  BY <1>1, TupleSteps DEF MCU!Continue
<1> QED BY <1>2, Concatenations

(* What a step of the query thread leaves of the round.                    *)
LEMMA RoundNext ==
    ASSUME round \in Rounds, MCU!QueryThread
    PROVE  /\ round' \in Rounds
           /\ MCU!GetVoltages => phase = "none" /\ phase' = "pp_check"
           /\ MCU!PpCheck => /\ phase = "pp_check"
                             /\ phase' \in {"pp_compare", "pp_change"}
           /\ MCU!PpCompare =>
                 /\ phase = "pp_compare"
                 /\ phase' = IF previous_ampacity = voltages.id THEN "cp"
                                                                ELSE "pp_change"
           /\ MCU!PpChange => /\ phase = "pp_change"
                              /\ phase' \in {"pp_look", "pp_store"}
           /\ MCU!PpLook => phase = "pp_look" /\ phase' = "pp_store"
           /\ MCU!PpStore => phase = "pp_store" /\ phase' = "pp_remember"
           /\ MCU!PpRemember => phase = "pp_remember" /\ phase' = "cp"
           /\ MCU!CpEvaluate =>
                 /\ phase = "cp"
                 /\ phase' = IF previous_cp_state # event' THEN "cp_change"
                             ELSE IF duty_cycle' # duty_cycle THEN "duty_change"
                             ELSE "none"
                 /\ duty_cycle' # duty_cycle => pending'
           /\ MCU!CpChange => /\ phase = "cp_change"
                              /\ phase' = IF pending THEN "duty_change" ELSE "none"
                              /\ pending => pending'
           /\ MCU!DutyChange => phase = "duty_change" /\ phase' = "none"
<1>0. /\ \A x, y : First(<<x, y>>) = x
      /\ \A x : First(<<x>>) = x
      /\ First(<<>>) = "none"
  BY TupleSteps DEF First
<1>1. phase = First(round) /\ phase' = First(round')
  BY DEF phase
<1>2. \A s : MCU!At(s) => phase = s
  BY DEF phase, First, MCU!At
<1>3. ASSUME MCU!GetVoltages
      PROVE  round' \in Rounds /\ phase = "none" /\ phase' = "pp_check"
  <2>1. round = <<>> /\ round' = <<"pp_check", "cp">>
    BY <1>3 DEF MCU!GetVoltages, MCU!Idle
  <2>2. round' \in Rounds
    BY <2>1 DEF Rounds
  <2> QED BY <1>0, <1>1, <2>1, <2>2
<1>4. ASSUME MCU!PpCheck
      PROVE  /\ round' \in Rounds
             /\ phase = "pp_check" /\ phase' \in {"pp_compare", "pp_change"}
  <2>1. /\ round' \in {<<"pp_compare", "cp">>, <<"pp_change", "cp">>}
        /\ phase = "pp_check"
    BY <1>2, <1>4, AmpacityRound DEF MCU!PpCheck
  <2>2. round' \in Rounds
    BY <2>1 DEF Rounds
  <2> QED BY <1>0, <1>1, <2>1, <2>2
<1>5. ASSUME MCU!PpCompare
      PROVE  /\ round' \in Rounds /\ phase = "pp_compare"
             /\ phase' = IF previous_ampacity = voltages.id THEN "cp" ELSE "pp_change"
  <2>1. /\ round' = IF previous_ampacity = voltages.id THEN <<"cp">>
                                                       ELSE <<"pp_change", "cp">>
        /\ phase = "pp_compare"
    BY <1>2, <1>5, AmpacityRound DEF MCU!PpCompare
  <2>2. round' \in Rounds
    BY <2>1 DEF Rounds
  <2> QED BY <1>0, <1>1, <2>1, <2>2
<1>6. ASSUME MCU!PpChange
      PROVE  /\ round' \in Rounds
             /\ phase = "pp_change" /\ phase' \in {"pp_look", "pp_store"}
  <2>1. round' \in {<<"pp_look", "cp">>, <<"pp_store", "cp">>} /\ phase = "pp_change"
    BY <1>2, <1>6, AmpacityRound DEF MCU!PpChange
  <2>2. round' \in Rounds
    BY <2>1 DEF Rounds
  <2> QED BY <1>0, <1>1, <2>1, <2>2
<1>7. ASSUME MCU!PpLook
      PROVE  round' \in Rounds /\ phase = "pp_look" /\ phase' = "pp_store"
  <2>1. round' = <<"pp_store", "cp">> /\ phase = "pp_look"
    BY <1>2, <1>7, AmpacityRound DEF MCU!PpLook
  <2>2. round' \in Rounds
    BY <2>1 DEF Rounds
  <2> QED BY <1>0, <1>1, <2>1, <2>2
<1>8. ASSUME MCU!PpStore
      PROVE  round' \in Rounds /\ phase = "pp_store" /\ phase' = "pp_remember"
  <2>1. round' = <<"pp_remember", "cp">> /\ phase = "pp_store"
    BY <1>2, <1>8, AmpacityRound DEF MCU!PpStore
  <2>2. round' \in Rounds
    BY <2>1 DEF Rounds
  <2> QED BY <1>0, <1>1, <2>1, <2>2
<1>9. ASSUME MCU!PpRemember
      PROVE  round' \in Rounds /\ phase = "pp_remember" /\ phase' = "cp"
  <2>1. round' = <<"cp">> /\ phase = "pp_remember"
    BY <1>2, <1>9, AmpacityRound DEF MCU!PpRemember
  <2>2. round' \in Rounds
    BY <2>1 DEF Rounds
  <2> QED BY <1>0, <1>1, <2>1, <2>2
<1>10. ASSUME MCU!CpEvaluate
       PROVE  /\ round' \in Rounds /\ phase = "cp"
              /\ phase' = IF previous_cp_state # event' THEN "cp_change"
                          ELSE IF duty_cycle' # duty_cycle THEN "duty_change"
                          ELSE "none"
              /\ duty_cycle' # duty_cycle => pending'
  <2>1. round = <<"cp">> /\ Tail(round) = <<>>
    <3>1. MCU!At("cp")
      BY <1>10 DEF MCU!CpEvaluate
    <3>2. round = <<"cp">>
      BY <3>1, TupleSteps DEF MCU!At, Rounds
    <3> QED BY <3>2, TupleSteps
  <2> DEFINE c == IF previous_cp_state = event' THEN <<>> ELSE <<"cp_change">>
             d == IF duty_cycle' = duty_cycle THEN <<>> ELSE <<"duty_change">>
  <2>2. round' = (c \o d) \o <<>>
    BY <1>10, <2>1 DEF MCU!CpEvaluate, MCU!Continue
  <2>3. round' = IF previous_cp_state = event'
                 THEN IF duty_cycle' = duty_cycle THEN <<>> ELSE <<"duty_change">>
                 ELSE IF duty_cycle' = duty_cycle THEN <<"cp_change">>
                                                  ELSE <<"cp_change", "duty_change">>
    BY <2>2, Concatenations
  <2>4. round' \in Rounds
    BY <2>3 DEF Rounds
  <2>5. duty_cycle' # duty_cycle => pending'
    BY <2>3 DEF pending
  <2>6. phase = "cp"
    BY <1>2, <1>10 DEF MCU!CpEvaluate
  <2> HIDE DEF c, d
  <2> QED BY <1>0, <1>1, <2>3, <2>4, <2>5, <2>6
<1>11. ASSUME MCU!CpChange
       PROVE  /\ round' \in Rounds /\ phase = "cp_change"
              /\ phase' = IF pending THEN "duty_change" ELSE "none"
              /\ pending => pending'
  <2>1. /\ round \in {<<"cp_change">>, <<"cp_change", "duty_change">>}
        /\ phase = "cp_change" /\ round' = <<>> \o Tail(round)
    BY <1>2, <1>11, TupleSteps DEF MCU!CpChange, MCU!At, Rounds, MCU!Continue
  <2>2. CASE round = <<"cp_change">>
    <3>1. round' = <<>>
      BY <2>1, <2>2, TupleSteps, Concatenations
    <3>2. ~pending /\ round' \in Rounds
      BY <2>2, <3>1, TupleSteps DEF pending, Rounds
    <3> QED BY <1>0, <1>1, <2>1, <3>1, <3>2
  <2>3. CASE round = <<"cp_change", "duty_change">>
    <3>1. round' = <<"duty_change">>
      BY <2>1, <2>3, TupleSteps, Concatenations
    <3>2. pending /\ pending' /\ round' \in Rounds
      BY <2>3, <3>1 DEF pending, Rounds
    <3> QED BY <1>0, <1>1, <2>1, <3>1, <3>2
  <2> QED BY <2>1, <2>2, <2>3
<1>12. ASSUME MCU!DutyChange
       PROVE  round' \in Rounds /\ phase = "duty_change" /\ phase' = "none"
  <2>1. round = <<"duty_change">> /\ phase = "duty_change"
    BY <1>2, <1>12, TupleSteps DEF MCU!DutyChange, MCU!At, Rounds
  <2>2. round' = <<>>
    BY <1>12, <2>1, TupleSteps, Concatenations DEF MCU!DutyChange, MCU!Continue
  <2>3. round' \in Rounds
    BY <2>2 DEF Rounds
  <2> QED BY <1>0, <1>1, <2>1, <2>2, <2>3
<1>13. round' \in Rounds
  BY <1>3, <1>4, <1>5, <1>6, <1>7, <1>8, <1>9, <1>10, <1>11, <1>12
     DEF MCU!QueryThread
<1> QED BY <1>3, <1>4, <1>5, <1>6, <1>7, <1>8, <1>9, <1>10, <1>11, <1>12, <1>13

-----------------------------------------------------------------------------
(* The steps of the commands.                                              *)

(* A step that is done leaves the rest of its list.                        *)
LEMMA MCUStepDone ==
    ASSUME todo \in EvPrograms, NEW s, s # "none", MCU!Does(s), MCU!Done
    PROVE  /\ First(todo) = s /\ First(todo)' = First(Tail(todo))
           /\ todo' \in EvPrograms
  BY EvFollows DEF MCU!Does, MCU!Done, First

(* MCU::disable of an enabled driver forgets before the module does.       *)
LEMMA MCUDisableForgets ==
    ASSUME todo \in EvPrograms, MCU!DisableDriver, driver_enabled
    PROVE  todo' \in EvPrograms /\ First(todo)' = "forget_cp_state"
<1>1. /\ First(todo) = "disable_driver"
      /\ todo' = <<"forget_cp_state", "forget_ampacity">> \o Tail(todo)
  BY DEF MCU!DisableDriver, MCU!Does, First
<1>2. todo \in Rests
  BY <1>1, EvFollows DEF First
<1>3. todo' \in Rests /\ todo' # <<>> /\ First(todo') = "forget_cp_state"
  BY <1>1, <1>2, ForgetsFirst
<1> QED BY <1>3 DEF EvPrograms, First

(* What each step of a command is, and what it is followed by.             *)
LEMMA HandlerNext ==
    ASSUME todo \in EvPrograms, MCU!Handler
    PROVE  /\ todo' \in EvPrograms
           /\ MCU!HandleEnable \/ MCU!HandleSetCpState =>
                 /\ First(todo) = "none"
                 /\ First(todo)' \in {"none", "set_requested", "set_A"}
           /\ MCU!SetCpState =>
                 /\ First(todo) \in {"set_requested", "set_A"}
                 /\ First(todo)' \in {"none", "enable_driver", "disable_driver"}
           /\ MCU!EnableDriver => /\ First(todo) = "enable_driver"
                                  /\ First(todo)' = "enable_module"
           /\ MCU!DisableDriver =>
                 /\ First(todo) = "disable_driver"
                 /\ First(todo)' = IF driver_enabled THEN "forget_cp_state"
                                                     ELSE "reset_cp_state"
           /\ MCU!ForgetCpState => /\ First(todo) = "forget_cp_state"
                                   /\ First(todo)' = "forget_ampacity"
           /\ MCU!ForgetAmpacity => /\ First(todo) = "forget_ampacity"
                                    /\ First(todo)' = "reset_cp_state"
           /\ MCU!ResetCpState => /\ First(todo) = "reset_cp_state"
                                  /\ First(todo)' = "reset_ampacity"
           /\ MCU!ResetAmpacity => /\ First(todo) = "reset_ampacity"
                                   /\ First(todo)' = "disable_module"
           /\ MCU!SetModule => /\ First(todo) \in {"enable_module", "disable_module"}
                               /\ First(todo)' = "none"
<1>1. ASSUME MCU!HandleEnable \/ MCU!HandleSetCpState
      PROVE  /\ todo' \in EvPrograms /\ First(todo) = "none"
             /\ First(todo)' \in {"none", "set_requested", "set_A"}
  <2>1. /\ todo = <<>>
        /\ todo' \in {<<>>, <<"set_requested">>,
                      <<"set_requested", "enable_driver", "enable_module">>,
                      <<"set_A", "disable_driver", "reset_cp_state",
                        "reset_ampacity", "disable_module">>}
    BY <1>1 DEF MCU!HandleEnable, MCU!HandleSetCpState
  <2>2. todo' \in EvPrograms
    BY <2>1 DEF EvPrograms, Rests
  <2> QED BY <2>1, <2>2, TupleSteps DEF First
<1>2. ASSUME MCU!SetCpState
      PROVE  /\ todo' \in EvPrograms /\ First(todo) \in {"set_requested", "set_A"}
             /\ First(todo)' \in {"none", "enable_driver", "disable_driver"}
  <2>1. First(todo) \in {"set_requested", "set_A"} /\ (MCU!Done \/ todo' = <<>>)
        /\ todo # <<>>
    BY <1>2 DEF MCU!SetCpState, MCU!Does, First
  <2>2. CASE MCU!Done
    BY <1>2, <2>1, <2>2, MCUStepDone, EvFollows DEF MCU!SetCpState
  <2>3. CASE todo' = <<>>
    BY <2>1, <2>3 DEF First, EvPrograms, Rests
  <2> QED BY <2>1, <2>2, <2>3
<1>3. ASSUME MCU!EnableDriver
      PROVE  /\ todo' \in EvPrograms
             /\ First(todo) = "enable_driver" /\ First(todo)' = "enable_module"
  BY <1>3, MCUStepDone, EvFollows DEF MCU!EnableDriver, MCU!Does
<1>4. ASSUME MCU!DisableDriver
      PROVE  /\ todo' \in EvPrograms /\ First(todo) = "disable_driver"
             /\ First(todo)' = IF driver_enabled THEN "forget_cp_state"
                                                 ELSE "reset_cp_state"
  <2>1. First(todo) = "disable_driver" /\ todo # <<>>
    BY <1>4 DEF MCU!DisableDriver, MCU!Does, First
  <2>2. CASE driver_enabled
    BY <1>4, <2>1, <2>2, MCUDisableForgets
  <2>3. CASE ~driver_enabled
    BY <1>4, <2>1, <2>3, MCUStepDone, EvFollows DEF MCU!DisableDriver, MCU!Done
  <2> QED BY <2>2, <2>3
<1>5. ASSUME MCU!ForgetCpState
      PROVE  /\ todo' \in EvPrograms
             /\ First(todo) = "forget_cp_state" /\ First(todo)' = "forget_ampacity"
  BY <1>5, MCUStepDone, EvFollows DEF MCU!ForgetCpState, MCU!Does
<1>6. ASSUME MCU!ForgetAmpacity
      PROVE  /\ todo' \in EvPrograms
             /\ First(todo) = "forget_ampacity" /\ First(todo)' = "reset_cp_state"
  BY <1>6, MCUStepDone, EvFollows DEF MCU!ForgetAmpacity, MCU!Does
<1>7. ASSUME MCU!ResetCpState
      PROVE  /\ todo' \in EvPrograms
             /\ First(todo) = "reset_cp_state" /\ First(todo)' = "reset_ampacity"
  BY <1>7, MCUStepDone, EvFollows DEF MCU!ResetCpState, MCU!Does
<1>8. ASSUME MCU!ResetAmpacity
      PROVE  /\ todo' \in EvPrograms
             /\ First(todo) = "reset_ampacity" /\ First(todo)' = "disable_module"
  BY <1>8, MCUStepDone, EvFollows DEF MCU!ResetAmpacity, MCU!Does
<1>9. ASSUME MCU!SetModule
      PROVE  /\ todo' \in EvPrograms
             /\ First(todo) \in {"enable_module", "disable_module"}
             /\ First(todo)' = "none"
  BY <1>9, MCUStepDone, EvFollows DEF MCU!SetModule, MCU!Does
<1>10. todo' \in EvPrograms
  BY <1>1, <1>2, <1>3, <1>4, <1>5, <1>6, <1>7, <1>8, <1>9 DEF MCU!Handler
<1> QED BY <1>1, <1>2, <1>3, <1>4, <1>5, <1>6, <1>7, <1>8, <1>9, <1>10

(* The two threads leave each other's steps alone.                         *)
LEMMA Apart ==
    /\ MCU!QueryThread => /\ UNCHANGED <<todo, driver_enabled, is_enabled,
                                          MCU!failures,
                                         requested_cp_state, presented>>
                          /\ First(todo)' = First(todo)
    /\ MCU!Handler => /\ UNCHANGED <<MCU!roundVars, bsp_measurement, duty_cycle,
                                      thrown>>
                      /\ phase' = phase /\ (MCU!Idle' <=> MCU!Idle)
                      /\ (pending' <=> pending)
<1>1. MCU!QueryThread => UNCHANGED <<todo, driver_enabled, is_enabled, MCU!failures,
                                     requested_cp_state, presented>>
  BY DEF MCU!QueryThread, MCU!GetVoltages, MCU!PpCheck, MCU!PpCompare,
         MCU!PpChange, MCU!PpLook, MCU!PpStore, MCU!PpRemember, MCU!CpEvaluate,
         MCU!CpChange, MCU!DutyChange
<1>2. MCU!Handler => UNCHANGED <<MCU!roundVars, bsp_measurement, duty_cycle, thrown>>
  BY DEF MCU!Handler, MCU!HandleEnable, MCU!HandleSetCpState, MCU!SetCpState,
         MCU!EnableDriver, MCU!DisableDriver, MCU!ForgetCpState,
         MCU!ForgetAmpacity, MCU!ResetCpState, MCU!ResetAmpacity, MCU!SetModule
<1> QED BY <1>1, <1>2 DEF First, phase, MCU!Idle, pending

-----------------------------------------------------------------------------
(* Type correctness.                                                       *)

(* What is left of a round is a sequence of its steps.                     *)
LEMMA RoundsType == Rounds \subseteq Seq(MCU!RoundSteps)
<1>1. {"pp_check", "pp_compare", "pp_change", "pp_look", "pp_store",
       "pp_remember", "cp", "cp_change", "duty_change"} \subseteq MCU!RoundSteps
  BY DEF MCU!RoundSteps
<1>2. /\ <<>> \in Seq(MCU!RoundSteps)
      /\ \A a \in MCU!RoundSteps : <<a>> \in Seq(MCU!RoundSteps)
      /\ \A a, b \in MCU!RoundSteps : <<a, b>> \in Seq(MCU!RoundSteps)
  BY TupleTypes
<1> QED BY <1>1, <1>2 DEF Rounds

(* Every step of the query thread keeps the types.                         *)
LEMMA QueryType ==
    ASSUME MCU!TypeOK, round \in Rounds, MCU!QueryThread
    PROVE  MCU!TypeOK'
<1>0. round' \in Seq(MCU!RoundSteps)
  BY RoundNext, RoundsType
<1> USE DEF MCU!TypeOK
<1>1. CASE MCU!GetVoltages
  <2>1. voltages' \in MCU!Voltages
    BY <1>1 DEF MCU!GetVoltages, MCU!Consistent
  <2> QED BY <1>0, <1>1, <2>1 DEF MCU!GetVoltages
<1>2. CASE MCU!PpCheck \/ MCU!PpChange
  BY <1>0, <1>2 DEF MCU!PpCheck, MCU!PpChange
<1>3. CASE MCU!PpCompare
  <2>1. thrown' \in BOOLEAN
    BY <1>3 DEF MCU!PpCompare
  <2> QED BY <1>0, <1>3, <2>1 DEF MCU!PpCompare
<1>4. CASE MCU!PpLook
  <2>1. thrown' \in BOOLEAN
    BY <1>4 DEF MCU!PpLook
  <2>2. bsp_measurement' \in [proximity_pilot : MCU!Ampacities \cup {"unset"},
                              cp_pwm_duty_cycle : {0, 5, 100}]
    BY <1>4 DEF MCU!PpLook
  <2> QED BY <1>0, <1>4, <2>1, <2>2 DEF MCU!PpLook
<1>5. CASE MCU!PpStore
  <2>1. voltages.id \in MCU!Ampacities
    BY DEF MCU!Voltages
  <2>2. bsp_measurement' \in [proximity_pilot : MCU!Ampacities \cup {"unset"},
                              cp_pwm_duty_cycle : {0, 5, 100}]
    BY <1>5, <2>1 DEF MCU!PpStore
  <2> QED BY <1>0, <1>5, <2>1, <2>2 DEF MCU!PpStore
<1>6. CASE MCU!PpRemember
  <2>1. voltages.id \in MCU!Ampacities
    BY DEF MCU!Voltages
  <2> QED BY <1>0, <1>6, <2>1 DEF MCU!PpRemember
<1>7. CASE MCU!CpEvaluate
  <2>1. MCU!BspEvent \in MCU!Events \cup {"D"}
    BY DEF MCU!BspEvent, MCU!Events, MCU!Voltages, MCU!CeBands
  <2>2. event' \in MCU!Events
    BY <1>7, <2>1 DEF MCU!CpEvaluate, MCU!Events
  <2>3. duty_cycle' \in {0, 5, 100}
    BY <1>7 DEF MCU!CpEvaluate, MCU!SimulatedDuty
  <2>4. previous_cp_state' \in MCU!Events \cup {"PowerOn"}
    BY <1>7, <2>2 DEF MCU!CpEvaluate
  <2> QED BY <1>0, <1>7, <2>2, <2>3, <2>4 DEF MCU!CpEvaluate
<1>8. CASE MCU!CpChange
  <2>1. cp_current_state' \in MCU!Events \cup {"PowerOn"}
    BY <1>8 DEF MCU!CpChange, MCU!Events
  <2>2. thrown' \in BOOLEAN
    BY <1>8 DEF MCU!CpChange
  <2> QED BY <1>0, <1>8, <2>1, <2>2 DEF MCU!CpChange
<1>9. CASE MCU!DutyChange
  <2>1. bsp_measurement' \in [proximity_pilot : MCU!Ampacities \cup {"unset"},
                              cp_pwm_duty_cycle : {0, 5, 100}]
    BY <1>9 DEF MCU!DutyChange
  <2> QED BY <1>0, <1>9, <2>1 DEF MCU!DutyChange
<1> QED BY <1>1, <1>2, <1>3, <1>4, <1>5, <1>6, <1>7, <1>8, <1>9
           DEF MCU!QueryThread

(* So does every step of a command.                                        *)
LEMMA MCUHandlerType ==
    ASSUME MCU!TypeOK, todo \in EvPrograms, MCU!Handler
    PROVE  MCU!TypeOK'
<1>0. todo' \in Seq(MCU!CommandSteps)
  <2>1. todo' \in Seq(EvSteps)
    BY HandlerNext, EvProgramsType
  <2>2. EvSteps = MCU!CommandSteps
    BY DEF EvSteps, EnableSteps, Late, Forgetting, MCU!CommandSteps
  <2> QED BY <2>1, <2>2
<1> USE DEF MCU!TypeOK
<1>1. CASE MCU!HandleEnable
  BY <1>0, <1>1 DEF MCU!HandleEnable
<1>2. CASE MCU!HandleSetCpState
  <2>1. requested_cp_state' \in EvCpStates \cup {"A"} /\ failed' \in BOOLEAN
    BY <1>2 DEF MCU!HandleSetCpState
  <2>2. UNCHANGED <<MCU!driverVars, cp_current_state, pp_ampacity, bsp_measurement,
                    is_enabled, presented, MCU!roundVars, evaluated,
                    enable_failed, unsent, thrown>>
    BY <1>2 DEF MCU!HandleSetCpState
  <2>3. /\ {requested_cp_state, presented}' \subseteq EvCpStates \cup {"A"}
        /\ {driver_enabled, is_enabled, failed, enable_failed, unsent,
            thrown}' \subseteq BOOLEAN
    BY <2>1, <2>2
  <2> QED BY <1>0, <2>2, <2>3
<1>3. CASE MCU!SetCpState
  <2>1. /\ presented' \in EvCpStates \cup {"A"}
        /\ {failed, enable_failed, unsent}' \subseteq BOOLEAN
    BY <1>3 DEF MCU!SetCpState
  <2> QED BY <1>0, <1>3, <2>1 DEF MCU!SetCpState
<1>4. CASE MCU!EnableDriver
  <2>1. evaluated' \subseteq {voltages'}
    BY <1>4 DEF MCU!EnableDriver
  <2> QED BY <1>0, <1>4, <2>1 DEF MCU!EnableDriver
<1>5. CASE MCU!DisableDriver
  BY <1>0, <1>5 DEF MCU!DisableDriver
<1>6. CASE MCU!ForgetCpState \/ MCU!ForgetAmpacity
  BY <1>0, <1>6 DEF MCU!ForgetCpState, MCU!ForgetAmpacity, MCU!Events
<1>7. CASE MCU!ResetCpState \/ MCU!ResetAmpacity
  BY <1>0, <1>7 DEF MCU!ResetCpState, MCU!ResetAmpacity
<1>8. CASE MCU!SetModule
  <2>1. is_enabled' \in BOOLEAN /\ enable_failed' \in BOOLEAN
    BY <1>8 DEF MCU!SetModule, MCU!Does
  <2> QED BY <1>0, <1>8, <2>1 DEF MCU!SetModule
<1> QED BY <1>1, <1>2, <1>3, <1>4, <1>5, <1>6, <1>7, <1>8 DEF MCU!Handler

-----------------------------------------------------------------------------
(* The ampacity and the state presented, in every environment.             *)

(* The ampacity published follows the measurements.                        *)
LEMMA MCUAmpacityNext ==
    ASSUME MCU!TypeOK, round \in Rounds, MCUAmpacityInv,
           MCU!QueryThread \/ MCU!Handler
    PROVE  MCUAmpacityInv'
<1>1. CASE MCU!QueryThread
  <2>0. /\ MCU!Idle <=> phase = "none"
        /\ MCU!Idle' <=> phase' = "none"
    BY <1>1, RoundNext, RoundBegins DEF phase, MCU!Idle, First, Rounds
  <2> USE DEF MCUAmpacityInv
  <2>1. CASE MCU!GetVoltages
    <3>1. phase' = "pp_check" /\ phase = "none"
      BY <1>1, <2>1, RoundNext
    <3> QED BY <2>0, <2>1, <3>1 DEF MCU!GetVoltages
  <2>2. CASE MCU!PpCheck
    <3>1. phase = "pp_check" /\ phase' \in {"pp_compare", "pp_change"}
      BY <1>1, <2>2, RoundNext
    <3> QED BY <2>0, <2>2, <3>1 DEF MCU!PpCheck
  <2>3. CASE MCU!PpCompare
    <3>1. /\ phase = "pp_compare"
          /\ phase' = IF previous_ampacity = voltages.id THEN "cp" ELSE "pp_change"
      BY <1>1, <2>3, RoundNext
    <3>2. UNCHANGED <<previous_ampacity, bsp_measurement, voltages, evaluated>>
      BY <2>3 DEF MCU!PpCompare
    <3>3. voltages.id # "unset"
      BY DEF MCU!TypeOK, MCU!Voltages, MCU!Ampacities
    <3> QED BY <2>0, <3>1, <3>2, <3>3
  <2>4. CASE MCU!PpChange
    <3>1. phase = "pp_change" /\ phase' \in {"pp_look", "pp_store"}
      BY <1>1, <2>4, RoundNext
    <3> QED BY <2>0, <2>4, <3>1 DEF MCU!PpChange
  <2>5. CASE MCU!PpLook
    <3>1. phase = "pp_look" /\ phase' = "pp_store"
      BY <1>1, <2>5, RoundNext
    <3>2. /\ bsp_measurement'.proximity_pilot = bsp_measurement.proximity_pilot
          /\ UNCHANGED <<previous_ampacity, voltages, evaluated>>
      BY <2>5 DEF MCU!PpLook, MCU!TypeOK
    <3> QED BY <2>0, <3>1, <3>2
  <2>6. CASE MCU!PpStore
    <3>1. phase = "pp_store" /\ phase' = "pp_remember"
      BY <1>1, <2>6, RoundNext
    <3>2. /\ bsp_measurement'.proximity_pilot = voltages.id
          /\ UNCHANGED <<previous_ampacity, voltages, evaluated>>
      BY <2>6 DEF MCU!PpStore, MCU!TypeOK
    <3> QED BY <2>0, <3>1, <3>2
  <2>7. CASE MCU!PpRemember
    <3>1. phase = "pp_remember" /\ phase' = "cp"
      BY <1>1, <2>7, RoundNext
    <3>2. /\ previous_ampacity' = voltages.id
          /\ UNCHANGED <<bsp_measurement, voltages, evaluated>>
      BY <2>7 DEF MCU!PpRemember
    <3> QED BY <2>0, <3>1, <3>2
  <2>8. CASE MCU!CpEvaluate
    <3>1. phase = "cp" /\ phase' \in {"cp_change", "duty_change", "none"}
      BY <1>1, <2>8, RoundNext
    <3>2. UNCHANGED <<previous_ampacity, bsp_measurement, voltages, evaluated>>
      BY <2>8 DEF MCU!CpEvaluate
    <3> QED BY <2>0, <3>1, <3>2
  <2>9. CASE MCU!CpChange
    <3>1. phase = "cp_change" /\ phase' \in {"duty_change", "none"}
      BY <1>1, <2>9, RoundNext
    <3>2. UNCHANGED <<previous_ampacity, bsp_measurement, voltages, evaluated>>
      BY <2>9 DEF MCU!CpChange
    <3> QED BY <2>0, <3>1, <3>2
  <2>10. CASE MCU!DutyChange
    <3>1. phase = "duty_change" /\ phase' = "none"
      BY <1>1, <2>10, RoundNext
    <3>2. /\ bsp_measurement'.proximity_pilot = bsp_measurement.proximity_pilot
          /\ UNCHANGED <<previous_ampacity, voltages, evaluated>>
      BY <2>10 DEF MCU!DutyChange, MCU!TypeOK
    <3> QED BY <2>0, <3>1, <3>2
  <2> QED BY <1>1, <2>1, <2>2, <2>3, <2>4, <2>5, <2>6, <2>7, <2>8, <2>9, <2>10
             DEF MCU!QueryThread
<1>2. CASE MCU!Handler
  <2>1. /\ UNCHANGED <<bsp_measurement, voltages>>
        /\ phase' = phase /\ (MCU!Idle' <=> MCU!Idle)
    BY <1>2, Apart
  <2>2. /\ previous_ampacity' \in {previous_ampacity, "unset"}
        /\ evaluated' \in {evaluated, {}}
    BY <1>2
       DEF MCU!Handler, MCU!HandleEnable, MCU!HandleSetCpState, MCU!SetCpState,
           MCU!EnableDriver, MCU!DisableDriver, MCU!ForgetCpState,
           MCU!ForgetAmpacity, MCU!ResetCpState, MCU!ResetAmpacity,
           MCU!SetModule
  <2> QED BY <2>1, <2>2 DEF MCUAmpacityInv
<1> QED BY <1>1, <1>2

(* Which step is next decides whether a command disables.                  *)
LEMMA MCUDisablingFirst ==
    MCU!Disabling <=> First(todo) \in Late \cup {"disable_driver"}
  BY DEF MCU!Disabling, First, Late, Forgetting

(* What the MCU presents follows the commands.                             *)
LEMMA MCUPresentsNext ==
    ASSUME todo \in EvPrograms, MCUPresentsInv, MCU!QueryThread \/ MCU!Handler
    PROVE  MCUPresentsInv'
<1> DEFINE DisableSteps == Late \cup {"disable_driver"}
<1> USE DEF Late, Forgetting
<1>1. CASE MCU!QueryThread
  BY <1>1, Apart DEF MCUPresentsInv, MCU!PresentsRequested, MCU!Disabling
<1>2. ASSUME MCU!Handler PROVE MCUPresentsInv'
  <2>0. /\ todo' \in EvPrograms
        /\ todo = <<>> <=> First(todo) = "none"
        /\ todo' = <<>> <=> First(todo)' = "none"
        /\ todo' = <<"set_requested">> => First(todo)' = "set_requested"
        /\ MCU!Disabling <=> First(todo) \in DisableSteps
        /\ MCU!Disabling' <=> First(todo)' \in DisableSteps
    <3>1. todo' \in EvPrograms
      BY <1>2, HandlerNext
    <3>2. MCU!Disabling' <=> First(todo)' \in DisableSteps
      BY DEF MCU!Disabling, First
    <3> QED BY <3>1, <3>2, EvProgramsType, MCUDisablingFirst DEF First
  <2> USE DEF MCUPresentsInv, MCU!PresentsRequested
  <2>1. ASSUME First(todo)' \in {"set_requested", "set_A"},
               todo' # <<"set_requested">>
        PROVE  MCUPresentsInv'
    BY <2>0, <2>1
  <2>2. ASSUME First(todo)' \in DisableSteps, unsent' \/ presented' = "A"
        PROVE  MCUPresentsInv'
    BY <2>0, <2>2
  <2>3. ASSUME First(todo)' \in {"enable_driver", "enable_module"},
               unsent' \/ presented' = requested_cp_state'
        PROVE  MCUPresentsInv'
    BY <2>0, <2>3
  <2>4. ASSUME First(todo)' = "none",
               ~unsent' =>
                  IF is_enabled' THEN failed' \/ presented' = requested_cp_state'
                                 ELSE enable_failed' \/ presented' = "A"
        PROVE  MCUPresentsInv'
    BY <2>0, <2>4
  <2>5. CASE MCU!HandleEnable
    BY <2>1, <2>5, TupleSteps DEF MCU!HandleEnable, First
  <2>6. CASE MCU!HandleSetCpState
    <3>1. CASE is_enabled
      BY <2>0, <2>6, <3>1, TupleSteps DEF MCU!HandleSetCpState, First
    <3>2. CASE ~is_enabled
      BY <2>0, <2>4, <2>6, <3>2 DEF MCU!HandleSetCpState
    <3> QED BY <3>1, <3>2
  <2>7. CASE MCU!SetCpState
    <3>1. CASE todo' = <<>> /\ failed' = TRUE /\ enable_failed' = TRUE
      BY <2>0, <2>4, <3>1
    <3>2. CASE /\ MCU!Does("set_A") /\ MCU!Done
               /\ unsent' \/ presented' = "A"
      BY <2>2, <3>2, MCUStepDone, EvFollows DEF MCU!Does
    <3>3. CASE /\ MCU!Does("set_requested") /\ MCU!Done
               /\ unsent' \/ presented' = requested_cp_state
               /\ UNCHANGED <<is_enabled, requested_cp_state>>
      <4>1. /\ First(todo) = "set_requested"
            /\ \/ todo = <<"set_requested">> /\ First(todo)' = "none"
               \/ First(todo)' = "enable_driver"
        BY <3>3, MCUStepDone, EvFollows DEF MCU!Does
      <4>2. CASE todo = <<"set_requested">> /\ First(todo)' = "none"
        BY <2>4, <3>3, <4>2
      <4>3. CASE First(todo)' = "enable_driver"
        BY <2>3, <3>3, <4>3
      <4> QED BY <4>1, <4>2, <4>3
    <3>4. ~(MCU!Does("set_A") /\ MCU!Does("set_requested"))
      BY DEF MCU!Does
    <3> QED BY <2>7, <3>1, <3>2, <3>3, <3>4 DEF MCU!SetCpState
  <2>8. CASE MCU!EnableDriver
    <3>1. First(todo) = "enable_driver" /\ First(todo)' = "enable_module"
      BY <1>2, <2>8, HandlerNext
    <3> QED BY <2>3, <2>8, <3>1 DEF MCU!EnableDriver
  <2>9. CASE \/ MCU!DisableDriver \/ MCU!ForgetCpState \/ MCU!ForgetAmpacity
             \/ MCU!ResetCpState \/ MCU!ResetAmpacity
    <3>1. First(todo) \in DisableSteps /\ First(todo)' \in DisableSteps
      BY <1>2, <2>9, HandlerNext
    <3>2. UNCHANGED <<presented, unsent>>
      BY <2>9
         DEF MCU!DisableDriver, MCU!ForgetCpState, MCU!ForgetAmpacity,
             MCU!ResetCpState, MCU!ResetAmpacity
    <3> QED BY <2>0, <2>2, <3>1, <3>2
  <2>10. CASE MCU!SetModule
    <3>1. First(todo)' = "none"
      BY <1>2, <2>10, HandlerNext
    <3>2. CASE MCU!Does("enable_module")
      <4>1. First(todo) = "enable_module"
        BY <3>2 DEF MCU!Does, First
      <4>2. is_enabled' /\ UNCHANGED <<presented, requested_cp_state, unsent>>
        BY <2>10, <3>2 DEF MCU!SetModule
      <4> QED BY <2>4, <3>1, <4>1, <4>2
    <3>3. CASE MCU!Does("disable_module")
      <4>1. First(todo) = "disable_module"
        BY <3>3 DEF MCU!Does, First
      <4>2. ~is_enabled' /\ UNCHANGED <<presented, unsent>>
        BY <2>10, <3>3 DEF MCU!SetModule, MCU!Does
      <4> QED BY <2>0, <2>4, <3>1, <4>1, <4>2
    <3> QED BY <2>10, <3>2, <3>3 DEF MCU!SetModule
  <2> QED BY <1>2, <2>5, <2>6, <2>7, <2>8, <2>9, <2>10 DEF MCU!Handler
<1> QED BY <1>1, <1>2

-----------------------------------------------------------------------------
(* When nothing goes wrong.                                                *)

(* The event made of two voltages is what they mean, if the ampacity that  *)
(* was measured before is the one of these voltages.                       *)
LEMMA EventMeans ==
    ASSUME voltages \in MCU!Consistent, previous_ampacity = voltages.id
    PROVE  /\ MCU!Meaning(voltages) = IF MCU!BspEvent = "D" THEN "B" ELSE MCU!BspEvent
           /\ MCU!Meaning(voltages) = "A" => voltages.id # "None"
           /\ voltages.id = "None" => MCU!SimulatedDuty(MCU!BspEvent) = 100
  BY DEF MCU!Consistent, MCU!Voltages, MCU!CeBands, MCU!Ampacities, MCU!Meaning,
         MCU!BspEvent, MCU!SimulatedDuty

(* Evaluations keep the two memories of each value together.               *)
LEMMA QueryCalm ==
    ASSUME MCU!TypeOK, round \in Rounds, MCUCalm, CalmInv, MCU!QueryThread
    PROVE  CalmInv'
<1>0. /\ MCU!Idle <=> phase = "none"
      /\ MCU!Idle' <=> phase' = "none"
      /\ pending => phase \in {"cp_change", "duty_change"}
  <2>1. MCU!Idle' <=> phase' = "none"
    BY RoundNext, RoundBegins DEF phase, MCU!Idle, First, Rounds
  <2> QED BY <2>1, RoundBegins
<1>1. /\ driver_enabled /\ driver_enabled'
      /\ MCUDutyInv /\ StateInv /\ CodingInv /\ First(todo)' \notin Late
  <2>1. MCU!Idle => driver_enabled
    <3>1. phase = "none" => MCU!GetVoltages
      BY RoundNext DEF MCU!QueryThread
    <3> QED BY <1>0, <3>1 DEF MCU!GetVoltages
  <2>2. driver_enabled
    BY <2>1 DEF CalmInv, MCUForgottenWhenDisabled
  <2>3. driver_enabled' = driver_enabled /\ First(todo)' = First(todo)
    BY Apart
  <2> QED BY <2>2, <2>3 DEF CalmInv
<1>2. SUFFICES MCUDutyInv' /\ StateInv' /\ CodingInv'
  BY <1>1 DEF CalmInv
<1> USE DEF StateInv, CodingInv, MCUTracked
<1>3. CASE MCU!GetVoltages
  <2>1. phase = "none" /\ phase' = "pp_check"
    BY <1>3, RoundNext
  <2>2. /\ voltages' \in MCU!Consistent
        /\ UNCHANGED <<MCU!driverVars, MCU!moduleVars>>
    BY <1>3 DEF MCU!GetVoltages, MCUCalm
  <2>3. bsp_measurement.cp_pwm_duty_cycle = duty_cycle
    BY <1>0, <1>1, <2>1 DEF MCUDutyInv
  <2>4. MCUDutyInv'
    BY <2>2, <2>3 DEF MCUDutyInv
  <2> QED BY <1>0, <1>1, <2>1, <2>2, <2>4
<1>4. CASE MCU!PpCheck \/ MCU!PpChange
  <2>1. /\ phase \in {"pp_check", "pp_change"}
        /\ phase' \in {"pp_compare", "pp_change", "pp_look", "pp_store"}
    BY <1>4, RoundNext
  <2>2. UNCHANGED <<MCU!driverVars, MCU!moduleVars, voltages, evaluated>>
    BY <1>4 DEF MCU!PpCheck, MCU!PpChange
  <2>3. bsp_measurement.cp_pwm_duty_cycle = duty_cycle
    BY <1>0, <1>1, <2>1 DEF MCUDutyInv
  <2>4. MCUDutyInv'
    BY <2>2, <2>3 DEF MCUDutyInv
  <2> QED BY <1>0, <1>1, <2>1, <2>2, <2>4
<1>5. CASE MCU!PpCompare
  <2>1. /\ phase = "pp_compare"
        /\ phase' = IF previous_ampacity = voltages.id THEN "cp" ELSE "pp_change"
    BY <1>5, RoundNext
  <2>2. UNCHANGED <<MCU!driverVars, MCU!moduleVars, voltages, evaluated>>
    BY <1>5 DEF MCU!PpCompare
  <2>3. bsp_measurement.cp_pwm_duty_cycle = duty_cycle
    BY <1>0, <1>1, <2>1 DEF MCUDutyInv
  <2>4. MCUDutyInv'
    BY <2>2, <2>3 DEF MCUDutyInv
  <2>5. voltages.id # "unset"
    BY DEF MCU!TypeOK, MCU!Voltages, MCU!Ampacities
  <2> QED BY <1>0, <1>1, <2>1, <2>2, <2>4, <2>5
<1>6. CASE MCU!PpLook
  <2>1. phase = "pp_look" /\ phase' = "pp_store"
    BY <1>6, RoundNext
  <2>2. /\ UNCHANGED <<MCU!driverVars, cp_current_state, pp_ampacity, voltages, evaluated>>
        /\ \/ UNCHANGED bsp_measurement
           \/ voltages.id = "None" /\ bsp_measurement'.cp_pwm_duty_cycle = 100
    BY <1>6 DEF MCU!PpLook, MCU!TypeOK
  <2>3. bsp_measurement.cp_pwm_duty_cycle = duty_cycle
    BY <1>0, <1>1, <2>1 DEF MCUDutyInv
  <2>4. MCUDutyInv'
    BY <2>1, <2>2, <2>3 DEF MCUDutyInv
  <2> QED BY <1>0, <1>1, <2>1, <2>2, <2>4
<1>7. CASE MCU!PpStore
  <2>1. phase = "pp_store" /\ phase' = "pp_remember"
    BY <1>7, RoundNext
  <2>2. /\ UNCHANGED <<MCU!driverVars, cp_current_state, voltages, evaluated>>
        /\ bsp_measurement'.cp_pwm_duty_cycle = bsp_measurement.cp_pwm_duty_cycle
        /\ pp_ampacity' = voltages.id
    BY <1>7 DEF MCU!PpStore, MCU!TypeOK
  <2>3. MCUDutyInv'
    BY <1>0, <1>1, <2>1, <2>2 DEF MCUDutyInv
  <2> QED BY <1>0, <1>1, <2>1, <2>2, <2>3
<1>8. CASE MCU!PpRemember
  <2>1. phase = "pp_remember" /\ phase' = "cp"
    BY <1>8, RoundNext
  <2>2. /\ UNCHANGED <<previous_cp_state, duty_cycle, MCU!moduleVars, voltages, evaluated>>
        /\ previous_ampacity' = voltages.id
    BY <1>8 DEF MCU!PpRemember
  <2>3. MCUDutyInv'
    BY <1>0, <1>1, <2>1, <2>2 DEF MCUDutyInv
  <2> QED BY <1>0, <1>1, <2>1, <2>2, <2>3
<1>9. CASE MCU!CpEvaluate
  <2>1. /\ phase = "cp"
        /\ phase' = IF previous_cp_state # event' THEN "cp_change"
                    ELSE IF duty_cycle' # duty_cycle THEN "duty_change" ELSE "none"
        /\ duty_cycle' # duty_cycle => pending'
    BY <1>9, RoundNext
  <2>2. /\ event' = IF MCU!BspEvent = "D" THEN "B" ELSE MCU!BspEvent
        /\ duty_cycle' = MCU!SimulatedDuty(MCU!BspEvent)
        /\ previous_cp_state' = event'
        /\ UNCHANGED <<previous_ampacity, MCU!moduleVars, voltages, evaluated>>
    BY <1>9 DEF MCU!CpEvaluate
  <2>3. /\ voltages \in MCU!Consistent
        /\ previous_ampacity = voltages.id /\ pp_ampacity = voltages.id
    BY <1>0, <1>1, <2>1
  <2>4. /\ event' = MCU!Meaning(voltages)
        /\ event' = "A" => pp_ampacity # "None"
        /\ voltages.id = "None" => duty_cycle' = 100
    BY <2>2, <2>3, EventMeans
  <2>5. MCUDutyInv'
    <3>1. CASE duty_cycle' # duty_cycle
      BY <2>1, <3>1 DEF MCUDutyInv
    <3>2. CASE duty_cycle' = duty_cycle
      BY <1>0, <1>1, <2>1, <2>2, <2>4, <3>2 DEF MCUDutyInv
    <3> QED BY <3>1, <3>2
  <2>6. StateInv'
    <3>1. \A v \in evaluated' : previous_cp_state' = MCU!Meaning(v)
      BY <2>2, <2>4 DEF MCU!TypeOK
    <3>2. phase' # "cp_change" => MCUTracked'
      BY <1>1, <2>1, <2>2
    <3>3. phase' = "cp_change" => /\ event' = previous_cp_state'
                                  /\ event' = "A" => pp_ampacity' # "None"
      BY <2>2, <2>4
    <3> QED BY <3>1, <3>2, <3>3 DEF MCU!Meaning
  <2>7. CodingInv'
    <3>1. phase' \in {"cp_change", "duty_change", "none"}
      BY <2>1
    <3> QED BY <1>0, <1>1, <2>2, <2>3, <3>1
  <2> QED BY <2>5, <2>6, <2>7
<1>10. CASE MCU!CpChange
  <2>1. /\ phase = "cp_change" /\ phase' \in {"duty_change", "none"}
        /\ pending => pending'
    BY <1>10, RoundNext
  <2>2. /\ UNCHANGED <<MCU!driverVars, pp_ampacity, bsp_measurement, voltages, event,
                       evaluated>>
        /\ cp_current_state' = previous_cp_state'
    <3>1. ~MCU!Does("reset_ampacity")
      BY <1>1, Apart DEF MCU!Does, First, Late, Forgetting
    <3> QED BY <1>1, <1>10, <2>1, <3>1 DEF MCU!CpChange
  <2>3. MCUDutyInv'
    BY <1>1, <2>1, <2>2 DEF MCUDutyInv
  <2> QED BY <1>0, <1>1, <2>1, <2>2, <2>3
<1>11. CASE MCU!DutyChange
  <2>1. phase = "duty_change" /\ phase' = "none"
    BY <1>11, RoundNext
  <2>2. /\ UNCHANGED <<MCU!driverVars, cp_current_state, pp_ampacity, voltages, event,
                       evaluated>>
        /\ bsp_measurement'.cp_pwm_duty_cycle = duty_cycle'
    BY <1>11 DEF MCU!DutyChange, MCU!TypeOK
  <2>3. MCUDutyInv'
    BY <2>2 DEF MCUDutyInv
  <2> QED BY <1>0, <1>1, <2>1, <2>2, <2>3
<1> QED BY <1>3, <1>4, <1>5, <1>6, <1>7, <1>8, <1>9, <1>10, <1>11
           DEF MCU!QueryThread

(* Enabling and disabling forget what the next evaluation is to find new.  *)
LEMMA HandlerCalm ==
    ASSUME todo \in EvPrograms, round \in Rounds, MCUCalm, CalmInv, MCU!Handler
    PROVE  CalmInv'
<1>0. /\ UNCHANGED <<MCU!roundVars, bsp_measurement, duty_cycle>>
      /\ phase' = phase /\ (MCU!Idle' <=> MCU!Idle)
      /\ (pending' <=> pending)
      /\ MCU!Idle <=> phase = "none"
  BY Apart, RoundBegins
<1>1. MCUDutyInv'
  BY <1>0 DEF CalmInv, MCUDutyInv
<1> USE DEF Late, Forgetting
<1>2. ASSUME driver_enabled, ~MCU!DisableDriver PROVE CalmInv'
  <2>1. /\ StateInv /\ CodingInv /\ First(todo) \notin Late
    BY <1>2 DEF CalmInv
  <2>2. /\ MCU!HandleEnable \/ MCU!HandleSetCpState \/ MCU!SetCpState
           \/ MCU!EnableDriver \/ MCU!SetModule
        /\ First(todo)' \notin Late
    BY <1>2, <2>1, HandlerNext DEF MCU!Handler
  <2>3. UNCHANGED <<driver_enabled, previous_cp_state, previous_ampacity,
                    cp_current_state, pp_ampacity, evaluated>>
    BY <1>2, <2>2
       DEF MCU!HandleEnable, MCU!HandleSetCpState, MCU!SetCpState,
           MCU!EnableDriver, MCU!SetModule
  <2>4. StateInv'
    BY <1>0, <2>1, <2>3 DEF StateInv, MCUTracked, MCU!Meaning
  <2>5. CodingInv'
    BY <1>0, <2>1, <2>3 DEF CodingInv
  <2> QED BY <1>1, <1>2, <2>2, <2>3, <2>4, <2>5 DEF CalmInv
<1>3. ASSUME driver_enabled, MCU!DisableDriver PROVE CalmInv'
  <2>1. First(todo)' = "forget_cp_state"
    BY <1>3, HandlerNext
  <2>2. MCU!Idle /\ ~driver_enabled'
    BY <1>3 DEF MCU!DisableDriver, MCUCalm
  <2> QED BY <1>0, <1>1, <2>1, <2>2 DEF CalmInv, MCUForgottenWhenDisabled
<1>4. ASSUME ~driver_enabled PROVE CalmInv'
  <2>0. MCUForgottenWhenDisabled /\ MCU!Idle'
    BY <1>0, <1>4 DEF CalmInv, MCUForgottenWhenDisabled
  <2>1. ASSUME ~driver_enabled',
               UNCHANGED <<previous_cp_state, previous_ampacity, cp_current_state>>,
               First(todo) \notin Forgetting
        PROVE  CalmInv'
    BY <1>1, <2>0, <2>1 DEF CalmInv, MCUForgottenWhenDisabled
  <2>2. CASE MCU!HandleEnable \/ MCU!HandleSetCpState \/ MCU!SetCpState
             \/ MCU!SetModule
    <3>1. First(todo) \notin Forgetting
      BY <2>2, HandlerNext
    <3> QED BY <1>4, <2>1, <2>2, <3>1
               DEF MCU!HandleEnable, MCU!HandleSetCpState, MCU!SetCpState,
                   MCU!SetModule
  <2>3. CASE MCU!EnableDriver
    <3>1. First(todo) = "enable_driver" /\ First(todo)' = "enable_module"
      BY <2>3, HandlerNext
    <3>2. /\ driver_enabled' /\ evaluated' = {}
          /\ UNCHANGED <<previous_cp_state, previous_ampacity, cp_current_state,
                         pp_ampacity>>
      BY <1>4, <2>3 DEF MCU!EnableDriver
    <3>3. /\ previous_cp_state \in {"Disconnected", "PowerOn"}
          /\ previous_ampacity = "unset" /\ cp_current_state = "PowerOn"
          /\ phase' = "none"
      BY <1>0, <2>0, <3>1 DEF MCUForgottenWhenDisabled
    <3>4. StateInv' /\ CodingInv'
      BY <2>0, <3>2, <3>3 DEF StateInv, CodingInv, MCUTracked
    <3> QED BY <1>1, <3>1, <3>2, <3>4 DEF CalmInv
  <2>4. CASE MCU!DisableDriver
    <3>1. First(todo) = "disable_driver"
      BY <2>4, HandlerNext
    <3> QED BY <2>1, <2>4, <3>1 DEF MCU!DisableDriver
  <2>5. CASE MCU!ForgetCpState
    <3>1. First(todo)' = "forget_ampacity"
      BY <2>5, HandlerNext
    <3> QED BY <1>1, <1>4, <2>0, <2>5, <3>1
               DEF MCU!ForgetCpState, CalmInv, MCUForgottenWhenDisabled
  <2>6. CASE MCU!ForgetAmpacity
    <3>1. First(todo) = "forget_ampacity" /\ First(todo)' = "reset_cp_state"
      BY <2>6, HandlerNext
    <3> QED BY <1>1, <1>4, <2>0, <2>6, <3>1
               DEF MCU!ForgetAmpacity, CalmInv, MCUForgottenWhenDisabled
  <2>7. CASE MCU!ResetCpState
    <3>1. First(todo) = "reset_cp_state" /\ First(todo)' = "reset_ampacity"
      BY <2>7, HandlerNext
    <3> QED BY <1>1, <1>4, <2>0, <2>7, <3>1
               DEF MCU!ResetCpState, CalmInv, MCUForgottenWhenDisabled
  <2>8. CASE MCU!ResetAmpacity
    <3>1. First(todo) = "reset_ampacity"
      BY <2>8, HandlerNext
    <3> QED BY <1>4, <2>1, <2>8, <3>1 DEF MCU!ResetAmpacity
  <2> QED BY <2>2, <2>3, <2>4, <2>5, <2>6, <2>7, <2>8 DEF MCU!Handler
<1> QED BY <1>2, <1>3, <1>4

-----------------------------------------------------------------------------
(* The invariant holds at first ...                                        *)
LEMMA MCUInvInit == MCU!Init => MCUInv
<1> SUFFICES ASSUME MCU!Init PROVE MCUInv
  OBVIOUS
<1> USE DEF MCU!Init
<1>1. <<>> \in Seq(MCU!RoundSteps) /\ <<>> \in Seq(MCU!CommandSteps)
  OBVIOUS
<1>2. MCU!TypeOK
  BY <1>1 DEF MCU!TypeOK, MCU!Events, MCU!Ampacities, MCU!Voltages, MCU!CeBands
<1>3. First(todo) = "none" /\ phase = "none" /\ MCU!Idle
  BY DEF First, phase, MCU!Idle
<1>4. round \in Rounds /\ todo \in EvPrograms /\ MCUAmpacityInv
  BY <1>3 DEF Rounds, EvPrograms, Rests, MCUAmpacityInv
<1>5. MCUPresentsInv
  BY <1>3, TupleSteps DEF MCUPresentsInv, MCU!PresentsRequested, MCU!Disabling
<1>6. CalmInv
  BY <1>3 DEF CalmInv, MCUDutyInv, MCUForgottenWhenDisabled
<1> QED BY <1>2, <1>4, <1>5, <1>6 DEF MCUInv

(* ... and every step keeps it.                                            *)
LEMMA MCUInvNext == MCUInv /\ [MCU!Next]_(MCU!vars) => MCUInv'
<1> SUFFICES ASSUME MCUInv, [MCU!Next]_(MCU!vars) PROVE MCUInv'
  OBVIOUS
<1>0. /\ MCU!TypeOK /\ round \in Rounds /\ todo \in EvPrograms
      /\ MCUAmpacityInv /\ MCUPresentsInv /\ (MCUCalm => CalmInv)
  BY DEF MCUInv
<1>1. CASE UNCHANGED MCU!vars
  <2>1. MCU!TypeOK' /\ (round \in Rounds)' /\ (todo \in EvPrograms)'
    BY <1>0, <1>1 DEF MCU!vars, MCU!TypeOK
  <2>2. /\ phase' = phase /\ First(todo)' = First(todo)
        /\ (MCU!Idle' <=> MCU!Idle) /\ (pending' <=> pending)
        /\ (MCUCalm' <=> MCUCalm)
    BY <1>1 DEF MCU!vars, phase, First, MCU!Idle, pending, MCUCalm
  <2>3. MCUAmpacityInv' /\ MCUPresentsInv'
    BY <1>0, <1>1, <2>2
       DEF MCU!vars, MCUAmpacityInv, MCUPresentsInv, MCU!PresentsRequested,
           MCU!Disabling
  <2>4. MCUCalm => CalmInv'
    BY <1>0, <1>1, <2>2
       DEF MCU!vars, CalmInv, MCUDutyInv, StateInv, CodingInv, MCUTracked,
           MCUForgottenWhenDisabled, MCU!Meaning
  <2> QED BY <2>1, <2>2, <2>3, <2>4 DEF MCUInv
<1>2. ASSUME MCU!QueryThread \/ MCU!Handler, env' = env PROVE MCUInv'
  <2>1. MCU!TypeOK'
    BY <1>0, <1>2, QueryType, MCUHandlerType
  <2>2. round' \in Rounds /\ todo' \in EvPrograms
    BY <1>0, <1>2, RoundNext, HandlerNext, Apart
  <2>3. MCUAmpacityInv' /\ MCUPresentsInv'
    BY <1>0, <1>2, MCUAmpacityNext, MCUPresentsNext
  <2>4. MCUCalm => CalmInv'
    BY <1>0, <1>2, QueryCalm, HandlerCalm
  <2>5. MCUCalm' <=> MCUCalm
    BY <1>2 DEF MCUCalm
  <2> QED BY <2>1, <2>2, <2>3, <2>4, <2>5 DEF MCUInv
<1> QED BY <1>1, <1>2 DEF MCU!Next, MCU!Stopped

(* What follows of it.                                                     *)
LEMMA MCUSafe ==
    ASSUME MCUInv
    PROVE  /\ MCU!TypeOK /\ MCU!MeasurementCurrent
           /\ MCU!PresentsRequested /\ MCU!CpStateTracked
<1>0. MCU!Idle => phase = "none" /\ ~pending
  BY RoundBegins DEF MCUInv
<1>1. MCU!TypeOK
  BY DEF MCUInv
<1>2. MCU!MeasurementCurrent
  <2>1. MCU!Settled =>
           \A v \in evaluated : bsp_measurement.proximity_pilot = v.id
    BY DEF MCUInv, MCU!TypeOK, MCUAmpacityInv, MCU!Settled
  <2>2. env \subseteq {"partial"} /\ MCU!Settled =>
           bsp_measurement.cp_pwm_duty_cycle = duty_cycle
    BY <1>0 DEF MCUInv, MCUCalm, CalmInv, MCUDutyInv, MCU!Settled
  <2> QED BY <2>1, <2>2 DEF MCU!MeasurementCurrent
<1>3. MCU!PresentsRequested
  BY DEF MCUInv, MCUPresentsInv
<1>4. MCU!CpStateTracked
  <2> SUFFICES ASSUME env \subseteq {"partial"}, MCU!Settled, NEW v \in evaluated
               PROVE  \/ cp_current_state = MCU!Meaning(v)
                      \/ /\ cp_current_state = "PowerOn"
                         /\ MCU!Meaning(v) = "Disconnected"
    BY DEF MCU!CpStateTracked
  <2>1. phase = "none" /\ StateInv
    BY <1>0 DEF MCUInv, MCUCalm, CalmInv, MCU!Settled
  <2> QED BY <2>1 DEF StateInv, MCUTracked
<1> QED BY <1>1, <1>2, <1>3, <1>4

-----------------------------------------------------------------------------
(* Both.                                                                   *)

IInv == /\ focus \in {"KL02", "MCU"}
        /\ focus = "KL02" => KL02Inv
        /\ focus = "MCU"  => MCUInv

(* The module that runs keeps its invariant, whatever is in the variables  *)
(* only the other one has.                                                 *)
LEMMA Invariance == Spec => []IInv
<1>1. Init => IInv
  BY Constants, KL02InvInit, MCUInvInit DEF Init, IInv
<1>2. IInv /\ [Next]_vars => IInv'
  <2> SUFFICES ASSUME IInv, [Next]_vars PROVE IInv'
    OBVIOUS
  <2>1. KL02!EvParameters
    BY Constants
  <2>2. CASE KL02Runs
    <3>1. focus = "KL02" /\ focus' = "KL02" /\ KL02Inv /\ KL02!Next
      BY <2>2 DEF KL02Runs, IInv
    <3> QED BY <2>1, <3>1, KL02InvNext DEF IInv
  <2>3. CASE MCURuns
    <3>1. focus = "MCU" /\ focus' = "MCU" /\ MCUInv /\ MCU!Next
      BY <2>3 DEF MCURuns, IInv
    <3> QED BY <3>1, MCUInvNext DEF IInv
  <2>4. CASE UNCHANGED vars
    <3>1. focus' = focus /\ UNCHANGED KL02!vars /\ UNCHANGED MCU!vars
      BY <2>4 DEF vars, sharedVars, kl02Vars, mcuVars, KL02!vars, MCU!vars,
                  MCU!driverVars, MCU!moduleVars, MCU!roundVars, MCU!failures
    <3> QED BY <2>1, <3>1, KL02InvNext, MCUInvNext DEF IInv
  <2> QED BY <2>2, <2>3, <2>4 DEF Next
<1> QED BY <1>1, <1>2, PTL DEF Spec

(* ev_board_supportImpl and the drivers keep the types of their fields,    *)
(* whatever is measured and in whatever order commands come.               *)
THEOREM TypeCorrect == Spec => []TypeOK
<1>1. IInv => TypeOK
  BY KL02Safe, MCUSafe DEF IInv, TypeOK
<1> QED BY <1>1, Invariance, PTL

(* KL02::filter_duty_cycle: an erroneous duty cycle never outlives a good  *)
(* one, although a duty cycle that has not changed clears nothing.         *)
THEOREM DutyErrorsEnd == Spec => []DutyErrorEnds
<1>1. IInv => DutyErrorEnds
  BY KL02Safe DEF IInv, DutyErrorEnds
<1> QED BY <1>1, Invariance, PTL

(* on_pp_change and on_duty_cycle_change: the measurement published has    *)
(* the coding and the duty cycle found last, although each is passed on    *)
(* only when it changes, disabling forgets one of them and in MCSTesterEV  *)
(* the removal of the plug changes the published duty cycle only.          *)
THEOREM MeasurementIsCurrent == Spec => []MeasurementCurrent
<1>1. IInv => MeasurementCurrent
  BY KL02Safe, MCUSafe DEF IInv, MeasurementCurrent
<1> QED BY <1>1, Invariance, PTL

(* handle_enable and handle_set_cp_state: between two commands what the    *)
(* charging station sees is what was asked for, unless a command failed    *)
(* with an exception, the KL02 was reset since, or set_cp_state returned   *)
(* although its request was never sent.                                    *)
THEOREM ResistorsFollow == Spec => []PresentsRequested
<1>1. IInv => PresentsRequested
  BY KL02Safe, MCUSafe DEF IInv, PresentsRequested
<1> QED BY <1>1, Invariance, PTL

(* The two memories of the CP state, of the driver and of the module, are  *)
(* reset by different steps of a disable; with healthy readings and        *)
(* without preemption the module still has the state evaluated last.       *)
THEOREM StateIsTracked == Spec => []CpStateTracked
<1>1. IInv => CpStateTracked
  BY KL02Safe, MCUSafe DEF IInv, CpStateTracked
<1> QED BY <1>1, Invariance, PTL

=============================================================================
