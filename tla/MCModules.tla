------------------------------ MODULE MCModules ------------------------------
(***************************************************************************)
(* DummyEvSlac, SimpleSwitch3ph1phAPI and EVDevInput for TLC.  They share  *)
(* nothing: in each behaviour one of them runs and the others stay where   *)
(* they are.                                                               *)
(***************************************************************************)
EXTENDS Naturals

CONSTANTS
    Limits, InitialLimits, Uuids, NoUuid, MaxRefusals,
    Consumers, Chars, Enter, Stop, TrimLength, Trim, QueueBound, MaxTyped,
    MaxOverflows

VARIABLES
    focus,   \* the module that runs
    state, remaining, matcher, command, ready_copy, handler_copy,
    published_state, published_dlink, overlapped, reset, waited,
    limits, initial_limits_pushed, enforced, wanted, refusals, ended,
    consumer, queue, plugged, reading, loop, id_token, published, down, typed,
    overflows

Slac   == INSTANCE DummyEvSlac
Switch == INSTANCE SimpleSwitch3ph1phAPI
Input  == INSTANCE EVDevInput

ASSUME Constants == MaxRefusals \in Nat /\ Input!InputParameters

slacVars   == <<state, remaining, matcher, command, ready_copy, handler_copy,
                published_state, published_dlink, overlapped, reset, waited>>
switchVars == <<limits, initial_limits_pushed, enforced, wanted, refusals, ended>>
inputVars  == <<consumer, queue, plugged, reading, loop, id_token, published,
                down, typed, overflows>>
vars       == <<focus, slacVars, switchVars, inputVars>>

Init == /\ focus \in {"slac", "switch", "input"}
        /\ Slac!SlacInit /\ Switch!SwitchInit /\ Input!InputInit
        /\ focus = "input" \/ consumer = CHOOSE c \in Consumers : TRUE

SlacRuns   == focus = "slac" /\ Slac!SlacNext
              /\ UNCHANGED <<focus, switchVars, inputVars>>
SwitchRuns == focus = "switch" /\ Switch!SwitchNext
              /\ UNCHANGED <<focus, slacVars, inputVars>>
InputRuns  == focus = "input" /\ Input!InputNext
              /\ UNCHANGED <<focus, slacVars, switchVars>>

(* An exception has ended ready() of SimpleSwitch3ph1phAPI.                *)
Over == focus = "switch" /\ ended /\ UNCHANGED vars

Next == SlacRuns \/ SwitchRuns \/ InputRuns \/ Over

(* ready() of both modules goes on, a leaf asks for energy until it is     *)
(* told its limits.                                                        *)
Spec ==
    /\ Init /\ [][Next]_vars
    /\ WF_vars(SlacRuns /\ Slac!ReadyStep)
    /\ WF_vars(SwitchRuns /\ Switch!Refresh)
    /\ WF_vars(SwitchRuns /\ ~initial_limits_pushed
                          /\ \E u \in Uuids : Switch!EnergyFlowRequest(u))

TypeOK == Slac!SlacTypeOK /\ Switch!SwitchTypeOK /\ Input!InputTypeOK

(* What a DummyEvSlac publishes agrees with its state.                     *)
LinkAgrees == Slac!LinkAgrees

(* A matching ends.                                                        *)
MatchingEnds == Slac!MatchingEnds

(* The limits set last reach the leaf that asked last.                     *)
LimitsReachLeaf == Switch!LimitsReachLeaf

(* Tokens and stops are what was typed.                                    *)
InputHandled == Input!InputHandled

=============================================================================
