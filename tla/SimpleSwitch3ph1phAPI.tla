------------------------ MODULE SimpleSwitch3ph1phAPI ------------------------
(***************************************************************************)
(* SimpleSwitch3ph1phAPI: passes the limits of an external energy          *)
(* management on to a leaf of the energy tree.  All of its state is        *)
(* guarded by one mutex, so each callback is one step.                     *)
(***************************************************************************)
EXTENDS Naturals

CONSTANTS
    Limits,         \* the limits that are set by MQTT ...
    InitialLimits,  \* ... and the configured ones
    Uuids, NoUuid,  \* what identifies a leaf
    MaxRefusals     \* bound on the calls of enforce_limits that throw

VARIABLES
    limits,         \* the limits on the root side and the uuid to send
    initial_limits_pushed,
    enforced,       \* what the leaf was told last
    wanted,         \* history: what was asked for last
    refusals,       \* history: calls that threw
    ended           \* an exception has left ready()

switchVars == <<limits, initial_limits_pushed, enforced, wanted, refusals, ended>>

Enforcement(l, u) == [limits_root_side |-> l, uuid |-> u]

Nothing == Enforcement(InitialLimits, NoUuid)

SwitchTypeOK ==
    /\ {limits, enforced} \subseteq [limits_root_side : Limits \cup {InitialLimits},
                                     uuid : Uuids \cup {NoUuid}]
    /\ initial_limits_pushed \in BOOLEAN /\ ended \in BOOLEAN
    /\ wanted \in Limits \cup {InitialLimits}
    /\ refusals \in 0 .. MaxRefusals

SwitchInit ==
    /\ limits = Nothing /\ enforced = Nothing
    /\ initial_limits_pushed = FALSE
    /\ wanted = InitialLimits
    /\ refusals = 0 /\ ended = FALSE

(* call_enforce_limits throws if the leaf does not answer, and may have    *)
(* reached it all the same.                                                *)
enforce_limits(l) == enforced' = l /\ UNCHANGED refusals

Refused(l) == /\ refusals < MaxRefusals /\ refusals' = refusals + 1
              /\ enforced' \in {enforced, l}

(* The uuid is known with the first request.  A later one brings a new     *)
(* uuid only, which goes out with the next push.                           *)
EnergyFlowRequest(u) ==
    /\ limits' = [limits EXCEPT !.uuid = u]
    /\ IF initial_limits_pushed
       THEN UNCHANGED <<enforced, initial_limits_pushed, refusals>>
       ELSE \/ enforce_limits(limits') /\ initial_limits_pushed' = TRUE
            \/ Refused(limits') /\ UNCHANGED initial_limits_pushed
    /\ UNCHANGED <<wanted, ended>>

(* An exception of the push is taken for one of the parser.                *)
SetLimits(l) ==
    /\ wanted' = l
    /\ limits' = [limits EXCEPT !.limits_root_side = l]
    /\ IF initial_limits_pushed
       THEN enforce_limits(limits') \/ Refused(limits')
       ELSE UNCHANGED <<enforced, refusals>>
    /\ UNCHANGED <<initial_limits_pushed, ended>>

(* Mutated form of Refresh: only what was never pushed is pushed.          *)
RefreshOnce ==
    /\ ~initial_limits_pushed /\ limits.uuid # NoUuid
    /\ enforce_limits(limits) /\ initial_limits_pushed' = TRUE
    /\ UNCHANGED <<limits, wanted, ended>>

(* ready(), every ten seconds.  Nobody catches an exception there.         *)
Refresh ==
    /\ initial_limits_pushed
    /\ \/ enforce_limits(limits) /\ UNCHANGED ended
       \/ Refused(limits) /\ ended' = TRUE
    /\ UNCHANGED <<limits, initial_limits_pushed, wanted>>

SwitchNext ==
    /\ ~ended
    /\ \/ \E u \in Uuids : EnergyFlowRequest(u)
       \/ \E l \in Limits : SetLimits(l)
       \/ Refresh

-----------------------------------------------------------------------------
(* Properties.                                                             *)

(* The limits set last reach the leaf that asked last, whether they are    *)
(* set before or after its uuid is known and although a push may fail,     *)
(* unless that ends the module.                                            *)
LimitsReachLeaf ==
    [](~ended) =>
        \A l \in Limits \cup {InitialLimits}, u \in Uuids :
            <>[](wanted = l /\ limits.uuid = u) => <>[](enforced = Enforcement(l, u))

=============================================================================
