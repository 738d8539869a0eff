----------------------------- MODULE DummyEvSlac -----------------------------
(***************************************************************************)
(* DummyEvSlac: a SLAC that always succeeds.  ready() looks at the state   *)
(* once a second and counts down to MATCHED; the handlers of the framework *)
(* thread start a matching and reset it.  Nothing is locked, and           *)
(* publish_state copies the state before it publishes the copy.            *)
(***************************************************************************)
EXTENDS Naturals

VARIABLES
    state, remaining,  \* seconds_until_match_remaining
    matcher,           \* the next step of ready()
    command,           \* the next step of the handler that runs
    ready_copy, handler_copy,  \* the argument of publish_state of either
    published_state, published_dlink,
    overlapped,        \* history: the last of the two to begin found the other at work
    reset,             \* history: a reset came during the countdown before this one
    waited             \* history: the seconds since matching was triggered

slacVars == <<state, remaining, matcher, command, ready_copy, handler_copy,
              published_state, published_dlink, overlapped, reset, waited>>

States == {"UNMATCHED", "MATCHING", "MATCHED"}

seconds_until_match == 5

SlacTypeOK ==
    /\ {state, ready_copy, handler_copy} \subseteq States
    /\ published_state \in States \cup {"none"}
    /\ remaining \in 0 .. seconds_until_match
    /\ matcher \in {"start", "start_publish", "look", "match", "copy",
                    "publish_state", "publish_dlink"}
    /\ command \in {"none", "reset_copy", "reset_publish", "reset_dlink",
                    "trigger_copy", "trigger_publish"}
    /\ {published_dlink, overlapped, reset} \subseteq BOOLEAN
    /\ waited \in 0 .. seconds_until_match

SlacInit ==
    /\ state = "UNMATCHED" /\ remaining = seconds_until_match
    /\ matcher = "start" /\ command = "none"
    /\ ready_copy = "UNMATCHED" /\ handler_copy = "UNMATCHED"
    /\ published_state = "none" /\ published_dlink = FALSE
    /\ overlapped = FALSE /\ reset = FALSE /\ waited = 0

(* Before its first step and while it sleeps ready() is not at work.       *)
Sleeping == matcher \in {"start", "look"}

-----------------------------------------------------------------------------
(* ready()                                                                 *)

Start ==
    /\ matcher = "start"
    /\ ready_copy' = state
    /\ matcher' = "start_publish"
    /\ overlapped' = (command # "none")
    /\ UNCHANGED <<state, remaining, command, handler_copy, published_state,
                   published_dlink, reset, waited>>

(* Mutated form of Look: the countdown starts again at each look.          *)
LookRestarts ==
    /\ matcher = "look"
    /\ state = "MATCHING"
    /\ remaining' = seconds_until_match
    /\ waited' = IF waited < seconds_until_match THEN waited + 1 ELSE waited
    /\ UNCHANGED <<matcher, state, command, ready_copy, handler_copy,
                   published_state, published_dlink, overlapped, reset>>

(* Mutated form of Look: the countdown goes below 0.                       *)
LookUnguarded ==
    /\ matcher = "look"
    /\ state = "MATCHING"
    /\ remaining' = remaining - 1
    /\ matcher' = IF remaining > 0 THEN "look" ELSE "match"
    /\ overlapped' = IF remaining > 0 THEN overlapped ELSE command # "none"
    /\ waited' = IF waited < seconds_until_match THEN waited + 1 ELSE waited
    /\ UNCHANGED <<state, command, ready_copy, handler_copy, published_state,
                   published_dlink, reset>>

(* Once a second.                                                          *)
Look ==
    /\ matcher = "look"
    /\ state = "MATCHING"
    /\ IF remaining > 0
       THEN remaining' = remaining - 1 /\ UNCHANGED <<matcher, overlapped>>
       ELSE /\ matcher' = "match" /\ overlapped' = (command # "none")
            /\ UNCHANGED remaining
    /\ waited' = IF waited < seconds_until_match THEN waited + 1 ELSE waited
    /\ UNCHANGED <<state, command, ready_copy, handler_copy, published_state,
                   published_dlink, reset>>

Match ==
    /\ matcher = "match"
    /\ state' = "MATCHED"
    /\ matcher' = "copy"
    /\ UNCHANGED <<remaining, command, ready_copy, handler_copy,
                   published_state, published_dlink, overlapped, reset, waited>>

CopyMatched ==
    /\ matcher = "copy"
    /\ ready_copy' = state
    /\ matcher' = "publish_state"
    /\ UNCHANGED <<state, remaining, command, handler_copy, published_state,
                   published_dlink, overlapped, reset, waited>>

PublishMatched ==
    /\ matcher \in {"start_publish", "publish_state"}
    /\ published_state' = ready_copy
    /\ matcher' = IF matcher = "start_publish" THEN "look" ELSE "publish_dlink"
    /\ UNCHANGED <<state, remaining, command, ready_copy, handler_copy,
                   published_dlink, overlapped, reset, waited>>

PublishLink ==
    /\ matcher = "publish_dlink"
    /\ published_dlink' = TRUE
    /\ remaining' = seconds_until_match
    /\ matcher' = "look"
    /\ UNCHANGED <<state, command, ready_copy, handler_copy, published_state,
                   overlapped, reset, waited>>

ReadyStep == \/ Start \/ Look \/ Match \/ CopyMatched \/ PublishMatched
             \/ PublishLink

-----------------------------------------------------------------------------
(* The framework thread: one handler at a time.                            *)

handle_reset ==
    /\ command = "none" /\ state # "UNMATCHED"
    /\ state' = "UNMATCHED" /\ command' = "reset_copy"
    /\ overlapped' = ~Sleeping
    /\ reset' = (state = "MATCHING")
    /\ UNCHANGED <<remaining, matcher, ready_copy, handler_copy,
                   published_state, published_dlink, waited>>

handle_trigger_matching ==
    /\ command = "none"
    /\ state' = "MATCHING" /\ command' = "trigger_copy"
    /\ overlapped' = ~Sleeping
    /\ waited' = IF state = "MATCHING" THEN waited ELSE 0
    /\ reset' = (reset /\ state # "MATCHED")
    /\ UNCHANGED <<remaining, matcher, ready_copy, handler_copy,
                   published_state, published_dlink>>

CopyState ==
    /\ command \in {"reset_copy", "trigger_copy"}
    /\ handler_copy' = state
    /\ command' = IF command = "reset_copy" THEN "reset_publish"
                                            ELSE "trigger_publish"
    /\ UNCHANGED <<state, remaining, matcher, ready_copy, published_state,
                   published_dlink, overlapped, reset, waited>>

(* Mutated form of PublishState: a reset leaves the link.                  *)
PublishStateOnly ==
    /\ command \in {"reset_publish", "trigger_publish"}
    /\ published_state' = handler_copy
    /\ command' = "none"
    /\ UNCHANGED <<state, remaining, matcher, ready_copy, handler_copy,
                   published_dlink, overlapped, reset, waited>>

PublishState ==
    /\ command \in {"reset_publish", "trigger_publish"}
    /\ published_state' = handler_copy
    /\ command' = IF command = "reset_publish" THEN "reset_dlink" ELSE "none"
    /\ UNCHANGED <<state, remaining, matcher, ready_copy, handler_copy,
                   published_dlink, overlapped, reset, waited>>

PublishNoLink ==
    /\ command = "reset_dlink"
    /\ published_dlink' = FALSE
    /\ command' = "none"
    /\ UNCHANGED <<state, remaining, matcher, ready_copy, handler_copy,
                   published_state, overlapped, reset, waited>>

HandlerStep == \/ handle_reset \/ handle_trigger_matching
               \/ CopyState \/ PublishState \/ PublishNoLink

SlacNext == ReadyStep \/ HandlerStep

-----------------------------------------------------------------------------
(* Properties.                                                             *)

(* When neither thread is at work what is published agrees with the state, *)
(* a link with MATCHED included, unless the last one to begin found the    *)
(* other at work: then either may have published a copy that was out of    *)
(* date.  But the next one that has the state to itself sets it right,     *)
(* whatever went before.  And no matching is shorter than the countdown,   *)
(* but for one after a reset that came during a countdown: that one goes   *)
(* on where the other left off.                                            *)
LinkAgrees ==
    command = "none" /\ matcher = "look" =>
        /\ ~overlapped => /\ published_state = state
                          /\ state = "UNMATCHED" => ~published_dlink
                          /\ state = "MATCHED" => published_dlink
        /\ state = "MATCHED" => reset \/ waited = seconds_until_match

(* A matching ends, whatever is triggered and reset meanwhile and however  *)
(* the threads are scheduled: MATCHED comes or a reset.                    *)
MatchingEnds == state = "MATCHING" ~> state # "MATCHING"

=============================================================================
