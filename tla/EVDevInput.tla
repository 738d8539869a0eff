----------------------------- MODULE EVDevInput ------------------------------
(***************************************************************************)
(* GenericEVDevTokenProvider and SimpleEVDevTxStopBtn: both read an input  *)
(* device through libevdev, in the same loop.  One collects the characters *)
(* a tag reader types and reports a token with Enter, the other stops the  *)
(* transaction with a certain key.                                         *)
(***************************************************************************)
EXTENDS Naturals, Sequences, FiniteSets

CONSTANTS
    Consumers,       \* of "token_provider", "stop_button"
    Chars,           \* keys with a character ...
    Enter, Stop,     \* ... and without one
    TrimLength,      \* 10 and the two leading characters that go: a token
    Trim,            \* of that length is shortened
    QueueBound,      \* the events the kernel keeps for a reader
    MaxTyped,        \* bound on the keys pressed ...
    MaxOverflows     \* ... and on the overflows of that queue

InputParameters ==
    /\ Enter \notin Chars
    /\ TrimLength \in Nat /\ Trim \in Nat
    /\ QueueBound \in Nat /\ QueueBound >= 2
    /\ MaxTyped \in Nat /\ MaxOverflows \in Nat

Keys == Chars \cup {Enter, Stop}

VARIABLES
    consumer,
    queue,           \* events the kernel holds: a key and its value, or Dropped
    plugged,         \* the device is there
    reading,         \* the inner loop, after poll said that there is something
    loop,            \* "on", or "ended" by an error, which is reported
    id_token,
    published,       \* tokens published, or stops requested
    down,            \* the key held down: a device types one after the other
    typed,           \* history: the keys released and the line each came to, ...
    overflows        \* ... and overflows

inputVars == <<consumer, queue, plugged, reading, loop, id_token, published,
               down, typed, overflows>>

Dropped == [key |-> Enter, value |-> 9]

Event(k, v) == [key |-> k, value |-> v]

InputTypeOK ==
    /\ consumer \in Consumers
    /\ queue \in Seq([key : Keys, value : {0, 1, 2, 9}])
    /\ Len(queue) <= QueueBound
    /\ {plugged, reading} \subseteq BOOLEAN
    /\ loop \in {"on", "ended"}
    /\ id_token \in Seq(Chars) /\ published \in Seq(Seq(Keys))
    /\ down \subseteq Keys
    /\ typed \in Seq([key : Keys, line : Seq(Chars)])
    /\ overflows \in 0 .. MaxOverflows

InputInit ==
    /\ consumer \in Consumers
    /\ queue = <<>> /\ plugged = TRUE
    /\ reading = FALSE /\ loop = "on"
    /\ id_token = <<>> /\ published = <<>>
    /\ down = {} /\ typed = <<>> /\ overflows = 0

-----------------------------------------------------------------------------
(* The device and the kernel.                                              *)

(* A full queue is dropped, all but the event that did not fit.            *)
Queues(e) ==
    IF Len(queue) < QueueBound
    THEN queue' = Append(queue, e) /\ UNCHANGED overflows
    ELSE /\ overflows < MaxOverflows /\ overflows' = overflows + 1
         /\ queue' = <<Dropped, e>>

DeviceUnchanged == UNCHANGED <<consumer, plugged, reading, loop, id_token, published>>

Press(k) ==
    /\ plugged /\ down = {} /\ Len(typed) < MaxTyped
    /\ Queues(Event(k, 1))
    /\ down' = {k}
    /\ UNCHANGED typed /\ DeviceUnchanged

Repeat(k) ==
    /\ plugged /\ k \in down
    /\ \A i \in DOMAIN queue : queue[i].value # 2
    /\ Queues(Event(k, 2))
    /\ UNCHANGED <<down, typed>> /\ DeviceUnchanged

(* The characters of the line being typed after the first n keys: those    *)
(* after the last Enter.                                                   *)
LineAt(n) ==
    IF n = 0 \/ typed[n].key = Enter THEN <<>>
    ELSE IF typed[n].key \in Chars THEN Append(typed[n].line, typed[n].key)
                                   ELSE typed[n].line

Release(k) ==
    /\ plugged /\ k \in down
    /\ Queues(Event(k, 0))
    /\ down' = {}
    /\ typed' = Append(typed, [key |-> k, line |-> LineAt(Len(typed))])
    /\ DeviceUnchanged

Unplug ==
    /\ plugged /\ plugged' = FALSE
    /\ UNCHANGED <<consumer, queue, reading, loop, id_token, published, down,
                   typed, overflows>>

-----------------------------------------------------------------------------
(* ready()                                                                 *)

OthersUnchanged == UNCHANGED <<consumer, plugged, down, typed, overflows>>

(* Without events poll waits ...                                           *)
Poll ==
    /\ loop = "on" /\ ~reading /\ queue # <<>>
    /\ reading' = TRUE
    /\ UNCHANGED <<queue, loop, id_token, published>> /\ OthersUnchanged

(* ... or, if the device has gone, returns at once, again and again:       *)
(* nothing looks at POLLHUP.                                               *)
Spin == loop = "on" /\ ~reading /\ queue = <<>> /\ ~plugged /\ UNCHANGED inputVars

Ended == loop = "ended" /\ UNCHANGED inputVars

Trimmed(t) == IF Len(t) = TrimLength THEN SubSeq(t, Trim + 1, Len(t)) ELSE t

(* Mutated form of TokenKey: the token is not cleared.                     *)
TokenKeyKeeps(k) ==
    CASE k = Enter    -> published' = Append(published, Trimmed(id_token)) /\ UNCHANGED id_token
      [] k \in Chars  -> id_token' = Append(id_token, k) /\ UNCHANGED published
      [] OTHER        -> UNCHANGED <<id_token, published>>

TokenKey(k) ==
    CASE k = Enter    -> published' = Append(published, Trimmed(id_token)) /\ id_token' = <<>>
      [] k \in Chars  -> id_token' = Append(id_token, k) /\ UNCHANGED published
      [] OTHER        -> UNCHANGED <<id_token, published>>

StopKey(k) == /\ published' = IF k = Stop THEN Append(published, <<k>>) ELSE published
              /\ UNCHANGED id_token

NextEvent ==
    /\ reading /\ plugged /\ queue # <<>> /\ Head(queue) # Dropped
    /\ queue' = Tail(queue)
    /\ IF Head(queue).value # 0 THEN UNCHANGED <<id_token, published>>
       ELSE IF consumer = "token_provider" THEN TokenKey(Head(queue).key)
                                           ELSE StopKey(Head(queue).key)
    /\ UNCHANGED <<reading, loop>> /\ OthersUnchanged

(* SYN_DROPPED ends the inner loop.  The next one does not ask for what it *)
(* missed, and libevdev then drops what it had already read behind it.     *)
NextEventSync ==
    /\ reading /\ plugged /\ queue # <<>> /\ Head(queue) = Dropped
    /\ \E n \in 2 .. Len(queue) + 1 : queue' = SubSeq(queue, n, Len(queue))
    /\ reading' = FALSE
    /\ UNCHANGED <<loop, id_token, published>> /\ OthersUnchanged

NextEventAgain ==
    /\ reading /\ plugged /\ queue = <<>>
    /\ reading' = FALSE
    /\ UNCHANGED <<queue, loop, id_token, published>> /\ OthersUnchanged

(* The read fails, which is reported by one of the modules.                *)
NextEventFails ==
    /\ reading /\ ~plugged
    /\ reading' = FALSE /\ loop' = "ended"
    /\ UNCHANGED <<queue, id_token, published>> /\ OthersUnchanged

Reader == Poll \/ Spin \/ Ended \/ NextEvent \/ NextEventSync \/ NextEventAgain \/ NextEventFails

Device == Unplug \/ \E k \in Keys : Press(k) \/ Repeat(k) \/ Release(k)

InputNext == Reader \/ Device

-----------------------------------------------------------------------------
(* Properties.                                                             *)

(* Of the first n keys typed, those that are Enter, and Stop.              *)
EntersTo(n) == {j \in DOMAIN typed : j <= n /\ typed[j].key = Enter}
StopsTo(n)  == {j \in DOMAIN typed : j <= n /\ typed[j].key = Stop}

Enters == EntersTo(Len(typed))
Stops  == StopsTo(Len(typed))

(* What is to be published for the i-th Enter is the line before it, and   *)
(* what is published and was never typed is spoilt.                        *)
Right(i) == \E j \in Enters : /\ Cardinality(EntersTo(j)) = i
                             /\ published[i] = Trimmed(typed[j].line)

Spoilt == {i \in DOMAIN published :
              \A j \in Enters : published[i] # Trimmed(typed[j].line)}

(* As long as the kernel's queue does not overflow every token typed is    *)
(* published, once, in order and as it was typed, and the key requests one *)
(* stop each time, however many events are read at once.  An overflow      *)
(* spoils one token, made up of the parts of two, and adds no stop.        *)
InputHandled ==
    IF consumer = "token_provider"
    THEN /\ overflows = 0 => /\ \A i \in DOMAIN published : Right(i)
                             /\ queue = <<>> =>
                                   /\ Len(published) = Cardinality(Enters)
                                   /\ id_token = LineAt(Len(typed))
         /\ Cardinality(Spoilt) <= overflows
    ELSE /\ Len(published) <= Cardinality(Stops)
         /\ overflows = 0 /\ queue = <<>> => Len(published) = Cardinality(Stops)

=============================================================================
