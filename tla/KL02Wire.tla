------------------------------ MODULE KL02Wire ------------------------------
(***************************************************************************)
(* From the bytes on the wire to the values the driver works with:         *)
(* KL02::read collects the chunks that gensio delivers until they hold a   *)
(* frame, handles it, and drops the buffer.  KL02Link has the threads      *)
(* around this and takes every answer for one value.                       *)
(*                                                                         *)
(* The KL02 answers Rounds times with the same frame.  Before the first    *)
(* answer there may be noise on the line; gensio cuts the line into chunks *)
(* as it likes.                                                            *)
(***************************************************************************)
EXTENDS KL02Evaluation, USSFrame

CONSTANTS
    Measured(_),    \* the words considered for a service
    Noises(_, _),   \* what may precede the answer: service and word
    Chunks(_, _)    \* the chunk sizes considered for it

VARIABLES
    service,        \* what the KL02 is asked for
    word,           \* the word it answers with
    rx_frame,       \* the driver's receive buffer
    line,           \* bytes gensio has yet to deliver
    noise,          \* history: what came before the first answer
    round,          \* history: answers sent
    handled         \* history: frames handled since the last answer was sent

vars == <<service, word, rx_frame, line, noise, round, handled>>

ADR == 0
RSP == 128
AN2295_ACK == 252

GET_PWM == 16
GET_UCP == 20
RESET == 51
PP_VOLTAGE == 82
Asked == {GET_PWM, GET_UCP, RESET, PP_VOLTAGE}

(* RESET is what the query thread asks for while reinit is set.            *)
reinit == service = RESET

(* What is considered are words, bytes and sizes.                          *)
ASSUME WireAssumption ==
    \A s \in Asked :
        /\ Measured(s) \subseteq Words
        /\ \A w \in Measured(s) : /\ Noises(s, w) \subseteq Seq(Bytes)
                                  /\ Chunks(s, w) \subseteq Nat

is_svc_response_frame(f) == get_service(f) >= RSP

-----------------------------------------------------------------------------
(* The KL02.  What a RESET returns is a flag, everything else words.  That *)
(* their low byte comes first, as read_u16 has it, is an assumption, and   *)
(* KL02USSProtocol.cpp:281 doubts it: no property of a frame rests on it.  *)

InBytes(w) == <<w % 256, w \div 256>>

Payload ==
    CASE service = GET_PWM    -> InBytes(1000) \o InBytes(word)
      [] service = GET_UCP    -> InBytes(word) \o InBytes(65535 - word)
      [] service = RESET      -> <<word % 2>>
      [] service = PP_VOLTAGE -> InBytes(word)

Answer == NewFrame(ADR, service + RSP, Payload)

Rounds == 2

Init ==
    /\ service \in Asked /\ word \in Measured(service)
    /\ rx_frame = <<>> /\ line = <<>> /\ noise = <<>>
    /\ round = 0 /\ handled = <<>>

Respond ==
    /\ line = <<>> /\ round < Rounds
    /\ noise' \in IF round = 0 THEN Noises(service, word) ELSE {noise}
    /\ line' = IF round = 0 THEN noise' \o Answer ELSE Answer
    /\ round' = round + 1
    /\ handled' = <<>>
    /\ UNCHANGED <<service, word, rx_frame>>

-----------------------------------------------------------------------------
(* KL02::read with a chunk of n bytes.                                     *)

Consume(n) == line' = SubSeq(line, n + 1, Len(line))

(* The report of the bootloader, a chunk of its own: answered with QUIT.   *)
ReadAck ==
    /\ reinit /\ line # <<>> /\ Head(line) = AN2295_ACK
    /\ 1 \in Chunks(service, word)
    /\ Consume(1)
    /\ UNCHANGED <<service, word, rx_frame, noise, round, handled>>

(* A chunk of a frame.  A frame that is found is handled if it is a        *)
(* response, and the buffer is emptied, whatever follows the frame in it.  *)
ReadChunk(n) ==
    /\ n <= Len(line)
    /\ ~(reinit /\ n = 1 /\ Head(line) = AN2295_ACK)
    /\ Consume(n)
    /\ LET rx == push_back(rx_frame, SubSeq(line, 1, n))
       IN  IF rx.valid
           THEN /\ rx_frame' = clear(rx.frame)
                /\ handled' = IF is_svc_response_frame(rx.frame)
                              THEN Append(handled, rx.frame) ELSE handled
           ELSE rx_frame' = rx.frame /\ UNCHANGED handled
    /\ UNCHANGED <<service, word, noise, round>>

Read == ReadAck \/ \E n \in Chunks(service, word) \cup {Len(line)} : n > 0 /\ ReadChunk(n)

Next == Respond \/ Read

Spec == Init /\ [][Next]_vars

-----------------------------------------------------------------------------
Sent == round > 0
Delivered == Sent /\ line = <<>>

NoStartByte == \A i \in DOMAIN noise : noise[i] # STX

(* An answer reaches the driver, however it is cut into chunks and         *)
(* whatever noise without a start byte precedes it.  The one exception is  *)
(* a receive buffer that is deaf.                                          *)
AnswerIsHandled ==
    Delivered /\ NoStartByte => handled # <<>> \/ Deaf(rx_frame)

(* The driver handles what was sent and nothing else, and once, if the     *)
(* noise holds no start byte.                                              *)
HandledIsSent == Sent /\ NoStartByte => handled \in {<<>>, <<Answer>>}

-----------------------------------------------------------------------------
(* The CP voltages of IEC 61851-1 that the states stand for.  A word that  *)
(* is read is a two's complement number of 29 mV, and every such voltage   *)
(* within 1 V (1.5 V for E) of the nominal one of a state is taken for     *)
(* that state, every other one for out of range.                           *)
Nominal == [A |-> 12000, B |-> 9000, C |-> 6000, D |-> 3000, E |-> 0,
            F |-> -12000]

Near(mV, s) == LET d == mV - Nominal[s]
                   t == IF s = "E" THEN 1500 ELSE 1000
               IN  -t <= d /\ d <= t

Signed(w) == IF w > 32767 THEN w - 65536 ELSE w

CpBandIsTolerance ==
    LET mV == Millivolt(read_i16(append_u16(word)))
    IN  \A s \in CpStates : CpBand(mV) = s <=> Near(29 * Signed(word), s)

(* No measurable PP voltage falls between two codings, and a lower voltage *)
(* never means a thinner cable.                                            *)
Rating == [None |-> 0, A_13 |-> 13, A_20 |-> 20, A_32 |-> 32,
           A_63_3ph_70_1ph |-> 63, invalid |-> 100]

PpBandsMeet ==
    LET mV == Millivolt(word)
    IN  /\ mV < 4500 => PpBand(mV) # "None"
        /\ Rating[PpBand(mV)] >= Rating[PpBand(Millivolt(word + 1))]

(* What is passed on as a duty cycle is one that has a meaning: 0, 5, 10   *)
(* to 96 or 100 %; filtering it again changes nothing; and no error value  *)
(* is ever taken for a good one.                                           *)
DutyIsMeaningful ==
    IF DutyError(word)
    THEN \A dc \in {0, 50, 1000} \cup (100 .. 960) : FilteredDuty(word) # dc
    ELSE /\ FilteredDuty(word) \in {0, 50, 1000} \cup (100 .. 960)
         /\ FilteredDuty(FilteredDuty(word)) = FilteredDuty(word)

=============================================================================
