------------------------------ MODULE USSFrame ------------------------------
(***************************************************************************)
(* The frames of the KL02 (USSFrame.cpp): how one is built, and how one is *)
(* found in a buffer that may also hold garbage and parts of frames.       *)
(*                                                                         *)
(*     STX  LGE  ADR  SVC  data ...  BCC                                   *)
(*                                                                         *)
(* LGE counts what follows it, BCC is the exclusive or of all before it.   *)
(* Positions are counted from 1, so position i is index i - 1 of the code. *)
(***************************************************************************)
EXTENDS Integers, Sequences, FiniteSets, SequencesExt

Bytes == 0 .. 255

STX == 2
MIN_FRAME_LENGTH == 5
MAX_FRAME_LENGTH == 260

(* The exclusive or of all bytes: a bit of it is set if it is set in an    *)
(* odd number of them.                                                     *)
Parity(s, bit) == Cardinality({i \in DOMAIN s : (s[i] \div bit) % 2 = 1}) % 2

calc_checksum(s) ==
    1 * Parity(s, 1) + 2 * Parity(s, 2) + 4 * Parity(s, 4) + 8 * Parity(s, 8)
      + 16 * Parity(s, 16) + 32 * Parity(s, 32) + 64 * Parity(s, 64)
      + 128 * Parity(s, 128)

(* The constructor that builds a frame.                                    *)
NewFrame(address, service, data) ==
    LET f == <<STX, (3 + Len(data)) % 256, address, service>> \o data
    IN  Append(f, calc_checksum(f))

get_service(f) == f[4]

-----------------------------------------------------------------------------
(* check_frame looks for a frame at the positions up to Limit: behind it   *)
(* there is no room for one, or too much in front of it.                   *)

Limit(f) ==
    IF Len(f) < MIN_FRAME_LENGTH THEN 0
    ELSE Min({Len(f) - MIN_FRAME_LENGTH + 1, MAX_FRAME_LENGTH + 1})

StartsAt(f) == {i \in 1 .. Limit(f) : f[i] = STX}

(* Mutated form of TotalLength: BCC is counted twice.                      *)
TotalLengthAndOne(f, i) == f[i + 1] + 3

TotalLength(f, i) == f[i + 1] + 2

(* A frame starts at i: its length makes sense, all of it is there, and    *)
(* the checksum is right.                                                  *)
FrameAt(f, i) ==
    /\ f[i + 1] >= 3
    /\ TotalLength(f, i) <= Len(f) - i + 1
    /\ LET end == i + TotalLength(f, i) - 1
       IN  f[end] = calc_checksum(SubSeq(f, i, end - 1))

FramesIn(f) == {i \in StartsAt(f) : FrameAt(f, i)}

From(f, i) == SubSeq(f, i, Len(f))

(* The first frame is moved to the front.  If there is none and as many    *)
(* positions were looked at as ever are, what precedes the last start byte *)
(* is discarded, unless this start byte is the first byte of the buffer or *)
(* there is none.                                                          *)
check_frame(f) ==
    IF FramesIn(f) # {}
    THEN [frame |-> From(f, Min(FramesIn(f))), valid |-> TRUE]
    ELSE IF Limit(f) = MAX_FRAME_LENGTH + 1 /\ StartsAt(f) # {}
    THEN [frame |-> From(f, Max(StartsAt(f))), valid |-> FALSE]
    ELSE [frame |-> f, valid |-> FALSE]

(* push_back of a buffer that holds no frame yet.                          *)
push_back(f, chunk) == check_frame(f \o chunk)

(* Mutated form of clear: the buffer is not emptied.                       *)
clear_nothing(f) == f

clear(f) == <<>>

(* A buffer in which no frame will ever be found: all positions that are   *)
(* looked at are taken, none starts a frame, and nothing is discarded.     *)
Deaf(f) ==
    /\ Limit(f) = MAX_FRAME_LENGTH + 1
    /\ StartsAt(f) \subseteq {1}
    /\ FramesIn(f) = {}

=============================================================================
