----------------------------- MODULE MCKL02Wire -----------------------------
(* KL02Wire for TLC: every word, in one chunk; some words with noise and   *)
(* in chunks of every size.                                                *)
EXTENDS KL02Wire

(* Words whose bytes look like parts of a frame or like the bootloader's.  *)
Samples == {2, 3, 258, 515, 1282, 764, 64514, 53760}

(* With this word, once, much noise comes before the answer.               *)
LongNoise(s, w) == s = PP_VOLTAGE /\ w = 43605

MCMeasured(s) == IF s = GET_UCP THEN Words ELSE Samples \cup {w \in Words : LongNoise(s, w)}

(* n bytes, start bytes at the positions in stx.                           *)
Garbage(n, stx) == [i \in 1 .. n |-> IF i \in stx THEN STX ELSE 4]

Stray(s) == {<<0>>, <<AN2295_ACK>>, <<AN2295_ACK, 0>>, <<2>>, <<2, 2>>, <<2, 6>>,
             <<2, 7>>, <<2, 255>>, <<2, 4, 2, 3>>, <<85, 2, 3, 0, s + RSP>>}

Truncated(s, w) ==
    {<<2, 5>>, <<2, 5, 0>>, <<2, 5, 0, s + RSP>>, <<2, 5, 0, s + RSP, w % 256>>,
     <<2, 7, 0, s + RSP, w % 256, w \div 256>>}

Long == {Garbage(n, stx) : n \in {255, 258, 260, 261, 262, 300},
                           stx \in {{}, {1}, {2}, {100, 101}, {260}}}

MCNoises(s, w) ==
    {<<>>} \cup (IF w \in Samples THEN Stray(s) \cup Truncated(s, w) ELSE {})
           \cup (IF LongNoise(s, w) THEN Long ELSE {})

MCChunks(s, w) ==
    (IF w \in Samples THEN {1, 2, 3, 5, 6} ELSE {})
           \cup (IF LongNoise(s, w) THEN {1, 64} ELSE {})

=============================================================================
