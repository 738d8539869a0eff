------------------------- MODULE MCEvseBoardSupport -------------------------
(* EvseBoardSupport for TLC: the pairs of CP bands that are measured.      *)
EXTENDS EvseBoardSupport

(* A vehicle without a defect: with PWM the negative half wave is at F.    *)
Healthy == {"A", "B", "C", "D", "E"} \X {"F"}

(* A voltage between two bands, while it changes from one to the other.    *)
Between == {<<"Disconnected", "F">>}

(* Missing diode, CP short and a voltage out of range on both half waves.  *)
Faulty == {<<"C", "Disconnected">>, <<"E", "E">>,
           <<"Disconnected", "Disconnected">>}

Mixed == Healthy \cup Between \cup Faulty

=============================================================================
