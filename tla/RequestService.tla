--------------------------- MODULE RequestService ---------------------------
(***************************************************************************)
(* What the drivers of this repository promise to the threads that use     *)
(* them: operations are served one at a time, each of them as a series of  *)
(* requests to the device of which at most one is awaited at any time.     *)
(* A wait ends with an answer (Learn) or with an exception (Throw); that   *)
(* it ends is not promised here.  A request that could not be written is   *)
(* not awaited: its operation goes on, or returns, as if it had been.      *)
(*                                                                         *)
(* KL02Link and MCULink implement this specification.                      *)
(***************************************************************************)
CONSTANT Users

(* idle: outside the driver;  called: has called an operation;             *)
(* serving: its operation runs;  waiting: ... and awaits an answer.        *)
Phases == {"idle", "called", "serving", "waiting"}

VARIABLE phase

TypeOK == phase \in [Users -> Phases]

Init == phase = [u \in Users |-> "idle"]

Inside(u) == phase[u] \in {"serving", "waiting"}

Moves(u, from, to) ==
    /\ phase[u] = from
    /\ phase' = [phase EXCEPT ![u] = to]

Call(u)  == Moves(u, "idle", "called")
Enter(u) == Moves(u, "called", "serving") /\ \A v \in Users : ~Inside(v)
Ask(u)   == Moves(u, "serving", "waiting")
Learn(u) == Moves(u, "waiting", "serving")
Throw(u) == Moves(u, "waiting", "idle")
Leave(u) == Moves(u, "serving", "idle")

Next == \E u \in Users :
    Call(u) \/ Enter(u) \/ Ask(u) \/ Learn(u) \/ Throw(u) \/ Leave(u)

Spec == Init /\ [][Next]_phase

-----------------------------------------------------------------------------

(* Nobody runs an operation while another user runs one: what an operation *)
(* learns from its requests still holds when it sends the next one.        *)
Exclusive == \A u, v \in Users : Inside(u) /\ Inside(v) => u = v

=============================================================================
