--------------------------- MODULE ConnectionLoop ---------------------------
(***************************************************************************)
(* The connection loop that the modules with a serial device share: ready()*)
(* of EVAchargeSEEVSE, EVAchargeSEEV and MCSTesterEV, with the part of the *)
(* driver it drives: set_gensio, enable_tx, disable_tx, the error path of  *)
(* read and freed.                                                         *)
(*                                                                         *)
(* The modules that extend this one say what else happens in these steps.  *)
(***************************************************************************)
EXTENDS Naturals

CONSTANT
    WakeBound     \* bound on the pending wakes of the waiter

ASSUME LoopAssumption == WakeBound \in Nat \ {0}

VARIABLES
    io,           \* what the driver's io points at
    main,         \* where the loop is
    wakes,        \* pending wakes of the waiter
    tx_enabled, reinit

loopVars == <<io, main, wakes, tx_enabled, reinit>>

LoopTypeOK ==
    /\ io \in {"null", "created", "open", "broken", "closed", "gone"}
    /\ main \in {"create", "open", "wait", "close", "destroy", "sleep"}
    /\ wakes \in 0 .. WakeBound
    /\ tx_enabled \in BOOLEAN /\ reinit \in BOOLEAN

LoopInit ==
    /\ io = "null"
    /\ main = "create"
    /\ wakes = 0
    /\ tx_enabled = FALSE /\ reinit = FALSE

-----------------------------------------------------------------------------

(* A new gensio, and set_gensio.                                           *)
NewGensio ==
    /\ main = "create"
    /\ io' = "created"
    /\ reinit' = TRUE
    /\ main' = "open"
    /\ UNCHANGED <<wakes, tx_enabled>>

(* open_s succeeds: reading and the query thread are switched on.          *)
OpenGensio ==
    /\ main = "open"
    /\ io' = "open"
    /\ tx_enabled' = TRUE
    /\ main' = "wait"
    /\ UNCHANGED <<wakes, reinit>>

(* open_s throws: the gensio is destroyed, there is nothing to close.      *)
OpenThrows ==
    /\ main = "open"
    /\ wakes < WakeBound
    /\ main' = "destroy"
    /\ UNCHANGED <<io, wakes, tx_enabled, reinit>>

(* read is told of an error: the callbacks are switched off, the waiter is *)
(* woken.                                                                  *)
Break ==
    /\ main = "wait" /\ io = "open"
    /\ wakes < WakeBound
    /\ io' = "broken"
    /\ wakes' = wakes + 1
    /\ UNCHANGED <<main, tx_enabled, reinit>>

(* wait(1) returns: disable_tx.                                            *)
WaitReturns ==
    /\ main = "wait"
    /\ wakes > 0
    /\ wakes' = wakes - 1
    /\ tx_enabled' = FALSE
    /\ main' = "close"
    /\ UNCHANGED <<io, reinit>>

CloseGensio ==
    /\ main = "close"
    /\ io' = "closed"
    /\ main' = "destroy"
    /\ UNCHANGED <<wakes, tx_enabled, reinit>>

(* The gensio goes out of scope; the driver's io keeps pointing at it.     *)
(* freed wakes the waiter, though nobody waits: the next wait(1) returns   *)
(* at once, and the destruction after it leaves a wake for the one after.  *)
FreeGensio ==
    /\ main = "destroy"
    /\ io' = "gone"
    /\ wakes' = wakes + 1
    /\ main' = "sleep"
    /\ UNCHANGED <<tx_enabled, reinit>>

(* Five seconds later.                                                     *)
Retry ==
    /\ main = "sleep"
    /\ main' = "create"
    /\ UNCHANGED <<io, wakes, tx_enabled, reinit>>

-----------------------------------------------------------------------------

(* EVAchargeSEEVSE.cpp:66: "in case of error, just sleep shortly, then try *)
(* to re-establish the connection to the reader": a connection is given up *)
(* only in case of an error.  README section 5 says when this fails.       *)
ClosedInErrorOnly == [][main = "wait" /\ main' = "close" => io = "broken"]_loopVars

=============================================================================
