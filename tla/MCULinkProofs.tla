---------------------------- MODULE MCULinkProofs ----------------------------
(***************************************************************************)
(* Proofs about MCULink for every number of framework threads and every    *)
(* environment: types, the service promised to the callers, and the pairing*)
(* of lines and commands as long as the MCU neither echoes nor is slow.    *)
(***************************************************************************)
EXTENDS MCULink, TLAPS, SequenceTheorems

(* A thread that has steps left holds cmd_mtx and is inside an operation.  *)
LockHeld == \A t \in Threads : /\ Busy(t) => cmd_mtx = t
                               /\ cmd_mtx = t => call[t] # "none"

(* Who waits is the holder of cmd_mtx, in the middle of a command.         *)
WaiterBusy == \A t \in waiting : cmd_mtx = t /\ Busy(t) /\ Current(t) \in Commands

(* Before the gensio is destroyed there is room for one more wake.         *)
WakeRoom == main \in {"close", "destroy"} => wakes < WakeBound

IInv == TypeOK /\ LockHeld /\ WaiterBusy /\ WakeRoom

(* A line answers the command t has sent last.                             *)
Answers(l, t) == l.latest /\ ~l.echo /\ l.to = Current(t)

(* Of the command t waits for there is at most one trace: the command, its *)
(* answer on the wire or its answer in the slot.                           *)
OneTrace(t) ==
    \/ cmd_response = NoLine /\ toHost = <<>> /\ toDev = <<>>
    \/ /\ cmd_response = NoLine /\ toHost = <<>>
       /\ \E o \in Orders : toDev = <<o>> /\ o.latest /\ o.cmd = Current(t)
    \/ /\ cmd_response = NoLine /\ toDev = <<>>
       /\ \E l \in Lines : toHost = <<l>> /\ Answers(l, t)
    \/ toHost = <<>> /\ toDev = <<>> /\ Answers(cmd_response, t)

(* While nobody waits there is none, but for a command the MCU received    *)
(* before the connection broke; it has dealt with that one before the next *)
(* connection.                                                             *)
Paired ==
    /\ dev.echo = FALSE
    /\ \A t \in waiting : OneTrace(t)
    /\ waiting = {} => cmd_response = NoLine /\ (io = "open" => toDev = <<>>)
    /\ waiting = {} \/ io # "open" => toHost = <<>>
    /\ main \in {"create", "open"} => toDev = <<>>
    /\ io = "open" => main \in {"wait", "close"}

PInv == IInv /\ (Prompt => Paired)

USE DEF Threads, threadVars, readerVars, loopVars, wireVars, LoopTypeOK,
        OthersUnchanged

-----------------------------------------------------------------------------
(* Type correctness.                                                       *)

(* Every operation consists of steps.                                      *)
LEMMA ProgramType ==
    ASSUME NEW op \in {"round", "set_cp_state"}
    PROVE  Program(op) \in Seq(Steps)
<1>1. {"reset", "echo off", "auto_plug on", "reinit_done", "get_voltages",
       "set_ce_state"} \subseteq Steps
  BY DEF Steps, Commands
<1>2. /\ <<>> \in Seq(Steps)
      /\ \A x \in Steps : <<x>> \in Seq(Steps)
      /\ \A x, y, z, w \in Steps : <<x, y, z, w>> \in Seq(Steps)
  OBVIOUS
<1>3. Reinit \in Seq(Steps)
  BY <1>1, <1>2 DEF Reinit
<1>4. (IF reinit THEN Reinit ELSE <<>>) \o <<"get_voltages">> \in Seq(Steps)
  BY <1>1, <1>2, <1>3, ConcatProperties
<1>5. <<"set_ce_state">> \in Seq(Steps)
  BY <1>1, <1>2
<1>6. CASE op = "round"
  BY <1>4, <1>6 DEF Program
<1>7. CASE op = "set_cp_state"
  BY <1>5, <1>7 DEF Program
<1> QED BY <1>6, <1>7

(* A step taken off an agenda leaves an agenda.                            *)
LEMMA AdvanceType ==
    ASSUME TypeOK, NEW t \in Threads, Busy(t), Advance(t)
    PROVE  agenda' \in [Threads -> Seq(Steps)]
<1>1. agenda[t] \in Seq(Steps) /\ agenda[t] # <<>>
  BY DEF TypeOK, Busy
<1>2. Tail(agenda[t]) \in Seq(Steps)
  BY <1>1, HeadTailProperties
<1> QED BY <1>2 DEF TypeOK, Advance

(* An operation that throws leaves typed threads behind.                   *)
LEMMA ThrowType ==
    ASSUME TypeOK, NEW t \in Threads, Throw(t)
    PROVE  /\ call' \in [Threads -> {"none", "round", "set_cp_state"}]
           /\ agenda' \in [Threads -> Seq(Steps)]
           /\ cmd_mtx' \in Threads \cup {NoThread}
           /\ process' \in {"running", "terminated"}
<1>1. CASE t = Query
  BY <1>1 DEF TypeOK, Throw
<1>2. CASE t # Query
  <2>1. Leave(t) /\ process' = process
    BY <1>2 DEF Throw
  <2>2. <<>> \in Seq(Steps)
    OBVIOUS
  <2> QED BY <2>1, <2>2 DEF TypeOK, Leave
<1> QED BY <1>1, <1>2

(* So does one that takes a line.                                          *)
LEMMA TakeType ==
    ASSUME TypeOK, NEW t \in Threads, Busy(t), TakeLine(t)
    PROVE  /\ call' \in [Threads -> {"none", "round", "set_cp_state"}]
           /\ agenda' \in [Threads -> Seq(Steps)]
           /\ cmd_mtx' \in Threads \cup {NoThread}
           /\ process' \in {"running", "terminated"}
           /\ cmd_response' = NoLine
<1>1. CASE Throw(t)
  BY <1>1, ThrowType DEF TakeLine
<1>2. CASE Advance(t) /\ UNCHANGED <<call, cmd_mtx, process>>
  BY <1>2, AdvanceType DEF TypeOK, TakeLine
<1> QED BY <1>1, <1>2 DEF TakeLine

(* What is under way keeps its types when it becomes outdated.             *)
LEMMA OutdatedType ==
    ASSUME NEW q, NEW S \in {Lines, Orders}, q \in Seq(S)
    PROVE  Outdated(q) \in Seq(S) /\ Len(Outdated(q)) = Len(q)
<1>1. Len(q) \in Nat /\ DOMAIN q = 1 .. Len(q) /\ \A i \in 1 .. Len(q) : q[i] \in S
  BY LenProperties
<1>2. \A x \in S : [x EXCEPT !.latest = FALSE] \in S
  <2>1. /\ \A x \in Lines : [x EXCEPT !.latest = FALSE] \in Lines
        /\ \A x \in Orders : [x EXCEPT !.latest = FALSE] \in Orders
    BY DEF Lines, Orders
  <2> QED BY <2>1
<1>3. Outdated(q) \in [1 .. Len(q) -> S]
  BY <1>1, <1>2 DEF Outdated
<1> QED BY <1>1, <1>3, SeqDef, LenProperties

(* Every step of a thread keeps the types.                                 *)
LEMMA ThreadType ==
    ASSUME MCULinkAssumption, TypeOK, WaiterBusy,
           NEW t \in Threads, Lock(t) \/ ThreadStep(t)
    PROVE  TypeOK'
<1>1. CASE Lock(t)
  <2>1. call[t] \in {"round", "set_cp_state"}
    BY <1>1 DEF TypeOK, Lock
  <2>2. Program(call[t]) \in Seq(Steps)
    BY <2>1, ProgramType
  <2> QED BY <1>1, <2>2 DEF TypeOK, Lock
<1>2. CASE Execute(t)
  <2>1. Order(Current(t)) \in Orders
    BY <1>2 DEF TypeOK, Execute, Transmits, Order, Orders
  <2>2. /\ Outdated(toDev) \in Seq(Orders) /\ Len(Outdated(toDev)) = Len(toDev)
        /\ Outdated(toHost) \in Seq(Lines)
    BY OutdatedType DEF TypeOK
  <2>3. toDev' \in Seq(Orders) /\ Len(toDev') <= QueueBound
    <3>1. toDev' = Append(Outdated(toDev), Order(Current(t))) /\ Len(toDev) < QueueBound
      BY <1>2 DEF Execute
    <3>2. /\ toDev' \in Seq(Orders)
          /\ Len(toDev') = Len(toDev) + 1
      BY <2>1, <2>2, <3>1, AppendProperties
    <3>3. Len(toDev) \in Nat /\ QueueBound \in Nat
      BY DEF TypeOK, MCULinkAssumption
    <3> QED BY <3>1, <3>2, <3>3
  <2>4. toHost' \in Seq(Lines) /\ UNCHANGED <<rx_line, loopVars>>
    BY <1>2, <2>2 DEF Execute
  <2>5. dev' \in [reset : BOOLEAN, echo : BOOLEAN, cut : BOOLEAN]
    BY <1>2 DEF TypeOK, Execute
  <2>6. CASE TakeLine(t) /\ waiting' = waiting
    <3>1. Busy(t)
      BY <1>2 DEF Execute, Transmits
    <3> QED BY <2>3, <2>4, <2>5, <2>6, <3>1, TakeType DEF TypeOK
  <2>7. CASE /\ waiting' = waiting \cup {t}
             /\ UNCHANGED <<call, agenda, cmd_mtx, cmd_response, process>>
    BY <2>3, <2>4, <2>5, <2>7 DEF TypeOK
  <2> QED BY <1>2, <2>6, <2>7 DEF Execute
<1>3. CASE ExecuteFails(t)
  <2>1. agenda' \in [Threads -> Seq(Steps)]
    BY <1>3, AdvanceType DEF ExecuteFails, Transmits
  <2> QED BY <1>3, <2>1 DEF TypeOK, ExecuteFails
<1>4. CASE ExecuteShort(t)
  <2>1. agenda' \in [Threads -> Seq(Steps)]
    BY <1>4, AdvanceType DEF ExecuteShort, Transmits
  <2> QED BY <1>4, <2>1 DEF TypeOK, ExecuteShort
<1>5. CASE ExecuteDangling(t)
  <2>1. agenda' \in [Threads -> Seq(Steps)]
    BY <1>5, AdvanceType DEF ExecuteDangling, Transmits, TypeOK
  <2> QED BY <1>5, <2>1 DEF TypeOK, ExecuteDangling
<1>6. CASE Responded(t)
  <2>1. Busy(t)
    BY <1>6 DEF Responded, WaiterBusy
  <2> QED BY <1>6, <2>1, TakeType DEF TypeOK, Responded
<1>7. CASE TimesOut(t)
  <2>1. Throw(t) /\ waiting' \subseteq waiting /\ UNCHANGED <<readerVars, loopVars, wireVars>>
    BY <1>7 DEF TimesOut
  <2> QED BY <2>1, ThrowType DEF TypeOK
<1>8. CASE ReinitDone(t)
  <2>1. agenda' \in [Threads -> Seq(Steps)]
    BY <1>8, AdvanceType DEF ReinitDone
  <2>2. /\ UNCHANGED <<call, cmd_mtx, waiting, readerVars, io, main, wakes,
                       tx_enabled, wireVars, process>>
        /\ reinit' = FALSE
    BY <1>8 DEF ReinitDone
  <2>3. LoopTypeOK'
    BY <2>2 DEF TypeOK
  <2>4. /\ call' \in [Threads -> {"none", "round", "set_cp_state"}]
        /\ cmd_mtx' \in Threads \cup {NoThread} /\ waiting' \subseteq Threads
        /\ {cmd_response, rx_line}' \subseteq Lines \cup {NoLine}
    BY <2>2 DEF TypeOK
  <2>5. /\ toDev' \in Seq(Orders) /\ Len(toDev') <= QueueBound
        /\ toHost' \in Seq(Lines)
        /\ dev' \in [reset : BOOLEAN, echo : BOOLEAN, cut : BOOLEAN]
        /\ process' \in {"running", "terminated"}
    BY <2>2 DEF TypeOK
  <2> HIDE DEF LoopTypeOK
  <2> QED BY <2>1, <2>3, <2>4, <2>5 DEF TypeOK
<1>9. CASE Return(t)
  <2>1. <<>> \in Seq(Steps)
    OBVIOUS
  <2> QED BY <1>9, <2>1 DEF TypeOK, Return, Leave
<1> QED BY <1>1, <1>2, <1>3, <1>4, <1>5, <1>6, <1>7, <1>8, <1>9 DEF ThreadStep

(* Every step of the reader keeps the types.                               *)
LEMMA ReaderType ==
    ASSUME MCULinkAssumption, TypeOK, ReadLine \/ ReadError
    PROVE  TypeOK'
<1>1. CASE ReadLine
  <2>1. /\ toHost \in Seq(Lines) /\ toHost # <<>> /\ toHost' = Tail(toHost)
        /\ rx_line' = NoLine
    BY <1>1 DEF TypeOK, ReadLine
  <2>2. Head(toHost) \in Lines /\ toHost' \in Seq(Lines)
    BY <2>1, HeadTailProperties
  <2>3. cmd_response' \in Lines
    <3>1. CASE rx_line = NoLine
      BY <1>1, <2>2, <3>1 DEF ReadLine
    <3>2. CASE rx_line # NoLine
      <4>1. rx_line.ok \in BOOLEAN
        BY <3>2 DEF TypeOK, Lines
      <4>2. PICK ok \in BOOLEAN : cmd_response' = [Head(toHost) EXCEPT !.ok = ok]
        BY <1>1, <3>2, <4>1 DEF ReadLine
      <4> QED BY <2>2, <4>2 DEF Lines
    <3> QED BY <3>1, <3>2
  <2> QED BY <1>1, <2>1, <2>2, <2>3 DEF TypeOK, ReadLine
<1>2. CASE ReadError
  <2>1. wakes' \in 0 .. WakeBound
    BY <1>2, LoopAssumption DEF LoopAssumption, TypeOK, ReadError, Break
  <2>2. toDev' \in {toDev, <<>>} /\ toHost' = <<>>
    BY <1>2 DEF ReadError
  <2>3. /\ toDev' \in Seq(Orders) /\ Len(toDev') <= QueueBound
        /\ toHost' \in Seq(Lines)
    <3>1. /\ <<>> \in Seq(Orders) /\ <<>> \in Seq(Lines) /\ Len(<<>>) = 0
          /\ 0 <= QueueBound
      BY DEF MCULinkAssumption
    <3> QED BY <2>2, <3>1 DEF TypeOK
  <2>4. rx_line' \in Lines \cup {NoLine}
    <3>1. \A i \in {1} \cap DOMAIN toHost : toHost[i] \in Lines
      BY DEF TypeOK
    <3>2. rx_line' \in {rx_line} \cup {toHost[i] : i \in {1} \cap DOMAIN toHost}
      BY <1>2 DEF ReadError
    <3> QED BY <3>1, <3>2 DEF TypeOK
  <2> QED BY <1>2, <2>1, <2>3, <2>4 DEF TypeOK, ReadError, Break
<1> QED BY <1>1, <1>2

(* Every step of the connection loop keeps the types.                      *)
LEMMA MainType ==
    ASSUME TypeOK, WakeRoom, MainStep \/ OpenFails
    PROVE  TypeOK'
<1>1. CASE Create
  BY <1>1 DEF TypeOK, Create, NewGensio
<1>2. CASE Open
  BY <1>2 DEF TypeOK, Open, OpenGensio
<1>3. CASE OpenFails
  BY <1>3 DEF TypeOK, OpenFails, OpenThrows
<1>4. CASE Woken
  <2>1. wakes' \in 0 .. WakeBound
    BY <1>4, LoopAssumption DEF LoopAssumption, TypeOK, Woken, WaitReturns
  <2> QED BY <1>4, <2>1 DEF TypeOK, Woken, WaitReturns
<1>5. CASE Close
  <2>1. <<>> \in Seq(Lines)
    OBVIOUS
  <2> QED BY <1>5, <2>1 DEF TypeOK, Close, CloseGensio
<1>6. CASE Destroy
  <2>1. wakes' \in 0 .. WakeBound
    BY <1>6, LoopAssumption DEF LoopAssumption, TypeOK, WakeRoom, Destroy,
                                FreeGensio
  <2> QED BY <1>6, <2>1 DEF TypeOK, Destroy, FreeGensio
<1>7. CASE SleepDone
  BY <1>7 DEF TypeOK, SleepDone, Retry
<1> QED BY <1>1, <1>2, <1>3, <1>4, <1>5, <1>6, <1>7 DEF MainStep

(* What is left of the commands when the first one goes is typed.          *)
LEMMA TakenType ==
    ASSUME MCULinkAssumption, TypeOK, toDev # <<>>
    PROVE  /\ Head(toDev) \in Orders /\ Tail(toDev) \in Seq(Orders)
           /\ Len(Tail(toDev)) <= QueueBound
<1>1. /\ toDev \in Seq(Orders) /\ Len(toDev) \in Nat /\ Len(toDev) <= QueueBound
      /\ QueueBound \in Nat
  BY DEF TypeOK, MCULinkAssumption
<1>2. /\ Head(toDev) \in Orders /\ Tail(toDev) \in Seq(Orders)
      /\ Len(Tail(toDev)) = Len(toDev) - 1
  BY <1>1, HeadTailProperties
<1> QED BY <1>1, <1>2

(* Every step of the MCU and of the wire keeps the types.                  *)
LEMMA DeviceType ==
    ASSUME MCULinkAssumption, TypeOK, DevServe \/ WireLoses
    PROVE  TypeOK'
<1>1. CASE DevServe
  <2> DEFINE o == Head(toDev)
             echoed == IF dev.echo THEN <<Line(o, TRUE, TRUE)>> ELSE <<>>
  <2>1. toDev # <<>> /\ toDev' = Tail(toDev)
    BY <1>1 DEF DevServe
  <2>2. o \in Orders /\ toDev' \in Seq(Orders) /\ Len(toDev') <= QueueBound
    BY <2>1, TakenType
  <2>3. \A e, ok \in BOOLEAN : Line(o, e, ok) \in Lines
    BY <2>2 DEF Line, Lines, Orders
  <2>8. <<>> \in Seq(Lines) /\ \A x \in Lines : <<x>> \in Seq(Lines)
    OBVIOUS
  <2>4. echoed \in Seq(Lines)
    BY <2>3, <2>8, Zenon
  <2>5. toHost' \in Seq(Lines)
    <3>1. PICK ok \in Accepts(o) :
              IF io = "open"
              THEN toHost' = toHost \o echoed \o <<Line(o, FALSE, ok)>>
              ELSE UNCHANGED toHost
      BY <1>1 DEF DevServe
    <3>2. ok \in BOOLEAN
      BY <3>1 DEF Accepts
    <3>3. <<Line(o, FALSE, ok)>> \in Seq(Lines)
      BY <2>3, <2>8, <3>2, Zenon
    <3>4. toHost \in Seq(Lines)
      BY DEF TypeOK
    <3> HIDE DEF echoed, o
    <3>5. toHost \o echoed \o <<Line(o, FALSE, ok)>> \in Seq(Lines)
      BY <2>4, <3>3, <3>4, ConcatProperties
    <3> QED BY <3>1, <3>4, <3>5
  <2>6. dev' \in [reset : BOOLEAN, echo : BOOLEAN, cut : BOOLEAN]
    BY <1>1 DEF TypeOK, DevServe
  <2>7. UNCHANGED <<threadVars, readerVars, loopVars, process>>
    BY <1>1 DEF DevServe
  <2> QED BY <2>2, <2>5, <2>6, <2>7 DEF TypeOK
<1>2. CASE WireLoses
  <2>1. \/ toDev # <<>> /\ toDev' = Tail(toDev) /\ toHost' = toHost
        \/ toHost # <<>> /\ toHost' = Tail(toHost) /\ toDev' = toDev
    BY <1>2 DEF WireLoses
  <2>2. /\ toDev' \in Seq(Orders) /\ Len(toDev') <= QueueBound
        /\ toHost' \in Seq(Lines)
    <3>1. /\ toDev \in Seq(Orders) /\ Len(toDev) <= QueueBound
          /\ toHost \in Seq(Lines)
      BY DEF TypeOK
    <3>2. toHost # <<>> => Tail(toHost) \in Seq(Lines)
      BY <3>1, HeadTailProperties
    <3> QED BY <2>1, <3>1, <3>2, TakenType
  <2>3. UNCHANGED <<threadVars, readerVars, loopVars, dev, process>>
    BY <1>2 DEF WireLoses
  <2> QED BY <2>2, <2>3 DEF TypeOK
<1> QED BY <1>1, <1>2

-----------------------------------------------------------------------------
(* The lock and the wait.                                                  *)

(* Nobody waits but the thread that has cmd_mtx.                           *)
LEMMA SoleWaiter ==
    ASSUME MCULinkAssumption, TypeOK, WaiterBusy
    PROVE  /\ cmd_mtx = NoThread => waiting = {}
           /\ \A t \in Threads : cmd_mtx = t => waiting \subseteq {t}
  BY DEF MCULinkAssumption, TypeOK, WaiterBusy

(* Nobody waits while a thread sends a command or does something else.     *)
LEMMA NoWaiter ==
    ASSUME MCULinkAssumption, IInv, NEW t \in Threads, Busy(t),
           t \notin waiting \/ Current(t) \notin Commands
    PROVE  cmd_mtx = t /\ waiting = {}
<1>1. cmd_mtx = t /\ t \notin waiting
  BY DEF IInv, LockHeld, WaiterBusy
<1> QED BY <1>1, SoleWaiter DEF IInv

(* The holder of cmd_mtx takes a step of its agenda off, or leaves the     *)
(* lock, while it does not wait.                                           *)
LEMMA HolderStep ==
    ASSUME MCULinkAssumption, IInv, NEW t \in Threads, cmd_mtx = t, waiting' = {},
           \/ Advance(t) /\ UNCHANGED <<call, cmd_mtx>>
           \/ Leave(t)
           \/ UNCHANGED <<agenda, call, cmd_mtx>>
    PROVE  LockHeld' /\ WaiterBusy'
<1>0. TypeOK /\ LockHeld
  BY DEF IInv
<1>1. WaiterBusy'
  BY DEF WaiterBusy
<1>2. ASSUME NEW u \in Threads, agenda'[u] # <<>> PROVE cmd_mtx' = u
  <2>1. CASE u # t
    <3>1. agenda'[u] = agenda[u]
      BY <1>0, <2>1 DEF TypeOK, Advance, Leave
    <3> QED BY <1>0, <1>2, <2>1, <3>1 DEF LockHeld, Busy
  <2>2. CASE u = t /\ Leave(t)
    <3>1. agenda'[t] = <<>>
      BY <1>0, <2>2 DEF TypeOK, Leave
    <3> QED BY <1>2, <2>2, <3>1
  <2> QED BY <2>1, <2>2
<1>3. ASSUME NEW u \in Threads, cmd_mtx' = u PROVE call'[u] # "none"
  BY <1>0, <1>3 DEF LockHeld, Leave, MCULinkAssumption
<1> QED BY <1>1, <1>2, <1>3 DEF LockHeld, Busy

(* Every step of a thread keeps the lock discipline.                       *)
LEMMA ThreadLock ==
    ASSUME MCULinkAssumption, IInv, NEW t \in Threads, Lock(t) \/ ThreadStep(t)
    PROVE  LockHeld' /\ WaiterBusy'
<1>0. TypeOK /\ LockHeld /\ WaiterBusy
  BY DEF IInv
<1>1. CASE Lock(t)
  <2>1. waiting = {} /\ cmd_mtx = NoThread
    BY <1>0, <1>1, SoleWaiter DEF Lock
  <2>2. \A u \in Threads : agenda[u] = <<>>
    BY <1>0, <2>1 DEF MCULinkAssumption, LockHeld, Busy
  <2>3. \A u \in Threads : u # t => agenda'[u] = <<>>
    BY <1>0, <1>1, <2>2 DEF TypeOK, Lock
  <2>4. waiting' = {} /\ cmd_mtx' = t /\ call'[t] # "none"
    BY <1>1, <2>1 DEF Lock
  <2> QED BY <2>3, <2>4 DEF LockHeld, Busy, WaiterBusy
<1>2. ASSUME Throw(t), cmd_mtx = t, waiting' = {}
      PROVE  LockHeld' /\ WaiterBusy'
  BY <1>2, HolderStep DEF Throw
<1>3. ASSUME TakeLine(t), cmd_mtx = t, waiting' = {}
      PROVE  LockHeld' /\ WaiterBusy'
  BY <1>2, <1>3, HolderStep DEF TakeLine
<1>4. CASE Execute(t)
  <2>1. cmd_mtx = t /\ waiting = {} /\ Busy(t) /\ Current(t) \in Commands
    BY <1>4, NoWaiter DEF Execute, Transmits
  <2>2. CASE TakeLine(t) /\ waiting' = waiting
    BY <1>3, <2>1, <2>2
  <2>3. CASE waiting' = waiting \cup {t} /\ UNCHANGED <<call, agenda, cmd_mtx>>
    BY <1>0, <2>1, <2>3 DEF LockHeld, WaiterBusy, Busy, Current
  <2> QED BY <1>4, <2>2, <2>3 DEF Execute
<1>5. CASE ExecuteFails(t) \/ ExecuteShort(t) \/ ExecuteDangling(t)
  <2>1. Transmits(t) /\ waiting' = waiting
    BY <1>5 DEF ExecuteFails, ExecuteShort, ExecuteDangling
  <2>2. cmd_mtx = t /\ waiting' = {}
    BY <2>1, NoWaiter DEF Transmits
  <2> QED BY <1>5, <2>2, HolderStep DEF ExecuteFails, ExecuteShort, ExecuteDangling
<1>6. ASSUME t \in waiting PROVE cmd_mtx = t /\ waiting \ {t} = {}
  BY <1>0, <1>6, SoleWaiter DEF WaiterBusy
<1>7. CASE Responded(t)
  BY <1>3, <1>6, <1>7 DEF Responded
<1>8. CASE TimesOut(t)
  BY <1>2, <1>6, <1>8 DEF TimesOut
<1>9. CASE ReinitDone(t)
  <2>1. Busy(t) /\ Current(t) \notin Commands
    BY <1>9 DEF ReinitDone, Commands
  <2> QED BY <1>9, <2>1, NoWaiter, HolderStep DEF ReinitDone
<1>10. CASE Return(t)
  <2>1. cmd_mtx = t /\ waiting' = {}
    BY <1>0, <1>10, SoleWaiter DEF Return, WaiterBusy
  <2> QED BY <1>10, <2>1, HolderStep DEF Return
<1> QED BY <1>1, <1>4, <1>5, <1>7, <1>8, <1>9, <1>10 DEF ThreadStep

(* The invariant holds at first ...                                        *)
LEMMA InvInit == MCULinkAssumption /\ Init => IInv
<1> SUFFICES ASSUME MCULinkAssumption, Init PROVE IInv
  OBVIOUS
<1>1. /\ agenda \in [Threads -> Seq(Steps)]
      /\ toDev \in Seq(Orders) /\ Len(toDev) = 0 /\ toHost \in Seq(Lines)
      /\ 0 <= QueueBound
  BY DEF Init, MCULinkAssumption
<1>2. dev \in [reset : BOOLEAN, echo : BOOLEAN, cut : BOOLEAN]
  BY DEF Init
<1>3. wakes \in 0 .. WakeBound
  BY LoopAssumption DEF Init, LoopInit, LoopAssumption
<1>4. TypeOK
  BY <1>1, <1>2, <1>3 DEF Init, LoopInit, TypeOK
<1> QED BY <1>4 DEF Init, LoopInit, IInv, LockHeld, WaiterBusy, WakeRoom, Busy,
                   MCULinkAssumption

(* ... and every step keeps it.                                            *)
LEMMA InvNext == MCULinkAssumption /\ IInv /\ [Next]_vars => IInv'
<1> SUFFICES ASSUME MCULinkAssumption, IInv, [Next]_vars PROVE IInv'
  OBVIOUS
<1>0. TypeOK /\ LockHeld /\ WaiterBusy /\ WakeRoom
  BY DEF IInv
<1>1. ASSUME NEW t \in Threads, call[t] = "none",
             NEW op \in {"round", "set_cp_state"}, call' = [call EXCEPT ![t] = op],
             UNCHANGED <<agenda, cmd_mtx, waiting, readerVars, loopVars, wireVars,
                         process>>
      PROVE  IInv'
  <2>1. TypeOK'
    BY <1>0, <1>1 DEF TypeOK
  <2>2. LockHeld' /\ WaiterBusy'
    BY <1>0, <1>1 DEF TypeOK, LockHeld, WaiterBusy, Busy, Current
  <2> QED BY <1>0, <1>1, <2>1, <2>2 DEF IInv, WakeRoom
<1>2. CASE QueryWake \/ \E c \in Clients : ClientCall(c)
  BY <1>1, <1>2 DEF QueryWake, ClientCall
<1>3. ASSUME NEW t \in Threads, Lock(t) \/ ThreadStep(t) PROVE IInv'
  <2>1. TypeOK' /\ LockHeld' /\ WaiterBusy'
    BY <1>0, <1>3, ThreadType, ThreadLock
  <2>2. UNCHANGED <<main, wakes>>
    BY <1>3 DEF Lock, ThreadStep, Execute, ExecuteFails, ExecuteShort,
                ExecuteDangling, Responded, TimesOut, ReinitDone, Return
  <2> QED BY <1>0, <2>1, <2>2 DEF IInv, WakeRoom
<1>4. ASSUME UNCHANGED <<threadVars>> PROVE LockHeld' /\ WaiterBusy'
  BY <1>0, <1>4 DEF LockHeld, WaiterBusy, Busy, Current
<1>5. CASE ReadLine \/ ReadError
  <2>1. TypeOK' /\ UNCHANGED threadVars
    BY <1>0, <1>5, ReaderType DEF ReadLine, ReadError
  <2>2. WakeRoom'
    BY <1>0, <1>5 DEF WakeRoom, ReadLine, ReadError, Break
  <2> QED BY <1>4, <2>1, <2>2 DEF IInv
<1>6. CASE MainStep \/ OpenFails
  <2>1. TypeOK'
    BY <1>0, <1>6, MainType
  <2>2. UNCHANGED threadVars
    BY <1>6 DEF MainStep, Create, Open, OpenFails, Woken, Close, Destroy, SleepDone
  <2>3. WakeRoom'
    <3>1. CASE Woken
      BY <1>0, <3>1, LoopAssumption DEF LoopAssumption, TypeOK, WakeRoom,
                                        Woken, WaitReturns
    <3>2. CASE Close
      BY <1>0, <3>2 DEF WakeRoom, Close, CloseGensio
    <3>3. CASE OpenFails
      BY <1>0, <3>3 DEF WakeRoom, OpenFails, OpenThrows
    <3>4. CASE Create \/ Open \/ Destroy \/ SleepDone
      BY <3>4 DEF WakeRoom, Create, NewGensio, Open, OpenGensio, Destroy,
                  FreeGensio, SleepDone, Retry
    <3> QED BY <1>6, <3>1, <3>2, <3>3, <3>4 DEF MainStep
  <2> QED BY <1>4, <2>1, <2>2, <2>3 DEF IInv
<1>7. CASE DevServe \/ WireLoses
  <2>1. TypeOK' /\ UNCHANGED threadVars /\ UNCHANGED loopVars
    BY <1>0, <1>7, DeviceType DEF DevServe, WireLoses
  <2> QED BY <1>0, <1>4, <2>1 DEF IInv, WakeRoom
<1>8. CASE UNCHANGED vars
  BY <1>0, <1>8 DEF vars, IInv, TypeOK, LockHeld, WaiterBusy, WakeRoom, Busy, Current
<1> QED BY <1>2, <1>3, <1>5, <1>6, <1>7, <1>8 DEF Next, Running, Terminated

(* The driver's state has its type, whatever the environment does.         *)
THEOREM TypeCorrect == Spec => []TypeOK
<1>1. Init => IInv
  BY InvInit, MCULinkAssumption
<1>2. IInv /\ [Next]_vars => IInv'
  BY InvNext, MCULinkAssumption
<1>3. IInv => TypeOK
  BY DEF IInv
<1> QED BY <1>1, <1>2, <1>3, PTL DEF Spec

-----------------------------------------------------------------------------
(* Lines and commands.                                                     *)

(* A step that changes neither what is under way nor the connection keeps  *)
(* the pairing, if the waiting threads still wait for the same.            *)
LEMMA PairedStays ==
    ASSUME Paired, UNCHANGED <<readerVars, toDev, toHost, io, main>>,
           dev'.echo = dev.echo, waiting' = waiting,
           \A t \in waiting : Current(t)' = Current(t)
    PROVE  Paired'
  BY DEF Paired, OneTrace, Answers

(* Nothing of the connection is left to a thread that is about to send.    *)
LEMMA SlotEmpty ==
    ASSUME MCULinkAssumption, IInv, Paired, NEW t \in Threads, Transmits(t)
    PROVE  /\ waiting = {} /\ cmd_response = NoLine /\ toHost = <<>>
           /\ io = "open" => toDev = <<>>
  BY NoWaiter DEF Transmits, Paired

(* A thread finds its own answer in the slot.                              *)
LEMMA FindsOwn ==
    ASSUME Paired, NEW t \in waiting, cmd_response # NoLine
    PROVE  toHost = <<>> /\ toDev = <<>> /\ Answers(cmd_response, t)
  BY DEF Paired, OneTrace

(* Every step of a thread keeps the pairing.                               *)
LEMMA ThreadPairs ==
    ASSUME MCULinkAssumption, IInv, Prompt, Paired,
           NEW t \in Threads, Lock(t) \/ ThreadStep(t)
    PROVE  Paired'
<1>0. TypeOK /\ WaiterBusy
  BY DEF IInv
<1>1. CASE Lock(t)
  <2>1. waiting = {}
    BY <1>0, <1>1, SoleWaiter DEF Lock
  <2> QED BY <1>1, <2>1, PairedStays DEF Lock
<1>2. CASE Execute(t)
  <2>1. /\ waiting = {} /\ cmd_response = NoLine /\ toHost = <<>> /\ toDev = <<>>
        /\ io = "open"
    BY <1>2, SlotEmpty DEF Execute
  <2>2. waiting' = {t} /\ UNCHANGED <<agenda, cmd_response>>
    BY <1>2, <2>1 DEF Execute, TakeLine
  <2>3. Outdated(toDev) = <<>> /\ Outdated(toHost) = <<>>
    BY <2>1 DEF Outdated
  <2>4. /\ toDev' = <<Order(Current(t))>> /\ toHost' = <<>>
        /\ dev'.echo = FALSE /\ UNCHANGED <<io, main>>
    BY <1>0, <1>2, <2>3 DEF Execute, Paired, TypeOK
  <2>5. /\ Order(Current(t)) \in Orders /\ Order(Current(t)).latest
        /\ Order(Current(t)).cmd = Current(t)
    BY <1>0, <1>2 DEF TypeOK, Execute, Transmits, Order, Orders
  <2>6. Current(t)' = Current(t)
    BY <2>2 DEF Current
  <2>7. OneTrace(t)'
    BY <2>1, <2>2, <2>4, <2>5, <2>6 DEF OneTrace
  <2>8. main \in {"wait", "close"}
    BY <2>1 DEF Paired
  <2> QED BY <2>1, <2>2, <2>4, <2>7, <2>8 DEF Paired
<1>3. CASE ExecuteFails(t) \/ ExecuteShort(t) \/ ExecuteDangling(t)
  <2>1. waiting = {}
    BY <1>3, SlotEmpty DEF ExecuteFails, ExecuteShort, ExecuteDangling
  <2>2. dev'.echo = dev.echo
    BY <1>0, <1>3 DEF TypeOK, ExecuteFails, ExecuteShort, ExecuteDangling
  <2> QED BY <1>3, <2>1, <2>2, PairedStays
          DEF ExecuteFails, ExecuteShort, ExecuteDangling
<1>4. ASSUME t \in waiting PROVE waiting \ {t} = {}
  BY <1>0, <1>4, SoleWaiter DEF WaiterBusy
<1>5. CASE Responded(t)
  <2>1. toHost = <<>> /\ toDev = <<>>
    BY <1>5, FindsOwn DEF Responded, TakeLine
  <2>2. waiting' = {} /\ cmd_response' = NoLine
    BY <1>4, <1>5 DEF Responded, TakeLine
  <2> QED BY <1>5, <2>1, <2>2 DEF Responded, Paired
<1>6. CASE TimesOut(t)
  <2>1. waiting' = {} /\ cmd_response = NoLine
    BY <1>4, <1>6 DEF TimesOut
  <2>2. io = "open" => toDev = <<>> /\ toHost = <<>>
    BY <1>6 DEF TimesOut, Prompt
  <2> QED BY <1>6, <2>1, <2>2 DEF TimesOut, Paired
<1>7. CASE ReinitDone(t)
  <2>1. waiting = {}
    BY <1>7, NoWaiter DEF ReinitDone, Commands
  <2> QED BY <1>7, <2>1, PairedStays DEF ReinitDone
<1>8. CASE Return(t)
  <2>1. waiting = {}
    BY <1>0, <1>8, SoleWaiter DEF Return, WaiterBusy
  <2> QED BY <1>8, <2>1, PairedStays DEF Return
<1> QED BY <1>1, <1>2, <1>3, <1>5, <1>6, <1>7, <1>8 DEF ThreadStep

(* Every step of the reader and of the connection loop keeps the pairing.  *)
LEMMA LoopPairs ==
    ASSUME MCULinkAssumption, IInv, Prompt, Paired,
           ReadLine \/ ReadError \/ MainStep \/ OpenFails
    PROVE  Paired'
<1>0. TypeOK
  BY DEF IInv
<1>1. CASE ReadLine
  <2>1. io = "open" /\ toHost # <<>> /\ toHost' = Tail(toHost)
        /\ UNCHANGED <<threadVars, loopVars, toDev, dev>>
    BY <1>1 DEF ReadLine
  <2>2. waiting # {}
    BY <2>1 DEF Paired
  <2>3. ASSUME NEW t \in waiting PROVE toHost' = <<>> /\ OneTrace(t)'
    <3>1. /\ cmd_response = NoLine /\ toDev = <<>>
          /\ \E l \in Lines : toHost = <<l>> /\ Answers(l, t)
      BY <2>1 DEF Paired, OneTrace
    <3>2. PICK l \in Lines : toHost = <<l>> /\ Answers(l, t)
      BY <3>1
    <3>3. Head(toHost) = l /\ toHost' = <<>>
      BY <2>1, <3>2
    <3>4. \/ cmd_response' = l
          \/ \E ok : cmd_response' = [l EXCEPT !.ok = ok]
      BY <1>1, <3>3 DEF ReadLine
    <3>5. cmd_response'.latest /\ ~cmd_response'.echo /\ cmd_response'.to = Current(t)
      BY <3>2, <3>4 DEF Answers, Lines
    <3>6. Current(t)' = Current(t)
      BY <2>1 DEF Current
    <3>7. Answers(cmd_response, t)'
      BY <3>5, <3>6 DEF Answers
    <3> QED BY <2>1, <3>1, <3>3, <3>7 DEF OneTrace
  <2> QED BY <2>1, <2>2, <2>3 DEF Paired
<1>2. ASSUME toHost' = <<>>, toDev' \in {toDev, <<>>}, main' \notin {"create", "open"},
             io' # "open", UNCHANGED <<threadVars, cmd_response, dev>>
      PROVE  Paired'
  <2>1. ASSUME NEW t \in waiting PROVE OneTrace(t)'
    <3>1. Current(t)' = Current(t)
      BY <1>2 DEF Current
    <3> QED BY <1>2, <3>1 DEF Paired, OneTrace, Answers
  <2> QED BY <1>2, <2>1 DEF Paired
<1>3. CASE ReadError
  BY <1>2, <1>3 DEF ReadError, Break
<1>4. CASE Close
  BY <1>2, <1>4 DEF Close, CloseGensio
<1>5. ASSUME UNCHANGED <<threadVars, readerVars, wireVars>>,
             io' = "open" => main' = "wait" \/ (main' = "close" /\ io = "open"),
             io' = "open" /\ io # "open" => toDev = <<>>,
             main' \in {"create", "open"} => toDev = <<>>,
             io = "open" /\ io' # "open" => toHost = <<>>
      PROVE  Paired'
  <2>1. ASSUME NEW t \in waiting PROVE OneTrace(t)'
    <3>1. Current(t)' = Current(t)
      BY <1>5 DEF Current
    <3> QED BY <1>5, <3>1 DEF Paired, OneTrace, Answers
  <2> QED BY <1>5, <2>1 DEF Paired
<1>6. CASE Create
  BY <1>5, <1>6 DEF Create, NewGensio, Paired
<1>7. CASE Open
  <2>1. main = "open" /\ main' = "wait" /\ io' = "open"
        /\ UNCHANGED <<threadVars, readerVars, wireVars>>
    BY <1>7 DEF Open, OpenGensio
  <2>2. toDev = <<>> /\ io # "open"
    BY <2>1 DEF Paired
  <2> QED BY <1>5, <2>1, <2>2
<1>8. CASE OpenFails
  BY <1>5, <1>8 DEF OpenFails, OpenThrows, Paired
<1>9. CASE Woken
  BY <1>5, <1>9 DEF Woken, WaitReturns, Paired
<1>10. CASE Destroy
  BY <1>5, <1>10 DEF Destroy, FreeGensio, Paired
<1>11. CASE SleepDone
  BY <1>5, <1>11 DEF SleepDone, Retry, Paired, Prompt
<1> QED BY <1>1, <1>3, <1>4, <1>6, <1>7, <1>8, <1>9, <1>10, <1>11 DEF MainStep

(* Every step of the MCU and of the wire keeps the pairing.                *)
LEMMA DevicePairs ==
    ASSUME MCULinkAssumption, IInv, Prompt, Paired, DevServe \/ WireLoses
    PROVE  Paired'
<1>0. TypeOK
  BY DEF IInv
<1>1. UNCHANGED <<threadVars, readerVars, loopVars>>
  BY DEF DevServe, WireLoses
<1>2. \A t \in waiting : Current(t)' = Current(t)
  BY <1>1 DEF Current
<1>3. CASE DevServe
  <2>1. toDev # <<>> /\ toDev' = Tail(toDev)
    BY <1>3 DEF DevServe
  <2>2. PICK ok \in Accepts(Head(toDev)) :
            IF io = "open"
            THEN toHost' = toHost \o <<>> \o <<Line(Head(toDev), FALSE, ok)>>
            ELSE UNCHANGED toHost
    BY <1>3 DEF DevServe, Paired
  <2>3. dev'.echo = FALSE
    BY <1>0, <1>3 DEF DevServe, Paired, Prompt, TypeOK
  <2>4. ok \in BOOLEAN
    BY <2>2 DEF Accepts
  <2>5. io = "open" => waiting # {}
    BY <2>1 DEF Paired
  <2>6. ASSUME NEW t \in waiting
        PROVE  OneTrace(t)' /\ toDev' = <<>> /\ (io # "open" => toHost' = <<>>)
    <3>1. /\ cmd_response = NoLine /\ toHost = <<>>
          /\ \E o \in Orders : toDev = <<o>> /\ o.latest /\ o.cmd = Current(t)
      BY <2>1 DEF Paired, OneTrace
    <3>2. PICK o \in Orders : toDev = <<o>> /\ o.latest /\ o.cmd = Current(t)
      BY <3>1
    <3>3. Head(toDev) = o /\ toDev' = <<>>
      BY <2>1, <3>2
    <3>4. CASE io = "open"
      <4> DEFINE l == Line(o, FALSE, ok)
      <4>1. l \in Lines /\ l.latest /\ ~l.echo /\ l.to = Current(t)
        BY <2>4, <3>2 DEF Line, Lines, Orders
      <4>2. toHost' = <<>> \o <<>> \o <<l>>
        BY <2>2, <3>1, <3>3, <3>4
      <4> HIDE DEF l
      <4>3. toHost' = <<l>>
        <5>1. <<>> \o <<>> = <<>> /\ <<>> \o <<l>> = <<l>>
          BY <4>1, ConcatEmptySeq
        <5> QED BY <4>2, <5>1
      <4>4. Answers(l, t)'
        BY <1>2, <4>1 DEF Answers, Current
      <4> QED BY <1>1, <1>2, <3>1, <3>3, <3>4, <4>1, <4>3, <4>4 DEF OneTrace, Answers
    <3>5. CASE io # "open"
      BY <1>1, <2>2, <3>1, <3>3, <3>5 DEF OneTrace
    <3> QED BY <3>4, <3>5
  <2>7. CASE waiting = {}
    <3>1. io # "open" /\ toHost' = <<>>
      BY <2>2, <2>5, <2>7 DEF Paired
    <3>2. toDev # <<>> /\ main \notin {"create", "open"}
      BY <2>1 DEF Paired
    <3> QED BY <1>1, <2>3, <2>7, <3>1, <3>2 DEF Paired
  <2>8. CASE waiting # {}
    BY <1>1, <2>3, <2>6, <2>8 DEF Paired
  <2> QED BY <2>7, <2>8
<1>4. CASE WireLoses
  <2>1. dev' = dev
    BY <1>4 DEF WireLoses
  <2>2. CASE toDev # <<>> /\ toDev' = Tail(toDev) /\ UNCHANGED toHost
    <3>1. ASSUME NEW t \in waiting PROVE OneTrace(t)'
      <4>1. cmd_response = NoLine /\ toHost = <<>> /\ \E o \in Orders : toDev = <<o>>
        BY <2>2 DEF Paired, OneTrace
      <4>2. toDev' = <<>>
        BY <2>2, <4>1
      <4> QED BY <1>1, <2>2, <4>1, <4>2 DEF OneTrace
    <3>2. io = "open" => waiting # {}
      BY <2>2 DEF Paired
    <3>3. main \notin {"create", "open"}
      BY <2>2 DEF Paired
    <3> QED BY <1>1, <2>1, <2>2, <3>1, <3>2, <3>3 DEF Paired
  <2>3. CASE toHost # <<>> /\ toHost' = Tail(toHost) /\ UNCHANGED toDev
    <3>1. ASSUME NEW t \in waiting PROVE OneTrace(t)' /\ toHost' = <<>>
      <4>1. cmd_response = NoLine /\ toDev = <<>> /\ \E l \in Lines : toHost = <<l>>
        BY <2>3 DEF Paired, OneTrace
      <4>2. toHost' = <<>>
        BY <2>3, <4>1
      <4> QED BY <1>1, <2>3, <4>1, <4>2 DEF OneTrace
    <3>2. waiting # {} /\ io = "open"
      BY <2>3 DEF Paired
    <3> QED BY <1>1, <2>1, <2>3, <3>1, <3>2 DEF Paired
  <2> QED BY <1>4, <2>2, <2>3 DEF WireLoses
<1> QED BY <1>3, <1>4

(* So does the pairing hold at first ...                                   *)
LEMMA PairedInit == MCULinkAssumption /\ Init => PInv
<1>1. MCULinkAssumption /\ Init => IInv
  BY InvInit
<1>2. ASSUME Init, Prompt PROVE Paired
  <2>1. dev.echo = FALSE
    <3>1. "echo" \notin env
      BY <1>2 DEF Prompt
    <3>2. ("echo" \in env) = FALSE
      BY <3>1
    <3>3. dev = [reset |-> FALSE, echo |-> FALSE, cut |-> FALSE]
      BY <1>2, <3>2 DEF Init
    <3> QED BY <3>3
  <2>2. /\ waiting = {} /\ cmd_response = NoLine /\ toDev = <<>> /\ toHost = <<>>
        /\ io # "open" /\ main \notin {"open", "wait", "close"}
    BY <1>2 DEF Init, LoopInit
  <2> QED BY <2>1, <2>2 DEF Paired
<1> QED BY <1>1, <1>2 DEF PInv

(* ... and every step keeps it.                                            *)
LEMMA PairedNext == MCULinkAssumption /\ PInv /\ [Next]_vars => PInv'
<1> SUFFICES ASSUME MCULinkAssumption, PInv, [Next]_vars PROVE PInv'
  OBVIOUS
<1>1. IInv /\ IInv' /\ (Prompt => Paired)
  BY InvNext DEF PInv
<1>2. env' = env
  BY DEF Next, Terminated, vars
<1> SUFFICES ASSUME Prompt PROVE Paired'
  BY <1>1, <1>2 DEF PInv, Prompt
<1>3. Paired
  BY <1>1
<1>4. CASE QueryWake \/ \E c \in Clients : ClientCall(c)
  BY <1>3, <1>4, PairedStays DEF QueryWake, ClientCall, Current
<1>5. ASSUME NEW t \in Threads, Lock(t) \/ ThreadStep(t) PROVE Paired'
  BY <1>1, <1>3, <1>5, ThreadPairs
<1>6. CASE ReadLine \/ ReadError \/ MainStep \/ OpenFails
  BY <1>1, <1>3, <1>6, LoopPairs
<1>7. CASE DevServe \/ WireLoses
  BY <1>1, <1>3, <1>7, DevicePairs
<1>8. CASE UNCHANGED vars
  BY <1>3, <1>8, PairedStays DEF vars, Current
<1> QED BY <1>4, <1>5, <1>6, <1>7, <1>8 DEF Next, Running, Terminated

(* MCU.cpp:76, "wait until we received the response to this request", holds*)
(* of an MCU that neither echoes nor is slow, although its lines do not say*)
(* what they answer: a command completes with its own answer only, for     *)
(* every number of callers, across broken connections, lost lines,         *)
(* commands cut short, refusals and timeouts.                              *)
THEOREM PairsIfPrompt == Spec => PairedIfPrompt
<1> DEFINE P == \A t \in Threads : Prompt /\ Completes(t) => Own(t)
<1>1. Init => PInv
  BY PairedInit, MCULinkAssumption
<1>2. PInv /\ [Next]_vars => PInv'
  BY PairedNext, MCULinkAssumption
<1>3. PInv /\ PInv' /\ [Next]_vars => P
  <2> SUFFICES ASSUME PInv, PInv', [Next]_vars, NEW t \in Threads, Prompt,
                      cmd_mtx = t, Busy(t), cmd_response # NoLine,
                      cmd_response' = NoLine
               PROVE  Own(t)
    BY DEF Completes
  <2>1. IInv /\ TypeOK /\ LockHeld /\ Paired
    BY DEF PInv, IInv
  <2>2. NoLine \notin Lines
    BY DEF NoLine, Lines, Commands
  <2>3. ~ReadLine
    <3>1. SUFFICES ASSUME ReadLine PROVE FALSE
      OBVIOUS
    <3>2. waiting # {} /\ toHost # <<>>
      BY <2>1, <3>1 DEF ReadLine, Paired
    <3> QED BY <2>1, <3>2, FindsOwn
  <2>4. ASSUME NEW u \in Threads, Responded(u) PROVE Own(t)
    <3>1. u = t /\ t \in waiting
      BY <2>1, <2>4 DEF Responded, IInv, WaiterBusy
    <3>2. Answers(cmd_response, t)
      BY <2>1, <3>1, FindsOwn
    <3> QED BY <3>1, <3>2 DEF Own, Answers
  <2>5. ASSUME NEW u \in Threads, Execute(u) PROVE FALSE
    BY <2>1, <2>5, SlotEmpty, MCULinkAssumption DEF Execute
  <2>6. ASSUME NEW u \in Threads,
               \/ Lock(u) \/ ExecuteFails(u) \/ ExecuteShort(u)
               \/ ExecuteDangling(u) \/ TimesOut(u) \/ ReinitDone(u) \/ Return(u)
        PROVE  FALSE
    BY <2>6 DEF Lock, ExecuteFails, ExecuteShort, ExecuteDangling, TimesOut,
                ReinitDone, Return
  <2>7. CASE \/ QueryWake \/ \E c \in Clients : ClientCall(c)
             \/ ReadError \/ MainStep \/ OpenFails \/ DevServe \/ WireLoses
             \/ UNCHANGED vars
    BY <2>7 DEF QueryWake, ClientCall, ReadError, MainStep, OpenFails, Create,
                Open, Woken, Close, Destroy, SleepDone, DevServe, WireLoses, vars
  <2> QED BY <2>3, <2>4, <2>5, <2>6, <2>7
          DEF Next, Running, Terminated, ThreadStep
<1>4. Spec => [][P]_vars
  BY <1>1, <1>2, <1>3, PTL DEF Spec
<1> QED BY <1>4 DEF PairedIfPrompt

-----------------------------------------------------------------------------
(* The service promised to the callers.                                    *)

phases == [t \in Threads |-> Phase(t)]

(* A step that leaves what Phase looks at alone changes no phase.          *)
LEMMA SamePhases ==
    ASSUME UNCHANGED <<call, cmd_mtx, waiting>>
    PROVE  phases' = phases
  BY DEF phases, Phase

(* While t holds cmd_mtx, takes it or leaves it, only its phase changes.   *)
LEMMA OnePhase ==
    ASSUME MCULinkAssumption, NEW t \in Threads,
           cmd_mtx \in {t, NoThread}, cmd_mtx' \in {t, NoThread},
           waiting' \ {t} = waiting \ {t},
           \A u \in Threads \ {t} : call'[u] = call[u]
    PROVE  phases' = [phases EXCEPT ![t] = Phase(t)']
<1>1. ASSUME NEW u \in Threads, u # t PROVE Phase(u)' = Phase(u)
  <2>1. /\ cmd_mtx # u /\ cmd_mtx' # u
        /\ u \in waiting' <=> u \in waiting
        /\ call'[u] = call[u]
    BY <1>1 DEF MCULinkAssumption
  <2> QED BY <2>1 DEF Phase
<1> QED BY <1>1 DEF phases

(* A thread that changes its phase as the service allows serves.           *)
LEMMA ServiceStep ==
    ASSUME NEW t \in Threads, phases' = [phases EXCEPT ![t] = Phase(t)'],
           \/ Phase(t) = "idle" /\ Phase(t)' = "called"
           \/ /\ Phase(t) = "called" /\ Phase(t)' = "serving"
              /\ \A u \in Threads : Phase(u) \notin {"serving", "waiting"}
           \/ Phase(t) = "serving" /\ Phase(t)' \in {"waiting", "idle"}
           \/ Phase(t) = "waiting" /\ Phase(t)' \in {"serving", "idle"}
    PROVE  Promise!Next
<1>1. \A u \in Threads : phases[u] = Phase(u)
  BY DEF phases
<1>2. \/ Promise!Call(t) \/ Promise!Enter(t) \/ Promise!Ask(t)
      \/ Promise!Learn(t) \/ Promise!Throw(t) \/ Promise!Leave(t)
  BY <1>1 DEF phases, Promise!Call, Promise!Enter, Promise!Ask, Promise!Learn,
              Promise!Throw, Promise!Leave, Promise!Moves, Promise!Inside
<1> QED BY <1>2 DEF Promise!Next

(* A call, of the query thread's round or of set_cp_state, is one.         *)
LEMMA CallServes ==
    ASSUME MCULinkAssumption, IInv, NEW t \in Threads, call[t] = "none",
           NEW op \in {"round", "set_cp_state"},
           call' = [call EXCEPT ![t] = op], UNCHANGED <<cmd_mtx, waiting>>
    PROVE  Promise!Next
<1>1. cmd_mtx # t /\ t \notin waiting
  BY DEF IInv, LockHeld, WaiterBusy
<1>2. call'[t] = op /\ \A u \in Threads \ {t} : call'[u] = call[u]
  BY DEF IInv, TypeOK
<1>3. Phase(t) = "idle" /\ Phase(t)' = "called"
  BY <1>1, <1>2 DEF Phase
<1>4. \A u \in Threads \ {t} : Phase(u)' = Phase(u)
  BY <1>2 DEF Phase
<1>5. phases' = [phases EXCEPT ![t] = Phase(t)']
  BY <1>4 DEF phases
<1> QED BY <1>3, <1>5, ServiceStep

(* Every step of a thread serves or changes no phase.                      *)
LEMMA ThreadServes ==
    ASSUME MCULinkAssumption, IInv, IInv',
           NEW t \in Threads, Lock(t) \/ ThreadStep(t)
    PROVE  Promise!Next \/ phases' = phases
<1>0. TypeOK /\ LockHeld /\ WaiterBusy
  BY DEF IInv
<1>1. CASE Lock(t)
  <2>1. waiting = {} /\ waiting' = {} /\ cmd_mtx = NoThread /\ cmd_mtx' = t
        /\ call[t] # "none" /\ call' = call
    BY <1>0, <1>1, SoleWaiter DEF Lock
  <2>2. \A u \in Threads : Phase(u) \notin {"serving", "waiting"}
    BY <2>1 DEF Phase, MCULinkAssumption
  <2>3. Phase(t) = "called" /\ Phase(t)' = "serving"
    BY <2>1 DEF Phase, MCULinkAssumption
  <2>4. phases' = [phases EXCEPT ![t] = Phase(t)']
    BY <2>1, OnePhase
  <2> QED BY <2>2, <2>3, <2>4, ServiceStep
<1>2. ASSUME cmd_mtx = t, UNCHANGED <<call, cmd_mtx>>,
             \/ t \notin waiting /\ waiting' = waiting \cup {t}
             \/ t \in waiting /\ waiting' = waiting \ {t}
      PROVE  Promise!Next
  <2>1. \/ Phase(t) = "serving" /\ Phase(t)' = "waiting"
        \/ Phase(t) = "waiting" /\ Phase(t)' = "serving"
    BY <1>2 DEF Phase
  <2>2. phases' = [phases EXCEPT ![t] = Phase(t)']
    BY <1>2, OnePhase
  <2> QED BY <2>1, <2>2, ServiceStep
<1>3. ASSUME cmd_mtx = t, Leave(t), waiting' = waiting \ {t}
      PROVE  Promise!Next
  <2>1. Phase(t) \in {"serving", "waiting"}
    BY <1>3 DEF Phase
  <2>2. /\ call'[t] = "none" /\ cmd_mtx' = NoThread /\ t \notin waiting'
        /\ \A u \in Threads \ {t} : call'[u] = call[u]
    BY <1>0, <1>3 DEF Leave, TypeOK
  <2>3. Phase(t)' = "idle"
    BY <2>2 DEF Phase, MCULinkAssumption
  <2>4. phases' = [phases EXCEPT ![t] = Phase(t)']
    BY <1>3, <2>2, OnePhase
  <2> QED BY <2>1, <2>3, <2>4, ServiceStep
<1>4. Throw(t) \/ TakeLine(t) => Leave(t) \/ UNCHANGED <<call, cmd_mtx>>
  BY DEF TakeLine, Throw
<1>5. CASE Execute(t)
  <2>1. cmd_mtx = t /\ t \notin waiting
    BY <1>0, <1>5 DEF Execute, Transmits, LockHeld
  <2>2. CASE TakeLine(t) /\ UNCHANGED waiting
    <3>1. waiting' = waiting \ {t}
      BY <2>1, <2>2
    <3> QED BY <1>3, <1>4, <2>1, <2>2, <3>1, SamePhases
  <2>3. CASE waiting' = waiting \cup {t} /\ UNCHANGED <<call, cmd_mtx>>
    BY <1>2, <2>1, <2>3
  <2> QED BY <1>5, <2>2, <2>3 DEF Execute
<1>6. CASE Responded(t) \/ TimesOut(t)
  <2>1. cmd_mtx = t /\ t \in waiting /\ waiting' = waiting \ {t}
    BY <1>0, <1>6 DEF Responded, TimesOut, WaiterBusy
  <2>2. Throw(t) \/ TakeLine(t)
    BY <1>6 DEF Responded, TimesOut
  <2> QED BY <1>2, <1>3, <1>4, <2>1, <2>2
<1>7. CASE Return(t)
  <2>1. cmd_mtx = t /\ Leave(t) /\ waiting' = waiting
    BY <1>7 DEF Return
  <2>2. t \notin waiting
    BY <1>0, <1>7 DEF Return, WaiterBusy
  <2>3. waiting' = waiting \ {t}
    BY <2>1, <2>2
  <2> QED BY <1>3, <2>1, <2>3
<1>8. CASE ExecuteFails(t) \/ ExecuteShort(t) \/ ExecuteDangling(t) \/ ReinitDone(t)
  <2>1. UNCHANGED <<call, cmd_mtx, waiting>>
    BY <1>8 DEF ExecuteFails, ExecuteShort, ExecuteDangling, ReinitDone
  <2> QED BY <2>1, SamePhases
<1> QED BY <1>1, <1>5, <1>6, <1>7, <1>8 DEF ThreadStep

(* Every step of the link serves or changes no phase.                      *)
LEMMA StepServes ==
    ASSUME MCULinkAssumption, IInv, IInv', [Next]_vars
    PROVE  Promise!Next \/ phases' = phases
<1>1. CASE QueryWake
  BY <1>1, CallServes DEF QueryWake
<1>2. ASSUME NEW c \in Clients, ClientCall(c) PROVE Promise!Next
  BY <1>2, CallServes DEF ClientCall
<1>3. ASSUME NEW t \in Threads, Lock(t) \/ ThreadStep(t)
      PROVE  Promise!Next \/ phases' = phases
  BY <1>3, ThreadServes
<1>4. CASE ReadLine \/ ReadError \/ DevServe \/ WireLoses
  BY <1>4, SamePhases DEF ReadLine, ReadError, Break, DevServe, WireLoses
<1>5. CASE MainStep \/ OpenFails
  BY <1>5, SamePhases DEF MainStep, Create, NewGensio, Open, OpenGensio,
                          OpenFails, OpenThrows, Woken, WaitReturns, Close,
                          CloseGensio, Destroy, FreeGensio, SleepDone, Retry
<1>6. CASE UNCHANGED vars
  BY <1>6, SamePhases DEF vars
<1> QED BY <1>1, <1>2, <1>3, <1>4, <1>5, <1>6 DEF Next, Running, Terminated

(* MCU.cpp serves its callers one operation at a time and wakes only the   *)
(* one that waits, whatever number of framework threads calls it and       *)
(* whatever goes wrong with the connection.                                *)
THEOREM Implements == Spec => ServesOneAtATime
<1>1. Init => IInv
  BY InvInit, MCULinkAssumption
<1>2. IInv /\ [Next]_vars => IInv'
  BY InvNext, MCULinkAssumption
<1>3. Init => Promise!Init
  BY MCULinkAssumption DEF MCULinkAssumption, Init, Promise!Init, Phase
<1>4. IInv /\ IInv' /\ [Next]_vars => Promise!Next \/ phases' = phases
  BY StepServes, MCULinkAssumption
<1>5. IInv /\ IInv' /\ [Next]_vars
        => Promise!Next \/ UNCHANGED [t \in Threads |-> Phase(t)]
  BY <1>4 DEF phases
<1> QED BY <1>1, <1>2, <1>3, <1>5, PTL DEF Spec, ServesOneAtATime, Promise!Spec

=============================================================================
