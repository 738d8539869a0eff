--------------------------- MODULE KL02LinkProofs ---------------------------
(***************************************************************************)
(* Proofs about KL02Link for every number of framework threads, every      *)
(* configuration of the driver and everything that may go wrong: its       *)
(* inductive invariant, and that it implements RequestService.             *)
(***************************************************************************)
EXTENDS KL02Link, TLAPS, SequenceTheorems

(* A thread that has steps left holds cmd_mtx.                             *)
LockHeld == \A t \in Threads : Busy(t) => cmd_mtx = t

(* Before the gensio is destroyed there is room for one more wake.         *)
WakeRoom == main \in {"close", "destroy"} => wakes < WakeBound

IInv == TypeOK /\ LockHeld /\ WakeRoom /\ WaiterOwnsAnswer

-----------------------------------------------------------------------------
(* Sequences.                                                              *)

(* What is left of a typed queue after its first n messages is typed.      *)
LEMMA DropType ==
    ASSUME NEW S, NEW q \in Seq(S), NEW n \in 1 .. Len(q)
    PROVE  Drop(q, n) \in Seq(S)
  BY SubSeqProperties DEF Drop

(* Every operation consists of steps.                                      *)
LEMMA ProgramType ==
    ASSUME NEW op \in Operations \cup {"round"}
    PROVE  Program(op) \in Seq(Steps)
<1>1. {"RESET", "PP_PULLUP", "PP_VOLTAGE", "GET_UCP", "GET_PWM", "SET_PWM",
       "SET_UCP", "PWM_ENABLE", "PWM_DISABLE", "PWM_CHECK", "require_on",
       "require_off", "reinit_done"} \subseteq Steps
  BY DEF Steps, Requests, PwmRequests, Measurements, Checks
<1>2. /\ <<>> \in Seq(Steps)
      /\ \A x \in Steps : <<x>> \in Seq(Steps)
      /\ \A x, y \in Steps : <<x, y>> \in Seq(Steps)
      /\ \A x, y, z \in Steps : <<x, y, z>> \in Seq(Steps)
  OBVIOUS
<1>3. PullUp \in Seq(Steps) /\ PpQuery \in Seq(Steps) /\ PwmQuery \in Seq(Steps)
  BY <1>1, <1>2 DEF PullUp, PpQuery, PwmQuery
<1>4. Reinit \in Seq(Steps)
  BY <1>1, <1>2, <1>3, ConcatProperties DEF Reinit
<1>5. Round \in Seq(Steps)
  BY <1>1, <1>2, <1>3, <1>4, ConcatProperties DEF Round
<1>6. SetDutyCycle \in Seq(Steps)
  BY <1>1, <1>2 DEF SetDutyCycle
<1>7. /\ <<"PWM_ENABLE", "require_on">> \in Seq(Steps)
      /\ <<"PWM_DISABLE", "require_off">> \in Seq(Steps)
      /\ <<"PWM_CHECK">> \in Seq(Steps)
      /\ <<"GET_PWM">> \in Seq(Steps)
      /\ <<"SET_UCP">> \in Seq(Steps)
  BY <1>1, <1>2
<1>8. CASE op = "round"
  BY <1>5, <1>8 DEF Program
<1>9. CASE op = "set_duty_cycle"
  BY <1>6, <1>9 DEF Program
<1>10. CASE op = "pwm_enable"
  BY <1>7, <1>10 DEF Program
<1>11. CASE op = "pwm_disable"
  BY <1>7, <1>11 DEF Program
<1>12. CASE op = "pwm_is_enabled"
  BY <1>7, <1>12 DEF Program
<1>13. CASE op = "get_duty_cycle"
  BY <1>7, <1>13 DEF Program
<1>14. CASE op = "set_cp_state"
  BY <1>7, <1>14 DEF Program
<1> QED BY <1>8, <1>9, <1>10, <1>11, <1>12, <1>13, <1>14 DEF Operations

(* A step taken off an agenda leaves an agenda.                            *)
LEMMA AdvanceType ==
    ASSUME TypeOK, NEW t \in Threads, Busy(t), Advance(t)
    PROVE  agenda' \in [Threads -> Seq(Steps)]
<1>1. agenda[t] \in Seq(Steps) /\ agenda[t] # <<>>
  BY DEF TypeOK, Busy
<1>2. Tail(agenda[t]) \in Seq(Steps)
  BY <1>1, HeadTailProperties
<1> QED BY <1>2 DEF TypeOK, Advance

-----------------------------------------------------------------------------
(* Type correctness.                                                       *)

USE DEF Threads, threadVars, readerVars, loopVars, wireVars, LoopTypeOK,
        OthersUnchanged

LEMMA TypeInit == LinkAssumption /\ Init => TypeOK
<1> SUFFICES ASSUME LinkAssumption, Init PROVE TypeOK
  OBVIOUS
<1>1. "RESET" \in Services
  BY DEF Services, Requests, Service, PwmRequests
<1>3. /\ call \in [Threads -> Operations \cup {"round", "none"}]
      /\ agenda \in [Threads -> Seq(Steps)]
      /\ toDev \in Seq(Outgoing)
      /\ toHost \in Seq(Incoming)
  BY DEF Init
<1>4. dev \in [booting : BOOLEAN, pwm : BOOLEAN]
  BY DEF Init
<1>5. wakes \in 0 .. WakeBound
  BY LoopAssumption DEF Init, LoopInit, LoopAssumption
<1> QED BY <1>1, <1>3, <1>4, <1>5 DEF Init, LoopInit, TypeOK

(* An operation that throws leaves typed threads behind.                   *)
LEMMA ThrowType ==
    ASSUME TypeOK, NEW t \in Threads, Throw(t)
    PROVE  /\ call' \in [Threads -> Operations \cup {"round", "none"}]
           /\ agenda' \in [Threads -> Seq(Steps)]
           /\ cmd_mtx' \in Threads \cup {NoThread}
           /\ process' \in {"running", "terminated"}
<1>1. CASE t = Query
  BY <1>1 DEF TypeOK, Throw
<1>2. CASE t # Query
  <2>1. Leave(t) /\ process' = process
    BY <1>2 DEF Throw
  <2>2. <<>> \in Seq(Steps)
    OBVIOUS
  <2> QED BY <2>1, <2>2 DEF TypeOK, Leave
<1> QED BY <1>1, <1>2

(* Every step of a thread keeps the types.                                 *)
LEMMA ThreadType ==
    ASSUME TypeOK, WaiterOwnsAnswer,
           NEW t \in Threads, Lock(t) \/ ThreadStep(t)
    PROVE  TypeOK'
<1>1. CASE Lock(t)
  <2>1. Program(call[t]) \in Seq(Steps)
    BY <1>1, ProgramType DEF TypeOK, Lock
  <2> QED BY <1>1, <2>1 DEF TypeOK, Lock
<1>2. CASE TxWrite(t)
  <2>1. Current(t) \in Requests /\ Service(Current(t)) \in Services
    BY <1>2 DEF TxWrite, Transmits, Services
  <2>2. toDev' \in Seq(Outgoing)
    BY <1>2, <2>1 DEF TypeOK, TxWrite, Outgoing
  <2>3. agenda' \in [Threads -> Seq(Steps)]
    BY <1>2, AdvanceType DEF TxWrite, Transmits, TypeOK
  <2> QED BY <1>2, <2>1, <2>2, <2>3 DEF TypeOK, TxWrite
<1>3. CASE TxWriteFails(t)
  <2>1. agenda' \in [Threads -> Seq(Steps)]
    BY <1>3, AdvanceType DEF TxWriteFails, Transmits
  <2> QED BY <1>3, <2>1 DEF TypeOK, TxWriteFails
<1>4. CASE TxDangling(t)
  <2>1. agenda' \in [Threads -> Seq(Steps)]
    BY <1>4, AdvanceType DEF TxDangling, Transmits, TypeOK
  <2> QED BY <1>4, <2>1 DEF TypeOK, TxDangling
<1>5. CASE TxAnswered(t)
  <2>1. agenda' \in [Threads -> Seq(Steps)]
    BY <1>5, AdvanceType DEF TxAnswered, WaiterOwnsAnswer
  <2> QED BY <1>5, <2>1 DEF TypeOK, TxAnswered
<1>6. CASE TxTimeout(t)
  <2>1. Throw(t) /\ waiting' \subseteq waiting
        /\ UNCHANGED <<expected, readerVars, loopVars, wireVars>>
    BY <1>6 DEF TxTimeout
  <2>2. /\ call' \in [Threads -> Operations \cup {"round", "none"}]
        /\ agenda' \in [Threads -> Seq(Steps)]
        /\ cmd_mtx' \in Threads \cup {NoThread}
        /\ process' \in {"running", "terminated"}
    BY <2>1, ThrowType
  <2> QED BY <2>1, <2>2 DEF TypeOK
<1>7. CASE CheckPwm(t)
  <2>1. CASE pwm_status = (Current(t) = "require_on")
    <3>1. agenda' \in [Threads -> Seq(Steps)]
      BY <1>7, <2>1, AdvanceType DEF CheckPwm
    <3> QED BY <1>7, <2>1, <3>1 DEF TypeOK, CheckPwm
  <2>2. CASE pwm_status # (Current(t) = "require_on")
    BY <1>7, <2>2, ThrowType DEF TypeOK, CheckPwm
  <2> QED BY <2>1, <2>2
<1>8. CASE ReinitDone(t)
  <2>1. agenda' \in [Threads -> Seq(Steps)]
    BY <1>8, AdvanceType DEF ReinitDone
  <2>2. reinit' \in BOOLEAN /\ tx_enabled' = tx_enabled
    BY <1>8 DEF ReinitDone
  <2>3. /\ UNCHANGED <<call, cmd_mtx, waiting, expected, readerVars>>
        /\ UNCHANGED <<io, main, wakes, wireVars, process>>
    BY <1>8 DEF ReinitDone
  <2> QED BY <2>1, <2>2, <2>3 DEF TypeOK
<1>9. CASE Return(t)
  BY <1>9 DEF TypeOK, Return, Leave
<1> QED BY <1>1, <1>2, <1>3, <1>4, <1>5, <1>6, <1>7, <1>8, <1>9 DEF ThreadStep

(* Every step of the reader keeps the types.                               *)
LEMMA ReaderType ==
    ASSUME LinkAssumption, TypeOK,
           ReadAck \/ ReadFrame \/ ReadAnnounce \/ ReadError
    PROVE  TypeOK'
<1>1. \A n \in ChunkSizes : n \in 1 .. Len(toHost)
  BY DEF ChunkSizes
<1>2. \A n \in ChunkSizes : Drop(toHost, n) \in Seq(Incoming)
  BY <1>1, DropType DEF TypeOK
<1>3. CASE ReadAck
  <2>1. toHost' \in Seq(Incoming)
    BY <1>2, <1>3 DEF ReadAck
  <2>2. toDev' = toDev \/ toDev' = Append(toDev, "QUIT")
    BY <1>3 DEF ReadAck
  <2>3. toDev' \in Seq(Outgoing)
    <3>1. toDev \in Seq(Outgoing) /\ "QUIT" \in Outgoing
      BY DEF TypeOK, Outgoing
    <3>2. Append(toDev, "QUIT") \in Seq(Outgoing)
      BY <3>1, AppendProperties
    <3> QED BY <2>2, <3>1, <3>2
  <2> QED BY <1>3, <2>1, <2>3 DEF TypeOK, ReadAck
<1>4. CASE ReadFrame
  <2>1. PICK n \in ChunkSizes : \E k \in 1 .. n :
            /\ toHost[k] # Ack
            /\ rx' = toHost[k] /\ toHost' = Drop(toHost, n)
    BY <1>4 DEF ReadFrame
  <2>2. rx' \in Replies /\ toHost' \in Seq(Incoming)
    <3>1. PICK k \in 1 .. n : toHost[k] # Ack /\ rx' = toHost[k]
      BY <2>1
    <3>2. k \in 1 .. Len(toHost) /\ toHost \in Seq(Incoming)
      BY <1>1 DEF TypeOK
    <3>3. toHost[k] \in Incoming
      BY <3>2, ElementOfSeq
    <3> QED BY <1>2, <2>1, <3>1, <3>3 DEF Incoming
  <2>3. pwm_status' \in BOOLEAN
    <3>1. rx'.on \in BOOLEAN
      BY <2>2 DEF Replies, Reply
    <3>2. pwm_status' = IF rx'.svc = "CONTROL_PWM" THEN rx'.on ELSE pwm_status
      BY <1>4 DEF ReadFrame
    <3> QED BY <3>1, <3>2 DEF TypeOK
  <2> QED BY <1>4, <2>2, <2>3 DEF TypeOK, ReadFrame
<1>5. CASE ReadAnnounce
  <2>1. rx \in Replies
    BY <1>5 DEF TypeOK, ReadAnnounce
  <2>2. rx.svc \in Services
    BY <2>1 DEF Replies, Reply
  <2> QED BY <1>5, <2>2 DEF TypeOK, ReadAnnounce
<1>6. CASE ReadError
  <2>1. wakes' \in 0 .. WakeBound
    BY <1>6, LoopAssumption DEF LoopAssumption, TypeOK, ReadError, Break
  <2>2. toDev' \in {toDev, <<>>} /\ toHost' = <<>>
    BY <1>6 DEF ReadError, Break
  <2>3. toDev' \in Seq(Outgoing) /\ toHost' \in Seq(Incoming)
    <3>1. toDev \in Seq(Outgoing)
      BY DEF TypeOK
    <3>2. <<>> \in Seq(Outgoing) /\ <<>> \in Seq(Incoming)
      OBVIOUS
    <3> QED BY <2>2, <3>1, <3>2
  <2> QED BY <1>6, <2>1, <2>3 DEF TypeOK, ReadError, Break
<1> QED BY <1>3, <1>4, <1>5, <1>6

(* Every step of the connection loop keeps the types.                      *)
LEMMA MainType ==
    ASSUME LinkAssumption, TypeOK, WakeRoom, MainStep \/ OpenFails
    PROVE  TypeOK'
<1>1. CASE Create
  BY <1>1 DEF TypeOK, Create, NewGensio
<1>2. CASE Open
  BY <1>2 DEF TypeOK, Open, OpenGensio
<1>3. CASE OpenFails
  BY <1>3 DEF TypeOK, OpenFails, OpenThrows
<1>4. CASE Woken
  <2>1. wakes' \in 0 .. WakeBound
    BY <1>4, LoopAssumption DEF LoopAssumption, TypeOK, Woken, WaitReturns
  <2> QED BY <1>4, <2>1 DEF TypeOK, Woken, WaitReturns
<1>5. CASE Close
  BY <1>5 DEF TypeOK, Close, CloseGensio
<1>6. CASE Destroy
  <2>1. wakes' \in 0 .. WakeBound
    BY <1>6, LoopAssumption DEF LoopAssumption, TypeOK, WakeRoom, Destroy,
                                FreeGensio
  <2> QED BY <1>6, <2>1 DEF TypeOK, Destroy, FreeGensio
<1>7. CASE SleepDone
  BY <1>7 DEF TypeOK, SleepDone, Retry
<1> QED BY <1>1, <1>2, <1>3, <1>4, <1>5, <1>6, <1>7 DEF MainStep

(* What the KL02 sends is typed if what it sends is a reply.               *)
LEMMA SendType ==
    ASSUME TypeOK, NEW m \in Incoming, Send(m)
    PROVE  toHost' \in Seq(Incoming)
<1>1. toHost \in Seq(Incoming)
  BY DEF TypeOK
<1>2. Append(toHost, m) \in Seq(Incoming)
  BY <1>1, AppendProperties
<1> QED BY <1>1, <1>2 DEF Send

(* What is left of the requests when one is taken is typed.                *)
LEMMA TakenType ==
    ASSUME TypeOK, NEW r, Taken(r)
    PROVE  toDev' \in Seq(Outgoing)
  BY HeadTailProperties DEF TypeOK, Taken

(* Every step of the KL02 and of the wire keeps the types.                 *)
LEMMA DeviceType ==
    ASSUME TypeOK, DevServe \/ DevReset \/ DevIgnore \/ DevBoot \/ WireLoses
    PROVE  TypeOK'
<1>1. Ack \in Incoming /\ \A s \in Services, on \in BOOLEAN : Reply(s,
on) \in Incoming
  BY DEF Incoming, Replies
<1>2. "RESET" \in Services
  BY DEF Services, Requests, Service, PwmRequests
<1>3. CASE DevServe
  <2>1. PICK r \in Requests \ {"RESET"} :
            Taken(r) /\ Send(Reply(Service(r), dev'.pwm))
    BY <1>3 DEF DevServe
  <2>2. dev' \in [booting : BOOLEAN, pwm : BOOLEAN]
    BY <1>3 DEF TypeOK, DevServe
  <2>3. Service(r) \in Services
    BY DEF Services
  <2>4. toHost' \in Seq(Incoming)
    BY <1>1, <2>1, <2>2, <2>3, SendType
  <2> QED BY <1>3, <2>1, <2>2, <2>4, TakenType DEF TypeOK, DevServe
<1>4. CASE DevReset
  <2>1. toHost' \in Seq(Incoming) /\ toDev' \in Seq(Outgoing)
    BY <1>1, <1>4, SendType, TakenType DEF DevReset
  <2> QED BY <1>4, <2>1 DEF TypeOK, DevReset
<1>5. CASE DevIgnore
  BY <1>5, TakenType DEF TypeOK, DevIgnore
<1>6. CASE DevBoot
  <2>1. toHost' \in Seq(Incoming)
    BY <1>1, <1>2, <1>6, SendType DEF DevBoot
  <2>2. toDev' \in Seq(Outgoing)
    BY <1>6, TakenType DEF TypeOK, DevBoot
  <2>3. dev' \in [booting : BOOLEAN, pwm : BOOLEAN]
    BY <1>6 DEF TypeOK, DevBoot
  <2>4. UNCHANGED <<threadVars, readerVars, loopVars, process>>
    BY <1>6 DEF DevBoot
  <2> QED BY <2>1, <2>2, <2>3, <2>4 DEF TypeOK
<1>7. CASE WireLoses
  <2>1. \/ toDev # <<>> /\ toDev' = Tail(toDev) /\ toHost' = toHost
        \/ toHost # <<>> /\ toHost' = Tail(toHost) /\ toDev' = toDev
    BY <1>7 DEF WireLoses
  <2>2. toDev' \in Seq(Outgoing) /\ toHost' \in Seq(Incoming)
    <3>1. toDev \in Seq(Outgoing) /\ toHost \in Seq(Incoming)
      BY DEF TypeOK
    <3>2. /\ toDev # <<>> => Tail(toDev) \in Seq(Outgoing)
          /\ toHost # <<>> => Tail(toHost) \in Seq(Incoming)
      BY <3>1, HeadTailProperties
    <3> QED BY <2>1, <3>1, <3>2
  <2> QED BY <1>7, <2>2 DEF TypeOK, WireLoses
<1> QED BY <1>3, <1>4, <1>5, <1>6, <1>7

-----------------------------------------------------------------------------
(* The lock and the wait.                                                  *)

(* Nobody waits but the thread that has cmd_mtx.                           *)
LEMMA SoleWaiter ==
    ASSUME LinkAssumption, TypeOK, WaiterOwnsAnswer
    PROVE  /\ cmd_mtx = NoThread => waiting = {}
           /\ \A t \in Threads : cmd_mtx = t => waiting \subseteq {t}
  BY DEF LinkAssumption, TypeOK, WaiterOwnsAnswer

(* The thread that holds cmd_mtx takes a step of its agenda off, or leaves *)
(* the lock, while it does not wait: the lock discipline is kept.          *)
LEMMA HolderStep ==
    ASSUME LinkAssumption, TypeOK, LockHeld, WaiterOwnsAnswer,
           NEW t \in Threads, cmd_mtx = t, waiting' = {},
           \/ Advance(t) /\ cmd_mtx' = cmd_mtx
           \/ Leave(t)
    PROVE  LockHeld' /\ WaiterOwnsAnswer'
<1>1. WaiterOwnsAnswer'
  BY DEF WaiterOwnsAnswer
<1>2. ASSUME NEW u \in Threads, agenda'[u] # <<>> PROVE cmd_mtx' = u
  <2>1. CASE u # t
    <3>1. agenda'[u] = agenda[u]
      BY <2>1 DEF TypeOK, Advance, Leave
    <3> QED BY <1>2, <2>1, <3>1 DEF LockHeld, Busy
  <2>2. CASE u = t /\ Leave(t)
    <3>1. agenda'[t] = <<>>
      BY <2>2 DEF TypeOK, Leave
    <3> QED BY <1>2, <2>2, <3>1
  <2> QED BY <2>1, <2>2
<1> QED BY <1>1, <1>2 DEF LockHeld, Busy

(* Every step of a thread keeps the lock discipline.                       *)
LEMMA ThreadLock ==
    ASSUME LinkAssumption, TypeOK, LockHeld, WaiterOwnsAnswer,
           NEW t \in Threads, Lock(t) \/ ThreadStep(t)
    PROVE  LockHeld' /\ WaiterOwnsAnswer'
<1>1. CASE Lock(t)
  <2>1. waiting = {} /\ cmd_mtx = NoThread
    BY <1>1, SoleWaiter DEF Lock
  <2>2. \A u \in Threads : agenda[u] = <<>>
    BY <2>1 DEF LinkAssumption, LockHeld, Busy
  <2>3. \A u \in Threads : u # t => agenda'[u] = <<>>
    BY <1>1, <2>2 DEF TypeOK, Lock
  <2>4. waiting' = {} /\ cmd_mtx' = t
    BY <1>1, <2>1 DEF Lock
  <2> QED BY <2>3, <2>4 DEF LockHeld, Busy, WaiterOwnsAnswer
<1>2. ASSUME Busy(t), t \notin waiting PROVE cmd_mtx = t /\ waiting = {}
  BY <1>2, SoleWaiter DEF LockHeld
<1>3. ASSUME t \in waiting PROVE cmd_mtx = t /\ waiting \ {t} = {}
  BY <1>3, SoleWaiter DEF WaiterOwnsAnswer
<1>4. CASE TxWrite(t)
  <2>1. cmd_mtx = t /\ waiting = {} /\ cmd_mtx' = cmd_mtx
    BY <1>2, <1>4 DEF TxWrite, Transmits
  <2>2. CASE last = Service(Current(t))
    BY <1>4, <2>1, <2>2, HolderStep DEF TxWrite
  <2>3. CASE last # Service(Current(t))
    <3>1. /\ waiting' = {t} /\ agenda' = agenda
          /\ expected' = Service(Current(t))
          /\ Busy(t) /\ Current(t) \in Requests
      BY <1>4, <2>1, <2>3 DEF TxWrite, Transmits
    <3> QED BY <2>1, <3>1 DEF LockHeld, WaiterOwnsAnswer, Busy, Current
  <2> QED BY <2>2, <2>3
<1>5. CASE TxWriteFails(t)
  BY <1>2, <1>5, HolderStep DEF TxWriteFails, Transmits
<1>6. CASE TxDangling(t)
  <2>1. cmd_mtx = t /\ waiting = {} /\ UNCHANGED <<cmd_mtx, waiting>>
    BY <1>2, <1>6 DEF TxDangling, Transmits
  <2>2. CASE agenda' = agenda
    BY <2>1, <2>2 DEF LockHeld, WaiterOwnsAnswer, Busy
  <2>3. CASE Advance(t)
    BY <2>1, <2>3, HolderStep
  <2> QED BY <1>6, <2>2, <2>3 DEF TxDangling
<1>7. CASE TxAnswered(t)
  BY <1>3, <1>7, HolderStep DEF TxAnswered
<1>8. ASSUME Throw(t), cmd_mtx = t, waiting' = {}
      PROVE  LockHeld' /\ WaiterOwnsAnswer'
  <2>1. CASE t = Query
    BY <1>8, <2>1 DEF Throw, LockHeld, WaiterOwnsAnswer, Busy
  <2>2. CASE t # Query
    BY <1>8, <2>2, HolderStep DEF Throw
  <2> QED BY <2>1, <2>2
<1>9. CASE TxTimeout(t)
  BY <1>3, <1>8, <1>9 DEF TxTimeout
<1>10. CASE CheckPwm(t)
  <2>1. Busy(t) /\ t \notin waiting
    BY <1>10 DEF CheckPwm, WaiterOwnsAnswer, Checks, Requests, PwmRequests,
                 Measurements
  <2>2. cmd_mtx = t /\ waiting' = {}
    BY <1>2, <1>10, <2>1 DEF CheckPwm
  <2>3. CASE pwm_status = (Current(t) = "require_on")
    BY <1>10, <2>2, <2>3, HolderStep DEF CheckPwm
  <2>4. CASE pwm_status # (Current(t) = "require_on")
    BY <1>8, <1>10, <2>2, <2>4 DEF CheckPwm
  <2> QED BY <2>3, <2>4
<1>11. CASE ReinitDone(t)
  <2>1. Busy(t) /\ t \notin waiting
    BY <1>11 DEF ReinitDone, WaiterOwnsAnswer, Requests, PwmRequests,
                 Measurements
  <2> QED BY <1>2, <1>11, <2>1, HolderStep DEF ReinitDone
<1>12. CASE Return(t)
  <2>1. cmd_mtx = t /\ waiting' = {}
    BY <1>12, SoleWaiter DEF Return, WaiterOwnsAnswer
  <2> QED BY <1>12, <2>1, HolderStep DEF Return
<1> QED BY <1>1, <1>4, <1>5, <1>6, <1>7, <1>9, <1>10, <1>11, <1>12
        DEF ThreadStep

(* Whatever leaves the threads alone but for what they are called to do    *)
(* keeps the lock discipline.                                              *)
LEMMA OthersLock ==
    ASSUME LockHeld, WaiterOwnsAnswer,
           UNCHANGED <<agenda, cmd_mtx, waiting, expected>>
    PROVE  LockHeld' /\ WaiterOwnsAnswer'
  BY DEF LockHeld, WaiterOwnsAnswer, Busy, Current

-----------------------------------------------------------------------------
(* The inductive invariant.                                                *)

LEMMA InvInit == LinkAssumption /\ Init => IInv
  BY TypeInit DEF Init, LoopInit, IInv, LockHeld, WakeRoom, WaiterOwnsAnswer,
                  Busy

LEMMA InvNext == LinkAssumption /\ IInv /\ [Next]_vars => IInv'
<1> SUFFICES ASSUME LinkAssumption, IInv, [Next]_vars PROVE IInv'
  OBVIOUS
<1>0. TypeOK /\ LockHeld /\ WakeRoom /\ WaiterOwnsAnswer
  BY DEF IInv
<1>1. CASE QueryWake
  <2>1. TypeOK'
    BY <1>0, <1>1 DEF TypeOK, QueryWake
  <2>2. UNCHANGED <<agenda, cmd_mtx, waiting, expected, loopVars>>
    BY <1>1 DEF QueryWake
  <2> QED BY <1>0, <2>1, <2>2, OthersLock DEF IInv, WakeRoom
<1>2. ASSUME NEW c \in Clients, ClientCall(c) PROVE IInv'
  <2>1. TypeOK'
    BY <1>0, <1>2 DEF LinkAssumption, TypeOK, ClientCall
  <2>2. UNCHANGED <<agenda, cmd_mtx, waiting, expected, loopVars>>
    BY <1>2 DEF ClientCall
  <2> QED BY <1>0, <2>1, <2>2, OthersLock DEF IInv, WakeRoom
<1>3. ASSUME NEW t \in Threads, Lock(t) \/ ThreadStep(t) PROVE IInv'
  <2>1. TypeOK' /\ LockHeld' /\ WaiterOwnsAnswer'
    BY <1>0, <1>3, ThreadType, ThreadLock
  <2>2. UNCHANGED <<main, wakes>>
    BY <1>3 DEF Lock, ThreadStep, TxWrite, TxWriteFails, TxDangling,
                TxAnswered, TxTimeout, CheckPwm, ReinitDone, Return
  <2> QED BY <1>0, <2>1, <2>2 DEF IInv, WakeRoom
<1>4. CASE ReadAck \/ ReadFrame \/ ReadAnnounce \/ ReadError
  <2>1. TypeOK'
    BY <1>0, <1>4, ReaderType
  <2>2. UNCHANGED <<agenda, cmd_mtx, waiting, expected>>
    BY <1>4 DEF ReadAck, ReadFrame, ReadAnnounce, ReadError, Break
  <2>3. WakeRoom'
    BY <1>0, <1>4 DEF WakeRoom, ReadAck, ReadFrame, ReadAnnounce, ReadError,
                      Break,
                      Reading
  <2> QED BY <1>0, <2>1, <2>2, <2>3, OthersLock DEF IInv
<1>5. CASE MainStep \/ OpenFails
  <2>1. TypeOK'
    BY <1>0, <1>5, MainType
  <2>2. UNCHANGED <<agenda, cmd_mtx, waiting, expected>>
    BY <1>5 DEF MainStep, Create, NewGensio, Open, OpenGensio, OpenFails,
                OpenThrows, Woken, WaitReturns, Close, CloseGensio, Destroy,
                FreeGensio,
                SleepDone, Retry
  <2>3. WakeRoom'
    <3>1. CASE Woken
      BY <1>0, <3>1, LoopAssumption DEF LoopAssumption, TypeOK, WakeRoom,
                                        Woken, WaitReturns
    <3>2. CASE Close
      BY <1>0, <3>2 DEF WakeRoom, Close, CloseGensio
    <3>3. CASE OpenFails
      BY <1>0, <3>3 DEF WakeRoom, OpenFails, OpenThrows
    <3>4. CASE Create \/ Open \/ Destroy \/ SleepDone
      BY <3>4 DEF WakeRoom, Create, NewGensio, Open, OpenGensio, Destroy,
                  FreeGensio, SleepDone, Retry
    <3> QED BY <1>5, <3>1, <3>2, <3>3, <3>4 DEF MainStep
  <2> QED BY <1>0, <2>1, <2>2, <2>3, OthersLock DEF IInv
<1>6. CASE DevServe \/ DevReset \/ DevIgnore \/ DevBoot \/ WireLoses
  <2>1. TypeOK'
    BY <1>0, <1>6, DeviceType
  <2>2. UNCHANGED <<agenda, cmd_mtx, waiting, expected, loopVars>>
    BY <1>6 DEF DevServe, DevReset, DevIgnore, DevBoot, WireLoses
  <2> QED BY <1>0, <2>1, <2>2, OthersLock DEF IInv, WakeRoom
<1>7. CASE UNCHANGED vars
  BY <1>0, <1>7 DEF vars, IInv, TypeOK, LockHeld, WakeRoom, WaiterOwnsAnswer,
                    Busy, Current
<1> QED BY <1>1, <1>2, <1>3, <1>4, <1>5, <1>6, <1>7
        DEF Next, Running, Terminated

(* The invariant holds in every behaviour.                                 *)
THEOREM Invariant == Spec => []IInv
<1>1. Init => IInv
  BY InvInit, LinkAssumption
<1>2. IInv /\ [Next]_vars => IInv'
  BY InvNext, LinkAssumption
<1> QED BY <1>1, <1>2, PTL DEF Spec

(* The driver's state has its type, whatever the environment does.         *)
THEOREM TypeCorrect == Spec => []TypeOK
<1>1. IInv => TypeOK
  BY DEF IInv
<1> QED BY <1>1, Invariant, PTL

(* KL02.cpp keeps one pair expected/last_svc_response for all threads: a   *)
(* thread that waits in tx_frame holds cmd_mtx and the pair is about its   *)
(* own request, after every mixture of timeouts, exceptions, failed writes *)
(* and reconnections.                                                      *)
THEOREM WaiterOwned == Spec => []WaiterOwnsAnswer
<1>1. IInv => WaiterOwnsAnswer
  BY DEF IInv
<1> QED BY <1>1, Invariant, PTL

(* While a thread waits nobody else redirects the wait: neither the        *)
(* expected service nor what the thread has left to do changes.            *)
THEOREM ExpectationIsStable == Spec => ExpectationStable
<1> DEFINE Stable == \A t \in Threads : t \in waiting /\ t \in waiting' =>
                        expected' = expected /\ agenda'[t] = agenda[t]
<1>1. IInv /\ [Next]_vars => Stable
  <2> SUFFICES ASSUME IInv, [Next]_vars, NEW t \in Threads,
                      t \in waiting, t \in waiting'
               PROVE  expected' = expected /\ agenda'[t] = agenda[t]
    OBVIOUS
  <2>0. TypeOK /\ LockHeld /\ WaiterOwnsAnswer /\ cmd_mtx = t /\ Busy(t)
    BY DEF IInv, WaiterOwnsAnswer
  <2>1. ASSUME NEW u \in Threads, Lock(u) \/ ThreadStep(u)
        PROVE  expected' = expected /\ agenda'[t] = agenda[t]
    <3>1. CASE u = t
      <4>1. ~Lock(t) /\ ~Return(t) /\ ~TxAnswered(t) /\ ~TxTimeout(t)
        BY <2>0, LinkAssumption DEF LinkAssumption, Lock, Return, TxAnswered,
                                    TxTimeout
      <4>2. ~TxWrite(t) /\ ~TxWriteFails(t) /\ ~TxDangling(t)
        BY DEF TxWrite, TxWriteFails, TxDangling, Transmits
      <4>3. ~CheckPwm(t) /\ ~ReinitDone(t)
        BY DEF CheckPwm, ReinitDone, Checks, WaiterOwnsAnswer, Requests,
               PwmRequests, Measurements, IInv
      <4> QED BY <2>1, <3>1, <4>1, <4>2, <4>3 DEF ThreadStep
    <3>2. CASE u # t
      <4>1. ~Busy(u) /\ cmd_mtx # u /\ u \notin waiting /\ cmd_mtx # NoThread
        BY <2>0, <3>2, LinkAssumption DEF LinkAssumption, LockHeld,
                                          WaiterOwnsAnswer
      <4> QED BY <2>1, <4>1 DEF Lock, ThreadStep, TxWrite, TxWriteFails,
                TxDangling, TxAnswered, TxTimeout, CheckPwm, ReinitDone,
                Return, Transmits
    <3> QED BY <3>1, <3>2
  <2>3. CASE QueryWake \/ \E c \in Clients : ClientCall(c)
    BY <2>3 DEF QueryWake, ClientCall
  <2>4. CASE ReadAck \/ ReadFrame \/ ReadAnnounce \/ ReadError
    BY <2>4 DEF ReadAck, ReadFrame, ReadAnnounce, ReadError, Break
  <2>5. CASE MainStep \/ OpenFails
    BY <2>5 DEF MainStep, Create, NewGensio, Open, OpenGensio, OpenFails,
                OpenThrows, Woken, WaitReturns, Close, CloseGensio, Destroy,
                FreeGensio,
                SleepDone, Retry
  <2>6. CASE DevServe \/ DevReset \/ DevIgnore \/ DevBoot \/ WireLoses
    BY <2>6 DEF DevServe, DevReset, DevIgnore, DevBoot, WireLoses
  <2>7. CASE UNCHANGED vars
    BY <2>7 DEF vars
  <2> QED BY <2>1, <2>3, <2>4, <2>5, <2>6, <2>7 DEF Next, Running, Terminated
<1>2. Spec => [][Stable]_vars
  BY <1>1, Invariant, PTL DEF Spec
<1> QED BY <1>2 DEF ExpectationStable

-----------------------------------------------------------------------------
(* KL02Link implements RequestService: every step of the link is a step of *)
(* one user of the service, or changes no user's phase.                    *)

(* Who holds cmd_mtx is inside an operation.                               *)
HolderCalled == \A t \in Threads : cmd_mtx = t => call[t] # "none"

RInv == IInv /\ HolderCalled

phases == [t \in Threads |-> Phase(t)]

-----------------------------------------------------------------------------

(* A step that leaves what Phase looks at alone changes no phase.          *)
LEMMA SamePhases ==
    ASSUME UNCHANGED <<call, cmd_mtx, waiting>>
    PROVE  phases' = phases
  BY DEF phases, Phase

(* A step of t under cmd_mtx changes no phase but that of t.               *)
LEMMA OnePhase ==
    ASSUME LinkAssumption, NEW t \in Threads,
           cmd_mtx \in {t, NoThread}, cmd_mtx' \in {t, NoThread},
           waiting' \ {t} = waiting \ {t},
           \A u \in Threads \ {t} : call'[u] = call[u]
    PROVE  phases' = [phases EXCEPT ![t] = Phase(t)']
<1>1. ASSUME NEW u \in Threads, u # t PROVE Phase(u)' = Phase(u)
  <2>1. cmd_mtx # u /\ cmd_mtx' # u
    BY <1>1 DEF LinkAssumption
  <2>2. u \in waiting' <=> u \in waiting
    BY <1>1
  <2>3. call'[u] = call[u]
    BY <1>1
  <2> QED BY <2>1, <2>2, <2>3 DEF Phase
<1> QED BY <1>1 DEF phases

(* A user that moves from one phase to another takes a step of the service.*)
LEMMA ServiceStep ==
    ASSUME NEW t \in Threads, phases' = [phases EXCEPT ![t] = Phase(t)'],
           \/ Phase(t) = "idle" /\ Phase(t)' = "called"
           \/ /\ Phase(t) = "called" /\ Phase(t)' = "serving"
              /\ \A u \in Threads : Phase(u) \notin {"serving", "waiting"}
           \/ Phase(t) = "serving" /\ Phase(t)' \in {"waiting", "idle"}
           \/ Phase(t) = "waiting" /\ Phase(t)' \in {"serving", "idle"}
    PROVE  Promise!Next
<1>1. phases[t] = Phase(t) /\ \A u \in Threads : phases[u] = Phase(u)
  BY DEF phases
<1>2. \/ Promise!Call(t) \/ Promise!Enter(t) \/ Promise!Ask(t)
      \/ Promise!Learn(t) \/ Promise!Throw(t) \/ Promise!Leave(t)
  BY <1>1 DEF phases, Promise!Call, Promise!Enter, Promise!Ask, Promise!Learn,
              Promise!Throw, Promise!Leave, Promise!Moves, Promise!Inside
<1> QED BY <1>2 DEF Promise!Next

-----------------------------------------------------------------------------

(* The invariant of the refinement is inductive.                           *)
LEMMA HolderNext ==
    ASSUME LinkAssumption, RInv, [Next]_vars
    PROVE  RInv'
<1>0. IInv' /\ TypeOK /\ LockHeld /\ WaiterOwnsAnswer
  BY InvNext DEF RInv, IInv
<1>1. HolderCalled'
  <2>1. ASSUME NEW t \in Threads,
  QueryWake \/ \E c \in Clients : ClientCall(c),
               cmd_mtx' = t
        PROVE  call'[t] # "none"
    <3>1. "none" \notin Operations
      BY DEF Operations
    <3>2. call[t] # "none"
      BY <2>1 DEF QueryWake, ClientCall, RInv, HolderCalled
    <3> QED BY <1>0, <2>1, <3>1, <3>2 DEF QueryWake, ClientCall, TypeOK,
                                          LinkAssumption
  <2>2. ASSUME NEW u \in Threads, Lock(u) \/ ThreadStep(u),
               NEW t \in Threads, cmd_mtx' = t
        PROVE  call'[t] # "none"
    <3>1. CASE call' = call /\ cmd_mtx' = cmd_mtx
      BY <2>2, <3>1 DEF RInv, HolderCalled
    <3>2. CASE Leave(u)
      BY <2>2, <3>2 DEF Leave, LinkAssumption
    <3>3. CASE Lock(u)
      BY <2>2, <3>3 DEF Lock
    <3> QED BY <2>2, <3>1, <3>2, <3>3 DEF ThreadStep, TxWrite, TxWriteFails,
              TxDangling, TxAnswered, TxTimeout, CheckPwm, ReinitDone, Return,
              Throw
  <2>3. CASE ReadAck \/ ReadFrame \/ ReadAnnounce \/ ReadError
    BY <2>3 DEF RInv, HolderCalled, ReadAck, ReadFrame, ReadAnnounce,
                ReadError, Break
  <2>4. CASE MainStep \/ OpenFails
    BY <2>4 DEF RInv, HolderCalled, MainStep, Create, NewGensio, Open,
                OpenGensio, OpenFails, OpenThrows, Woken, WaitReturns,
                Close, CloseGensio, Destroy, FreeGensio, SleepDone, Retry
  <2>5. CASE DevServe \/ DevReset \/ DevIgnore \/ DevBoot \/ WireLoses
    BY <2>5 DEF RInv, HolderCalled, DevServe, DevReset, DevIgnore, DevBoot,
                WireLoses
  <2>6. CASE UNCHANGED vars
    BY <2>6 DEF RInv, HolderCalled, vars
  <2> QED BY <2>1, <2>2, <2>3, <2>4, <2>5, <2>6
          DEF Next, Running, Terminated, HolderCalled
<1> QED BY <1>0, <1>1 DEF RInv

(* A call moves its thread from idle to called.                            *)
LEMMA CallStep ==
    ASSUME LinkAssumption, RInv, NEW t \in Threads, call[t] = "none",
           NEW op \in Operations \cup {"round"},
           call' = [call EXCEPT ![t] = op], UNCHANGED <<cmd_mtx, waiting>>
    PROVE  Promise!Next
<1>1. cmd_mtx # t /\ t \notin waiting
  BY DEF RInv, HolderCalled, IInv, WaiterOwnsAnswer
<1>2. Phase(t) = "idle"
  BY <1>1 DEF Phase
<1>3. call'[t] = op /\ op # "none" /\ \A u \in Threads \ {t} : call'[u] = call[u]
  BY DEF RInv, IInv, TypeOK, Operations
<1>4. Phase(t)' = "called"
  BY <1>1, <1>3 DEF Phase
<1>5. \A u \in Threads \ {t} : Phase(u)' = Phase(u)
  BY <1>3 DEF Phase
<1>6. phases' = [phases EXCEPT ![t] = Phase(t)']
  BY <1>5 DEF phases
<1> QED BY <1>2, <1>4, <1>6, ServiceStep

(* Every step of a thread is a step of the service or changes no phase.    *)
LEMMA ThreadServes ==
    ASSUME LinkAssumption, RInv, RInv',
           NEW t \in Threads, Lock(t) \/ ThreadStep(t)
    PROVE  Promise!Next \/ phases' = phases
<1>0. /\ TypeOK /\ LockHeld /\ WaiterOwnsAnswer /\ HolderCalled
      /\ TypeOK' /\ WaiterOwnsAnswer'
  BY DEF RInv, IInv
<1>1. CASE Lock(t)
  <2>1. waiting = {} /\ waiting' = {} /\ cmd_mtx = NoThread /\ cmd_mtx' = t
        /\ call[t] # "none" /\ call' = call
    BY <1>0, <1>1, SoleWaiter DEF Lock
  <2>2. \A u \in Threads : Phase(u) \notin {"serving", "waiting"}
    BY <2>1 DEF Phase, LinkAssumption
  <2>3. Phase(t) = "called" /\ Phase(t)' = "serving"
    BY <2>1 DEF Phase, LinkAssumption
  <2>4. phases' = [phases EXCEPT ![t] = Phase(t)']
    BY <2>1, OnePhase
  <2> QED BY <2>2, <2>3, <2>4, ServiceStep
<1>2. ASSUME cmd_mtx = t, UNCHANGED <<call, cmd_mtx>>,
             \/ t \notin waiting /\ waiting' = waiting \cup {t}
             \/ t \in waiting /\ waiting' = waiting \ {t}
      PROVE  Promise!Next
  <2>1. \/ Phase(t) = "serving" /\ Phase(t)' = "waiting"
        \/ Phase(t) = "waiting" /\ Phase(t)' = "serving"
    BY <1>2 DEF Phase
  <2>2. phases' = [phases EXCEPT ![t] = Phase(t)']
    BY <1>2, OnePhase
  <2> QED BY <2>1, <2>2, ServiceStep
<1>3. ASSUME cmd_mtx = t, Leave(t), waiting' = waiting \ {t}
      PROVE  Promise!Next
  <2>1. Phase(t) \in {"serving", "waiting"}
    BY <1>3 DEF Phase
  <2>2. /\ call'[t] = "none" /\ cmd_mtx' = NoThread /\ t \notin waiting'
        /\ \A u \in Threads \ {t} : call'[u] = call[u]
    BY <1>0, <1>3 DEF Leave, TypeOK
  <2>3. Phase(t)' = "idle"
    BY <2>2 DEF Phase, LinkAssumption
  <2>4. phases' = [phases EXCEPT ![t] = Phase(t)']
    BY <1>3, <2>2, OnePhase
  <2> QED BY <2>1, <2>3, <2>4, ServiceStep
<1>4. CASE TxWrite(t)
  <2>1. cmd_mtx = t /\ t \notin waiting /\ UNCHANGED <<call, cmd_mtx>>
        /\ waiting' \in {waiting, waiting \cup {t}}
    BY <1>0, <1>4 DEF TxWrite, Transmits, LockHeld
  <2> QED BY <1>2, <2>1, SamePhases
<1>5. CASE TxAnswered(t)
  <2>1. cmd_mtx = t /\ UNCHANGED <<call, cmd_mtx>>
        /\ t \in waiting /\ waiting' = waiting \ {t}
    BY <1>0, <1>5 DEF TxAnswered, WaiterOwnsAnswer
  <2> QED BY <1>2, <2>1
<1>6. CASE TxTimeout(t)
  <2>1. cmd_mtx = t /\ t \in waiting /\ waiting' = waiting \ {t}
    BY <1>0, <1>6 DEF TxTimeout, WaiterOwnsAnswer
  <2>2. Leave(t) \/ UNCHANGED <<call, cmd_mtx>>
    BY <1>6 DEF TxTimeout, Throw
  <2> QED BY <1>2, <1>3, <2>1, <2>2
<1>7. CASE CheckPwm(t)
  <2>1. cmd_mtx = t /\ t \notin waiting /\ waiting' = waiting
    BY <1>0, <1>7 DEF CheckPwm, LockHeld, WaiterOwnsAnswer, Checks, Requests,
                      PwmRequests, Measurements
  <2>2. Leave(t) \/ UNCHANGED <<call, cmd_mtx>>
    BY <1>7 DEF CheckPwm, Throw
  <2>3. waiting' = waiting \ {t}
    BY <2>1
  <2> QED BY <1>3, <2>1, <2>2, <2>3, SamePhases
<1>8. CASE Return(t)
  <2>1. cmd_mtx = t /\ Leave(t) /\ waiting' = waiting
    BY <1>8 DEF Return
  <2>2. t \notin waiting
    BY <1>0, <1>8 DEF Return, WaiterOwnsAnswer
  <2>3. waiting' = waiting \ {t}
    BY <2>1, <2>2
  <2> QED BY <1>3, <2>1, <2>3
<1>9. CASE TxWriteFails(t) \/ TxDangling(t) \/ ReinitDone(t)
  BY <1>9, SamePhases DEF TxWriteFails, TxDangling, ReinitDone
<1> QED BY <1>1, <1>4, <1>5, <1>6, <1>7, <1>8, <1>9 DEF ThreadStep

(* Every step of the link is a step of the service or changes no phase.    *)
LEMMA StepServes ==
    ASSUME LinkAssumption, RInv, RInv', [Next]_vars
    PROVE  Promise!Next \/ phases' = phases
<1>1. CASE QueryWake
  BY <1>1, CallStep DEF QueryWake
<1>2. ASSUME NEW c \in Clients, ClientCall(c) PROVE Promise!Next
  <2>1. PICK op \in Commands : call' = [call EXCEPT ![c] = op]
    BY <1>2 DEF ClientCall
  <2>2. op \in Operations
    BY DEF LinkAssumption
  <2> QED BY <1>2, <2>1, <2>2, CallStep DEF ClientCall
<1>3. ASSUME NEW t \in Threads, Lock(t) \/ ThreadStep(t)
      PROVE  Promise!Next \/ phases' = phases
  BY <1>3, ThreadServes
<1>4. CASE ReadAck \/ ReadFrame \/ ReadAnnounce \/ ReadError
  BY <1>4, SamePhases DEF ReadAck, ReadFrame, ReadAnnounce, ReadError, Break
<1>5. CASE MainStep \/ OpenFails
  BY <1>5, SamePhases DEF MainStep, Create, NewGensio, Open, OpenGensio,
                          OpenFails, OpenThrows, Woken, WaitReturns, Close,
                          CloseGensio,
                          Destroy, FreeGensio, SleepDone, Retry
<1>6. CASE DevServe \/ DevReset \/ DevIgnore \/ DevBoot \/ WireLoses
  BY <1>6, SamePhases DEF DevServe, DevReset, DevIgnore, DevBoot, WireLoses
<1>7. CASE UNCHANGED vars
  BY <1>7, SamePhases DEF vars
<1> QED BY <1>1, <1>2, <1>3, <1>4, <1>5, <1>6, <1>7
        DEF Next, Running, Terminated

(* KL02.cpp serves its callers one operation at a time, whatever number of *)
(* framework threads calls it and whatever goes wrong.                     *)
THEOREM Implements == Spec => ServesOneAtATime
<1>1. Init => RInv
  <2>1. Init => HolderCalled
    BY LinkAssumption DEF LinkAssumption, Init, HolderCalled
  <2> QED BY <2>1, InvInit, LinkAssumption DEF RInv
<1>2. RInv /\ [Next]_vars => RInv'
  BY HolderNext, LinkAssumption
<1>3. Init => Promise!Init
  BY LinkAssumption DEF LinkAssumption, Init, Promise!Init, Phase
<1>4. RInv /\ RInv' /\ [Next]_vars => [Promise!Next]_phases
  BY StepServes, LinkAssumption
<1>5. RInv /\ RInv' /\ [Next]_vars => Promise!Next \/ UNCHANGED [t \in Threads |-> Phase(t)]
  BY <1>4 DEF phases
<1> QED BY <1>1, <1>2, <1>3, <1>5, PTL DEF Spec, ServesOneAtATime, Promise!Spec

(* What RequestService promises: nobody runs an operation while another    *)
(* user runs one.                                                          *)
LEMMA ServiceExclusive == Promise!Spec => []Promise!Exclusive
<1> DEFINE I == Promise!TypeOK /\ Promise!Exclusive
<1>1. Promise!Init => I
  BY DEF Promise!Init, Promise!TypeOK, Promise!Exclusive, Promise!Inside,
         Promise!Phases
<1>2. I /\ [Promise!Next]_phases => I'
  <2> SUFFICES ASSUME I, [Promise!Next]_phases PROVE I'
    OBVIOUS
  <2>1. CASE phases' = phases
    BY <2>1 DEF Promise!TypeOK, Promise!Exclusive, Promise!Inside, phases
  <2>2. ASSUME NEW u \in Threads,
               \/ Promise!Call(u) \/ Promise!Enter(u) \/ Promise!Ask(u)
               \/ Promise!Learn(u) \/ Promise!Throw(u) \/ Promise!Leave(u)
        PROVE  I'
    BY <2>2 DEF Promise!Call, Promise!Enter, Promise!Ask, Promise!Learn,
       Promise!Throw, Promise!Leave, Promise!Moves, Promise!TypeOK,
       Promise!Exclusive, Promise!Inside, Promise!Phases
  <2> QED BY <2>1, <2>2 DEF Promise!Next
<1> QED BY <1>1, <1>2, PTL DEF Promise!Spec, phases

(* KL02.cpp, cmd_mtx: what an operation of the driver learns from its      *)
(* requests still holds when it sends the next one, because no other       *)
(* thread runs an operation meanwhile.                                     *)
THEOREM ServedAlone == Spec => []Promise!Exclusive
  BY Implements, ServiceExclusive, PTL DEF ServesOneAtATime

-----------------------------------------------------------------------------
(* What is left of a round.  Its program is fixed when it begins, the      *)
(* connection may be a new one when it is carried out.                     *)

(* The end of the initialisation is ahead, and all measurements after it.  *)
Initialises(q) ==
    \E i \in 1 .. Len(q) :
        /\ q[i] = "reinit_done"
        /\ \A j \in 1 .. i - 1 : q[j] \in {"RESET", "PP_PULLUP"}
        /\ \A j \in i + 1 .. Len(q) : q[j] \in Measurements

OnlyMeasures(q) == \A j \in 1 .. Len(q) : q[j] \in Measurements

(* Transmission is on, and a reply under evaluation, only while the main   *)
(* thread waits.  When it is about to create a gensio the query thread     *)
(* sleeps, or waits for the answer to a RESET, which does not come.        *)
QueryInv ==
    /\ call[Query] \in {"none", "round"}
    /\ tx_enabled \/ rx # NoReply => main = "wait"
    /\ Busy(Query) => \/ Initialises(agenda[Query])
                      \/ ~reinit /\ OnlyMeasures(agenda[Query])
    /\ process = "running" /\ main = "create" =>
          \/ call[Query] = "none"
          \/ Query \in waiting /\ Current(Query) = "RESET" /\ last # "RESET"

QInv == RInv /\ QueryInv

(* Taking a step off the agenda of a round.                                *)
LEMMA RestOfRound ==
    ASSUME NEW q \in Seq(Steps), q # <<>>
    PROVE  /\ OnlyMeasures(q) => OnlyMeasures(Tail(q)) /\ Head(q) \in Measurements
           /\ Initialises(q) =>
                 \/ Head(q) = "reinit_done" /\ OnlyMeasures(Tail(q))
                 \/ Head(q) \in {"RESET", "PP_PULLUP"} /\ Initialises(Tail(q))
<1>1. /\ Len(q) \in Nat \ {0} /\ Len(Tail(q)) = Len(q) - 1 /\ Head(q) = q[1]
      /\ \A j \in 1 .. Len(q) - 1 : Tail(q)[j] = q[j + 1]
  BY HeadTailProperties
<1>2. ASSUME OnlyMeasures(q)
      PROVE  OnlyMeasures(Tail(q)) /\ Head(q) \in Measurements
  BY <1>1, <1>2 DEF OnlyMeasures
<1>3. ASSUME Initialises(q)
      PROVE  \/ Head(q) = "reinit_done" /\ OnlyMeasures(Tail(q))
             \/ Head(q) \in {"RESET", "PP_PULLUP"} /\ Initialises(Tail(q))
  <2>1. PICK i \in 1 .. Len(q) :
            /\ q[i] = "reinit_done"
            /\ \A j \in 1 .. i - 1 : q[j] \in {"RESET", "PP_PULLUP"}
            /\ \A j \in i + 1 .. Len(q) : q[j] \in Measurements
    BY <1>3 DEF Initialises
  <2>2. CASE i = 1
    BY <1>1, <2>1, <2>2 DEF OnlyMeasures
  <2>3. CASE i # 1
    <3>1. Head(q) \in {"RESET", "PP_PULLUP"}
      BY <1>1, <2>1, <2>3
    <3>2. /\ i - 1 \in 1 .. Len(Tail(q)) /\ Tail(q)[i - 1] = "reinit_done"
          /\ \A j \in 1 .. (i - 1) - 1 : Tail(q)[j] \in {"RESET", "PP_PULLUP"}
          /\ \A j \in (i - 1) + 1 .. Len(Tail(q)) : Tail(q)[j] \in Measurements
      BY <1>1, <2>1, <2>3
    <3> QED BY <3>1, <3>2 DEF Initialises
  <2> QED BY <2>2, <2>3
<1> QED BY <1>2, <1>3

(* Measurements put behind a part of a round.                              *)
LEMMA MeasuresBehind ==
    ASSUME NEW p \in Seq(Steps), NEW q \in Seq(Steps), OnlyMeasures(q)
    PROVE  /\ p \o q \in Seq(Steps)
           /\ OnlyMeasures(p) => OnlyMeasures(p \o q)
           /\ Initialises(p) => Initialises(p \o q)
<1>1. /\ p \o q \in Seq(Steps) /\ Len(p \o q) = Len(p) + Len(q)
      /\ Len(p) \in Nat /\ Len(q) \in Nat
      /\ \A j \in 1 .. Len(p) + Len(q) :
            (p \o q)[j] = IF j <= Len(p) THEN p[j] ELSE q[j - Len(p)]
  BY ConcatProperties
<1>2. \A j \in Len(p) + 1 .. Len(p) + Len(q) : (p \o q)[j] \in Measurements
  BY <1>1 DEF OnlyMeasures
<1>3. OnlyMeasures(p) => OnlyMeasures(p \o q)
  BY <1>1, <1>2 DEF OnlyMeasures
<1>4. ASSUME Initialises(p) PROVE Initialises(p \o q)
  <2>1. PICK i \in 1 .. Len(p) :
            /\ p[i] = "reinit_done"
            /\ \A j \in 1 .. i - 1 : p[j] \in {"RESET", "PP_PULLUP"}
            /\ \A j \in i + 1 .. Len(p) : p[j] \in Measurements
    BY <1>4 DEF Initialises
  <2>2. /\ i \in 1 .. Len(p \o q) /\ (p \o q)[i] = "reinit_done"
        /\ \A j \in 1 .. i - 1 : (p \o q)[j] \in {"RESET", "PP_PULLUP"}
    BY <1>1, <2>1
  <2>3. \A j \in i + 1 .. Len(p \o q) : (p \o q)[j] \in Measurements
    <3> SUFFICES ASSUME NEW j \in i + 1 .. Len(p \o q)
                 PROVE  (p \o q)[j] \in Measurements
      OBVIOUS
    <3>1. CASE j <= Len(p)
      BY <1>1, <2>1, <3>1
    <3>2. CASE j > Len(p)
      BY <1>1, <1>2, <3>2
    <3> QED BY <1>1, <3>1, <3>2
  <2> QED BY <2>2, <2>3 DEF Initialises
<1> QED BY <1>1, <1>3, <1>4

(* A round that begins with reinit set initialises, another one measures.  *)
LEMMA RoundProgram ==
    IF reinit THEN Initialises(Round) ELSE OnlyMeasures(Round)
<1>1. {"RESET", "PP_PULLUP", "PP_VOLTAGE", "GET_UCP", "GET_PWM",
       "reinit_done"} \subseteq Steps
  BY DEF Steps, Requests, PwmRequests, Measurements, Checks
<1>2. /\ <<>> \in Seq(Steps)
      /\ \A x \in Steps : <<x>> \in Seq(Steps) /\ Len(<<x>>) = 1 /\ <<x>>[1] = x
      /\ \A x, y \in Steps : <<x, y>> \in Seq(Steps)
      /\ \A x, y, z \in Steps : <<x, y, z>> \in Seq(Steps)
      /\ Len(<<>>) = 0
  OBVIOUS
<1>3. /\ PpQuery \in Seq(Steps) /\ OnlyMeasures(PpQuery)
      /\ PwmQuery \in Seq(Steps) /\ OnlyMeasures(PwmQuery)
      /\ <<"GET_UCP">> \in Seq(Steps) /\ OnlyMeasures(<<"GET_UCP">>)
  BY <1>1, <1>2 DEF PpQuery, PwmQuery, OnlyMeasures, Measurements
<1>4. Reinit \in Seq(Steps) /\ Initialises(Reinit)
  <2> DEFINE p    == <<"RESET">> \o PullUp
             done == <<"reinit_done">>
  <2>1. /\ PullUp \in Seq(Steps) /\ Len(PullUp) \in Nat
        /\ \A j \in 1 .. Len(PullUp) : PullUp[j] = "PP_PULLUP"
    BY <1>1, <1>2 DEF PullUp
  <2>2. /\ <<"RESET">> \in Seq(Steps) /\ Len(<<"RESET">>) = 1
        /\ <<"RESET">>[1] = "RESET"
        /\ done \in Seq(Steps) /\ Len(done) = 1 /\ done[1] = "reinit_done"
    BY <1>1, <1>2
  <2>3. /\ p \in Seq(Steps) /\ Len(p) \in Nat
        /\ \A j \in 1 .. Len(p) : p[j] \in {"RESET", "PP_PULLUP"}
    BY <2>1, <2>2, ConcatProperties
  <2>4. Reinit = p \o done
    BY DEF Reinit
  <2> HIDE DEF p, done
  <2>5. /\ p \o done \in Seq(Steps) /\ Len(p \o done) = Len(p) + 1
        /\ \A j \in 1 .. Len(p) : (p \o done)[j] = p[j]
        /\ (p \o done)[Len(p) + 1] = "reinit_done"
    <3>1. /\ p \o done \in Seq(Steps) /\ Len(p \o done) = Len(p) + Len(done)
          /\ \A j \in 1 .. Len(p) + Len(done) :
                (p \o done)[j] = IF j <= Len(p) THEN p[j] ELSE done[j - Len(p)]
      BY <2>2, <2>3, ConcatProperties
    <3>2. Len(p) + 1 \in 1 .. Len(p) + Len(done) /\ (Len(p) + 1) - Len(p) = 1
      BY <2>2, <2>3
    <3> QED BY <2>2, <2>3, <3>1, <3>2
  <2>6. Initialises(p \o done)
    <3> DEFINE i == Len(p) + 1
    <3>1. i \in 1 .. Len(p \o done) /\ (p \o done)[i] = "reinit_done"
      BY <2>3, <2>5
    <3>2. \A j \in 1 .. i - 1 : (p \o done)[j] \in {"RESET", "PP_PULLUP"}
      BY <2>3, <2>5
    <3>3. \A j \in i + 1 .. Len(p \o done) : (p \o done)[j] \in Measurements
      BY <2>3, <2>5
    <3> QED BY <3>1, <3>2, <3>3 DEF Initialises
  <2> QED BY <2>4, <2>5, <2>6
<1> DEFINE begin == IF reinit THEN Reinit ELSE <<>>
<1>5. /\ begin \in Seq(Steps)
      /\ IF reinit THEN Initialises(begin) ELSE OnlyMeasures(begin)
  BY <1>2, <1>4 DEF OnlyMeasures
<1>6. Round = ((begin \o PpQuery) \o <<"GET_UCP">>) \o PwmQuery
  BY DEF Round
<1> HIDE DEF begin
<1>7. /\ begin \o PpQuery \in Seq(Steps)
      /\ IF reinit THEN Initialises(begin \o PpQuery) ELSE OnlyMeasures(begin \o PpQuery)
  BY <1>3, <1>5, MeasuresBehind
<1> DEFINE most == (begin \o PpQuery) \o <<"GET_UCP">>
<1>8. /\ most \in Seq(Steps)
      /\ IF reinit THEN Initialises(most) ELSE OnlyMeasures(most)
  BY <1>3, <1>7, MeasuresBehind
<1> HIDE DEF most
<1>9. IF reinit THEN Initialises(most \o PwmQuery) ELSE OnlyMeasures(most \o PwmQuery)
  BY <1>3, <1>8, MeasuresBehind
<1> QED BY <1>6, <1>9 DEF most

(* The invariant is inductive: first the steps of a thread.                *)
LEMMA QueryThreadNext ==
    ASSUME LinkAssumption, QInv, RInv', process = "running",
           NEW t \in Threads, Lock(t) \/ ThreadStep(t)
    PROVE  QueryInv'
<1>0. /\ TypeOK /\ LockHeld /\ WaiterOwnsAnswer /\ HolderCalled /\ TypeOK'
      /\ QueryInv /\ Query \in Threads
  BY DEF QInv, RInv, IInv
<1>1. UNCHANGED <<rx, tx_enabled, main, last>>
  BY DEF Lock, ThreadStep, TxWrite, TxWriteFails, TxDangling, TxAnswered,
         TxTimeout, CheckPwm, ReinitDone, Return
<1>2. reinit' = reinit \/ ~reinit'
  BY DEF Lock, ThreadStep, TxWrite, TxWriteFails, TxDangling, TxAnswered,
         TxTimeout, CheckPwm, ReinitDone, Return
<1>3. CASE t # Query
  <2>1. call'[Query] = call[Query] /\ agenda'[Query] = agenda[Query]
    BY <1>0, <1>3 DEF Lock, ThreadStep, TxWrite, TxWriteFails, TxDangling,
       TxAnswered, TxTimeout, CheckPwm, ReinitDone, Return, Advance, Leave,
       Throw, TypeOK
  <2>2. Query \in waiting => Query \in waiting'
    BY <1>3 DEF Lock, ThreadStep, TxWrite, TxWriteFails, TxDangling,
       TxAnswered, TxTimeout, CheckPwm, ReinitDone, Return
  <2> QED BY <1>0, <1>1, <1>2, <2>1, <2>2 DEF QueryInv, Busy, Current
<1>4. CASE t = Query /\ Lock(Query)
  <2>1. call' = call /\ call[Query] = "round" /\ waiting = {} /\ reinit' = reinit
    BY <1>0, <1>4, SoleWaiter DEF Lock, QueryInv
  <2>2. agenda'[Query] = Round
    BY <1>0, <1>4, <2>1 DEF Lock, Program, TypeOK
  <2>3. ~(process = "running" /\ main = "create")
    BY <1>0, <2>1 DEF QueryInv
  <2>4. process' = process
    BY <1>4 DEF Lock
  <2> QED BY <1>0, <1>1, <2>1, <2>2, <2>3, <2>4, RoundProgram
          DEF QueryInv, Busy
<1>5. ASSUME t = Query, Advance(Query), agenda[Query] # <<>>, call' = call,
             reinit' = IF Head(agenda[Query]) = "reinit_done" THEN FALSE ELSE reinit,
             process' = "running" =>
                ~(Query \in waiting /\ Current(Query) = "RESET" /\ last # "RESET")
      PROVE  QueryInv'
  <2>1. agenda[Query] \in Seq(Steps) /\ agenda'[Query] = Tail(agenda[Query])
    BY <1>0, <1>5 DEF TypeOK, Advance
  <2>2. \/ Initialises(agenda'[Query])
        \/ ~reinit' /\ OnlyMeasures(agenda'[Query])
    <3>1. "reinit_done" \notin Measurements \cup {"RESET", "PP_PULLUP"}
      BY DEF Measurements
    <3> QED BY <1>0, <1>5, <2>1, <3>1, RestOfRound DEF QueryInv, Busy
  <2>3. call[Query] # "none"
    BY <1>0, <1>5 DEF LockHeld, HolderCalled, Busy
  <2>4. ~(process' = "running" /\ main = "create")
    BY <1>0, <1>5, <2>3 DEF QueryInv
  <2> QED BY <1>0, <1>1, <1>5, <2>2, <2>4 DEF QueryInv, Busy
<1>6. CASE t = Query /\ ThreadStep(Query)
  <2>0. /\ "reinit_done" \notin Requests /\ Requests \cap Checks = {}
        /\ Measurements \subseteq Requests
        /\ Checks \cap (Measurements \cup {"RESET", "PP_PULLUP", "reinit_done"}) = {}
    BY DEF Requests, PwmRequests, Measurements, Checks
  <2>1. CASE TxWrite(Query)
    <3>1. \/ Advance(Query) /\ UNCHANGED waiting
          \/ agenda' = agenda /\ waiting' = waiting \cup {Query}
      BY <2>1 DEF TxWrite
    <3>2. /\ Query \notin waiting /\ agenda[Query] # <<>> /\ UNCHANGED <<call, reinit, process>>
          /\ Head(agenda[Query]) # "reinit_done"
      BY <2>0, <2>1 DEF TxWrite, Transmits, Busy, Current
    <3>3. CASE agenda' = agenda
      <4>1. ~(main = "create")
        BY <1>0, <3>2 DEF QueryInv, LockHeld, HolderCalled, Busy
      <4> QED BY <1>0, <1>1, <3>2, <3>3, <4>1 DEF QueryInv, Busy
    <3> QED BY <1>5, <1>6, <3>1, <3>2, <3>3
  <2>2. CASE TxWriteFails(Query) \/ TxDangling(Query)
    <3>0. Transmits(Query) /\ UNCHANGED <<call, reinit>>
      BY <2>2 DEF TxWriteFails, TxDangling
    <3>1. /\ Query \notin waiting /\ agenda[Query] # <<>> /\ UNCHANGED <<call, reinit>>
          /\ Head(agenda[Query]) # "reinit_done"
          /\ \/ Advance(Query)
             \/ agenda' = agenda /\ process' = "terminated"
      <4>1. \/ Advance(Query)
            \/ agenda' = agenda /\ process' = "terminated"
        BY <2>2 DEF TxWriteFails, TxDangling
      <4> QED BY <2>0, <3>0, <4>1 DEF Transmits, Busy, Current
    <3>2. CASE agenda' = agenda /\ process' = "terminated"
      BY <1>0, <1>1, <3>1, <3>2 DEF QueryInv, Busy
    <3> QED BY <1>5, <1>6, <3>1, <3>2
  <2>3. CASE TxAnswered(Query)
    <3>1. /\ Query \in waiting /\ last = expected /\ Advance(Query)
          /\ UNCHANGED <<call, reinit>>
      BY <2>3 DEF TxAnswered
    <3>2. /\ agenda[Query] # <<>> /\ Current(Query) \in Requests
          /\ expected = Service(Current(Query))
      BY <1>0, <3>1 DEF WaiterOwnsAnswer, Busy
    <3>3. Current(Query) = "RESET" => last = "RESET"
      BY <3>1, <3>2 DEF Service, PwmRequests
    <3> QED BY <1>5, <1>6, <2>0, <3>1, <3>2, <3>3 DEF Current
  <2>4. CASE TxTimeout(Query) \/ CheckPwm(Query)
    <3>1. \/ process' = "terminated" /\ UNCHANGED <<call, agenda, reinit>>
          \/ CheckPwm(Query) /\ Advance(Query)
      BY <2>4 DEF TxTimeout, CheckPwm, Throw
    <3>2. ~CheckPwm(Query)
      <4> SUFFICES ASSUME CheckPwm(Query) PROVE FALSE
        OBVIOUS
      <4>1. agenda[Query] # <<>> /\ Head(agenda[Query]) \in Checks
        BY DEF CheckPwm, Busy, Current
      <4>2. agenda[Query] \in Seq(Steps)
        BY <1>0 DEF TypeOK
      <4> QED BY <1>0, <2>0, <4>1, <4>2, RestOfRound DEF QueryInv, Busy
    <3> QED BY <1>0, <1>1, <3>1, <3>2 DEF QueryInv, Busy
  <2>5. CASE ReinitDone(Query)
    <3>1. /\ agenda[Query] # <<>> /\ Head(agenda[Query]) = "reinit_done"
          /\ reinit' = FALSE /\ Advance(Query) /\ call' = call
      BY <2>5 DEF ReinitDone, Busy, Current
    <3> QED BY <1>5, <1>6, <3>1 DEF Current
  <2>6. CASE Return(Query)
    <3>1. /\ agenda'[Query] = <<>> /\ call'[Query] = "none"
      BY <1>0, <2>6 DEF Return, Leave, TypeOK
    <3> QED BY <1>0, <1>1, <3>1 DEF QueryInv, Busy
  <2> QED BY <1>6, <2>1, <2>2, <2>3, <2>4, <2>5, <2>6 DEF ThreadStep
<1> QED BY <1>3, <1>4, <1>6

(* ... then those of everybody else.                                       *)
LEMMA QueryOthersNext ==
    ASSUME LinkAssumption, QInv, RInv', process = "running",
           \/ QueryWake \/ \E c \in Clients : ClientCall(c)
           \/ ReadAck \/ ReadFrame \/ ReadAnnounce \/ ReadError
           \/ MainStep \/ OpenFails
           \/ DevServe \/ DevReset \/ DevIgnore \/ DevBoot \/ WireLoses
    PROVE  QueryInv'
<1>0. /\ TypeOK /\ LockHeld /\ WaiterOwnsAnswer /\ HolderCalled /\ TypeOK'
      /\ QueryInv /\ Query \in Threads
  BY DEF QInv, RInv, IInv
<1>1. CASE QueryWake \/ \E c \in Clients : ClientCall(c)
  <2>1. /\ call'[Query] \in {"none", "round"}
        /\ main = "create" => call'[Query] = call[Query]
    BY <1>0, <1>1 DEF QueryWake, ClientCall, TypeOK, QueryInv, LinkAssumption
  <2>2. UNCHANGED <<agenda, waiting, readerVars, loopVars, process>>
    BY <1>1 DEF QueryWake, ClientCall
  <2> QED BY <1>0, <2>1, <2>2 DEF QueryInv, Busy, Current
<1>2. CASE ReadAck \/ ReadFrame \/ ReadAnnounce \/ ReadError
  <2>1. /\ UNCHANGED <<call, agenda, waiting, main, tx_enabled, reinit>>
        /\ main = "wait"
    BY <1>0, <1>2 DEF ReadAck, ReadFrame, ReadAnnounce, ReadError, Reading,
                      Break, QueryInv
  <2> QED BY <1>0, <2>1 DEF QueryInv, Busy
<1>3. CASE MainStep \/ OpenFails
  <2>1. UNCHANGED <<call, agenda, waiting, last, rx, process>>
    BY <1>3 DEF MainStep, Create, NewGensio, Open, OpenGensio, OpenFails,
                OpenThrows, Woken, WaitReturns, Close, CloseGensio, Destroy,
                FreeGensio, SleepDone, Retry
  <2>2. tx_enabled' \/ rx' # NoReply => main' = "wait"
    BY <1>0, <1>3 DEF MainStep, Create, NewGensio, Open, OpenGensio,
                OpenFails, OpenThrows, Woken, WaitReturns, Close, CloseGensio,
                Destroy, FreeGensio, SleepDone, Retry, QueryInv
  <2>3. CASE Create
    <3>1. main = "create" /\ main' = "open"
      BY <2>3 DEF Create, NewGensio
    <3>2. ASSUME Busy(Query) PROVE Initialises(agenda[Query])
      <4>1. Current(Query) = "RESET"
        BY <1>0, <3>1, <3>2 DEF QueryInv, LockHeld, HolderCalled
      <4>2. agenda[Query] \in Seq(Steps) /\ "RESET" \notin Measurements
        BY <1>0 DEF TypeOK, Measurements
      <4> QED BY <1>0, <3>2, <4>1, <4>2, RestOfRound DEF QueryInv, Busy, Current
    <3> QED BY <1>0, <2>1, <2>2, <3>1, <3>2 DEF QueryInv, Busy
  <2>4. CASE SleepDone
    <3>1. reinit' = reinit
      BY <2>4 DEF SleepDone, Retry
    <3>2. \/ call[Query] = "none"
          \/ Query \in waiting /\ Current(Query) = "RESET" /\ last # "RESET"
      BY <1>0, <2>4 DEF SleepDone
    <3> QED BY <1>0, <2>1, <2>2, <3>1, <3>2 DEF QueryInv, Busy, Current
  <2>5. CASE Open \/ Woken \/ Close \/ Destroy \/ OpenFails
    <3>1. reinit' = reinit /\ main' # "create"
      BY <2>5 DEF Open, OpenGensio, OpenFails, OpenThrows, Woken, WaitReturns,
                  Close, CloseGensio, Destroy, FreeGensio
    <3> QED BY <1>0, <2>1, <2>2, <3>1 DEF QueryInv, Busy
  <2> QED BY <1>3, <2>3, <2>4, <2>5 DEF MainStep
<1>4. CASE DevServe \/ DevReset \/ DevIgnore \/ DevBoot \/ WireLoses
  <2>1. UNCHANGED <<call, agenda, waiting, readerVars, loopVars, process>>
    BY <1>4 DEF DevServe, DevReset, DevIgnore, DevBoot, WireLoses
  <2> QED BY <1>0, <2>1 DEF QueryInv, Busy, Current
<1> QED BY <1>1, <1>2, <1>3, <1>4

LEMMA QueryInit == Init => QInv
<1> SUFFICES ASSUME Init PROVE QInv
  OBVIOUS
<1>1. RInv
  BY InvInit, LinkAssumption DEF LinkAssumption, Init, HolderCalled, RInv
<1>2. QueryInv
  BY LinkAssumption DEF Init, LoopInit, QueryInv, Busy
<1> QED BY <1>1, <1>2 DEF QInv

LEMMA QueryNext ==
    ASSUME LinkAssumption, QInv, [Next]_vars
    PROVE  QInv'
<1>1. RInv'
  BY HolderNext DEF QInv
<1>2. CASE process = "running" /\ Running
  BY <1>1, <1>2, QueryThreadNext, QueryOthersNext DEF Running, QInv
<1>3. CASE UNCHANGED vars
  <2>1. QueryInv'
    BY <1>3 DEF QInv, QueryInv, vars, Busy, Current
  <2> QED BY <1>1, <2>1 DEF QInv
<1> QED BY <1>2, <1>3 DEF Next, Terminated

-----------------------------------------------------------------------------
(* Nothing is measured over a new connection before the KL02 has reported  *)
(* a RESET.                                                                *)

(* What a step of a thread does to agenda and call.                        *)
LEMMA AgendaStep ==
    ASSUME LinkAssumption, TypeOK, WaiterOwnsAnswer,
           NEW t \in Threads, Lock(t) \/ ThreadStep(t)
    PROVE  /\ \A u \in Threads \ {t} :
                 call'[u] = call[u] /\ agenda'[u] = agenda[u]
           /\ \/ call' = call /\ agenda'[t] = Program(call[t]) /\ call[t] # "none"
              \/ call' = call /\ agenda'[t] = agenda[t]
              \/ call' = call /\ agenda[t] # <<>> /\ agenda'[t] = Tail(agenda[t])
              \/ call'[t] = "none" /\ agenda'[t] = <<>>
<1>1. CASE Lock(t)
  BY <1>1 DEF TypeOK, Lock
<1>2. ASSUME Advance(t), call' = call, agenda[t] # <<>>
      PROVE  /\ agenda'[t] = Tail(agenda[t])
             /\ \A u \in Threads \ {t} : agenda'[u] = agenda[u]
  BY <1>2 DEF TypeOK, Advance
<1>3. ASSUME Leave(t)
      PROVE  /\ call'[t] = "none" /\ agenda'[t] = <<>>
             /\ \A u \in Threads \ {t} :
                   call'[u] = call[u] /\ agenda'[u] = agenda[u]
  BY <1>3 DEF TypeOK, Leave
<1>4. CASE TxWrite(t) \/ TxWriteFails(t) \/ TxDangling(t)
  <2>1. /\ call' = call /\ agenda[t] # <<>>
        /\ agenda' = agenda \/ Advance(t)
    BY <1>4 DEF TxWrite, TxWriteFails, TxDangling, Transmits, Busy
  <2> QED BY <1>2, <2>1
<1>5. CASE TxAnswered(t)
  <2>1. call' = call /\ agenda[t] # <<>> /\ Advance(t)
    BY <1>5 DEF TxAnswered, WaiterOwnsAnswer, Busy
  <2> QED BY <1>2, <2>1
<1>6. CASE TxTimeout(t)
  <2>1. Leave(t) \/ UNCHANGED <<call, agenda>>
    BY <1>6 DEF TxTimeout, Throw
  <2> QED BY <1>3, <2>1
<1>7. CASE CheckPwm(t)
  <2>1. \/ Leave(t) \/ UNCHANGED <<call, agenda>>
        \/ call' = call /\ agenda[t] # <<>> /\ Advance(t)
    BY <1>7 DEF CheckPwm, Throw, Busy
  <2> QED BY <1>2, <1>3, <2>1
<1>8. CASE ReinitDone(t)
  <2>1. call' = call /\ agenda[t] # <<>> /\ Advance(t)
    BY <1>8 DEF ReinitDone, Busy
  <2> QED BY <1>2, <2>1
<1>9. CASE Return(t)
  BY <1>3, <1>9 DEF Return
<1> QED BY <1>1, <1>4, <1>5, <1>6, <1>7, <1>8, <1>9 DEF ThreadStep

(* A thread that waits does nothing but learn the answer or give up.       *)
LEMMA WaiterStep ==
    ASSUME LinkAssumption, IInv, NEW t \in Threads, t \in waiting,
           Lock(t) \/ ThreadStep(t)
    PROVE  TxAnswered(t) \/ TxTimeout(t)
<1>1. cmd_mtx = t /\ cmd_mtx # NoThread /\ Busy(t) /\ Current(t) \in Requests
  BY DEF IInv, WaiterOwnsAnswer, LinkAssumption
<1>2. Current(t) \notin Checks /\ Current(t) # "reinit_done"
  BY <1>1 DEF Requests, PwmRequests, Measurements, Checks
<1> QED BY <1>1, <1>2 DEF Lock, ThreadStep, TxWrite, TxWriteFails, TxDangling,
                          Transmits, CheckPwm, ReinitDone, Return

(* While the connection is opened the query thread does nothing, or waits  *)
(* for the answer to the RESET of an earlier one.                          *)
Opening ==
    main = "open" =>
        /\ reinit
        /\ \/ call[Query] = "none"
           \/ Query \in waiting /\ Current(Query) = "RESET" /\ last # "RESET"

LEMMA OpeningThread ==
    ASSUME LinkAssumption, QInv, Opening,
           process' = "running", NEW t \in Threads, Lock(t) \/ ThreadStep(t)
    PROVE  Opening'
<1>0. /\ IInv /\ TypeOK /\ LockHeld /\ WaiterOwnsAnswer /\ HolderCalled
      /\ Query \in Threads /\ Query \notin Clients
  BY DEF QInv, RInv, IInv, LinkAssumption
<1>1. UNCHANGED <<main, last>> /\ (~ReinitDone(t) => reinit' = reinit)
  BY DEF Lock, ThreadStep, TxWrite, TxWriteFails, TxDangling, TxAnswered,
         TxTimeout, CheckPwm, ReinitDone, Return
<1>2. CASE t # Query
  <2>1. agenda'[Query] = agenda[Query] /\ call'[Query] = call[Query]
    BY <1>0, <1>2, AgendaStep
  <2>2. Query \in waiting => Query \in waiting'
    BY <1>2 DEF Lock, ThreadStep, TxWrite, TxWriteFails, TxDangling,
       TxAnswered, TxTimeout, CheckPwm, ReinitDone, Return
  <2>3. ~ReinitDone(t)
    BY <1>2 DEF ReinitDone
  <2> QED BY <1>1, <2>1, <2>2, <2>3 DEF Opening, Current
<1>3. CASE t = Query
  <2>1. CASE main # "open"
    BY <1>1, <2>1 DEF Opening
  <2>2. CASE main = "open" /\ call[Query] = "none"
    <3>1. ~Busy(Query) /\ cmd_mtx # Query /\ Query \notin waiting
      BY <1>0, <2>2 DEF LockHeld, HolderCalled, WaiterOwnsAnswer
    <3> QED BY <1>3, <2>2, <3>1 DEF Lock, ThreadStep, TxWrite, TxWriteFails,
       TxDangling, TxAnswered, TxTimeout, CheckPwm, ReinitDone, Return, Transmits
  <2>3. CASE /\ main = "open"
             /\ Query \in waiting /\ Current(Query) = "RESET" /\ last # "RESET"
    <3>1. TxAnswered(Query) \/ TxTimeout(Query)
      BY <1>0, <1>3, <2>3, WaiterStep
    <3>2. ~TxTimeout(Query)
      BY DEF TxTimeout, Throw
    <3>3. expected = "RESET"
      BY <1>0, <2>3 DEF WaiterOwnsAnswer, Service, PwmRequests
    <3> QED BY <2>3, <3>1, <3>2, <3>3 DEF TxAnswered
  <2> QED BY <2>1, <2>2, <2>3 DEF Opening
<1> QED BY <1>2, <1>3

LEMMA OpeningOthers ==
    ASSUME LinkAssumption, QInv, Opening, process = "running",
           \/ QueryWake \/ \E c \in Clients : ClientCall(c)
           \/ ReadAck \/ ReadFrame \/ ReadAnnounce \/ ReadError
           \/ MainStep \/ OpenFails
           \/ DevServe \/ DevReset \/ DevIgnore \/ DevBoot \/ WireLoses
    PROVE  Opening'
<1>0. TypeOK /\ QueryInv /\ Query \in Threads /\ Query \notin Clients
  BY DEF QInv, RInv, IInv, LinkAssumption
<1>1. CASE QueryWake \/ \E c \in Clients : ClientCall(c)
  <2>1. /\ UNCHANGED <<agenda, waiting, last, main, reinit>>
        /\ main = "open" => call'[Query] = call[Query]
    BY <1>0, <1>1 DEF QueryWake, ClientCall, QueryInv, TypeOK
  <2> QED BY <2>1 DEF Opening, Current
<1>2. CASE ReadAck \/ ReadFrame \/ ReadAnnounce \/ ReadError
  <2>1. main' = main /\ main = "wait"
    BY <1>0, <1>2 DEF ReadAck, ReadFrame, ReadAnnounce, ReadError, Reading,
                      Break, QueryInv
  <2> QED BY <2>1 DEF Opening
<1>3. CASE Create
  <2>1. main = "create" /\ reinit' /\ UNCHANGED <<call, agenda, waiting, last>>
    BY <1>3 DEF Create, NewGensio
  <2> QED BY <1>0, <2>1 DEF Opening, QueryInv, Current
<1>4. CASE Open \/ Woken \/ Close \/ Destroy \/ SleepDone \/ OpenFails
  <2>1. main' # "open"
    BY <1>4 DEF Open, OpenGensio, OpenFails, OpenThrows, Woken, WaitReturns,
                Close, CloseGensio, Destroy, FreeGensio, SleepDone, Retry
  <2> QED BY <2>1 DEF Opening
<1>5. CASE DevServe \/ DevReset \/ DevIgnore \/ DevBoot \/ WireLoses
  <2>1. UNCHANGED <<call, agenda, waiting, last, main, reinit>>
    BY <1>5 DEF DevServe, DevReset, DevIgnore, DevBoot, WireLoses
  <2> QED BY <2>1 DEF Opening, Current
<1> QED BY <1>1, <1>2, <1>3, <1>4, <1>5 DEF MainStep

(* A message added to a queue makes it longer: taking one from it does not,*)
(* nor does adding another one give the same queue.                        *)
LEMMA OnlyAppendAppends ==
    ASSUME NEW S, NEW q \in Seq(S), NEW m \in S
    PROVE  /\ Append(q, m) # q /\ Append(q, m) # <<>>
           /\ q # <<>> => Append(q, m) # Tail(q)
           /\ \A n \in S : Append(q, m) = Append(q, n) => m = n
<1>1. Len(q) \in Nat /\ Len(Append(q, m)) = Len(q) + 1
  BY AppendProperties
<1>2. q # <<>> => Len(Tail(q)) = Len(q) - 1
  BY HeadTailProperties
<1>3. \A n \in S : Append(q, n)[Len(q) + 1] = n
  BY AppendProperties
<1> QED BY <1>1, <1>2, <1>3

(* A measurement is written by the query thread as the next of its round.  *)
LEMMA MeasurementWritten ==
    ASSUME QInv, [Next]_vars, NEW r \in Measurements, Writes(Query, r)
    PROVE  /\ TxWrite(Query) /\ process = "running"
           /\ Busy(Query) /\ Current(Query) = r
<1>0. /\ TypeOK /\ LockHeld /\ QueryInv /\ Query \in Threads
      /\ cmd_mtx = Query /\ toDev' = Append(toDev, r)
  BY DEF QInv, RInv, IInv, Writes
<1>1. toDev \in Seq(Outgoing) /\ r \in Outgoing /\ "QUIT" \in Outgoing /\ r # "QUIT"
  BY <1>0 DEF TypeOK, Outgoing, Requests, Measurements
<1>2. /\ toDev' # toDev /\ toDev' # <<>> /\ toDev' # Append(toDev, "QUIT")
      /\ ~(toDev # <<>> /\ toDev' = Tail(toDev))
      /\ \A n \in Outgoing : toDev' = Append(toDev, n) => n = r
  BY <1>0, <1>1, OnlyAppendAppends
<1>3. PICK t \in Threads : TxWrite(t)
  <2>1. ~(QueryWake \/ \E c \in Clients : ClientCall(c)) /\ ~UNCHANGED vars
    BY <1>2 DEF QueryWake, ClientCall, vars
  <2>2. ~(ReadAck \/ ReadFrame \/ ReadAnnounce \/ ReadError)
    BY <1>2 DEF ReadAck, ReadFrame, ReadAnnounce, ReadError
  <2>3. ~(MainStep \/ OpenFails)
    BY <1>2 DEF MainStep, Create, Open, OpenFails, Woken, Close, Destroy,
                SleepDone
  <2>4. ~(DevServe \/ DevReset \/ DevIgnore \/ DevBoot \/ WireLoses)
    BY <1>2 DEF DevServe, DevReset, DevIgnore, DevBoot, WireLoses, Taken
  <2>5. \A t \in Threads : Lock(t) \/ ThreadStep(t) => TxWrite(t)
    BY <1>2 DEF Lock, ThreadStep, TxWriteFails, TxDangling, TxAnswered,
                TxTimeout, CheckPwm, ReinitDone, Return
  <2> QED BY <2>1, <2>2, <2>3, <2>4, <2>5 DEF Next, Running, Terminated
<1>4. t = Query /\ Busy(Query) /\ Current(Query) = r
  <2>1. Busy(t) /\ Current(t) \in Requests /\ toDev' = Append(toDev, Current(t))
    BY <1>3 DEF TxWrite, Transmits
  <2>2. Current(t) = r
    BY <1>2, <2>1 DEF Outgoing
  <2> QED BY <1>0, <2>1, <2>2 DEF LockHeld
<1>5. process = "running"
  BY <1>2 DEF Next, Terminated, vars
<1> QED BY <1>3, <1>4, <1>5

(* Until the KL02 has reported a RESET over an open connection the query   *)
(* thread still has all of the initialisation before it: its RESET cannot  *)
(* be skipped, unless the write is cut short, and ends with the report.    *)
Unreset ==
    /\ reinit
    /\ Busy(Query) => /\ Current(Query) = "RESET"
                      /\ Query \in waiting => last # "RESET"

ResetInv ==
    "partial" \notin env /\ io = "open" => reset_answered \/ Unreset

OInv == QInv /\ (process = "running" => Opening) /\ ResetInv

LEMMA ResetThread ==
    ASSUME LinkAssumption, QInv, ResetInv, NoteReset, env' = env,
           NEW t \in Threads, Lock(t) \/ ThreadStep(t)
    PROVE  ResetInv'
<1>0. /\ IInv /\ TypeOK /\ LockHeld /\ WaiterOwnsAnswer /\ QueryInv
      /\ Query \in Threads /\ Query \notin Clients
  BY DEF QInv, RInv, IInv, LinkAssumption
<1>1. UNCHANGED <<io, main, last>> /\ (~ReinitDone(t) => reinit' = reinit)
  BY DEF Lock, ThreadStep, TxWrite, TxWriteFails, TxDangling, TxAnswered,
         TxTimeout, CheckPwm, ReinitDone, Return
<1>2. reset_answered => reset_answered'
  BY <1>1 DEF NoteReset
<1> SUFFICES ASSUME "partial" \notin env, io = "open", Unreset
             PROVE  reset_answered' \/ Unreset'
  BY <1>1, <1>2 DEF ResetInv
<1>3. CASE t # Query
  <2>1. agenda'[Query] = agenda[Query] /\ ~ReinitDone(t)
    BY <1>0, <1>3, AgendaStep DEF ReinitDone
  <2>2. Query \in waiting' => Query \in waiting
    BY <1>3 DEF Lock, ThreadStep, TxWrite, TxWriteFails, TxDangling,
       TxAnswered, TxTimeout, CheckPwm, ReinitDone, Return
  <2> QED BY <1>1, <2>1, <2>2 DEF Unreset, Busy, Current
<1>4. CASE t = Query /\ Lock(Query)
  <2>1. waiting' = {} /\ call[Query] = "round"
    BY <1>0, <1>4, SoleWaiter DEF Lock, QueryInv
  <2>2. agenda'[Query] = Round /\ reinit'
    BY <1>0, <1>4, <2>1 DEF Lock, Program, TypeOK, Unreset
  <2>3. Round # <<>> /\ Head(Round) = "RESET"
    BY DEF Unreset, Round, Reinit, PullUp, PpQuery, PwmQuery
  <2> QED BY <2>1, <2>2, <2>3 DEF Unreset, Busy, Current
<1>5. CASE t = Query /\ ThreadStep(Query) /\ Busy(Query)
  <2>0. Current(Query) = "RESET" /\ cmd_mtx = Query /\ reinit
    BY <1>0, <1>5 DEF Unreset, LockHeld
  <2>1. ~(CheckPwm(Query) \/ ReinitDone(Query) \/ Return(Query))
    BY <1>5, <2>0 DEF CheckPwm, ReinitDone, Return, Checks
  <2>2. ~(TxWriteFails(Query) \/ TxDangling(Query))
    BY DEF TxWriteFails, TxDangling
  <2>3. CASE TxWrite(Query)
    <3>1. Writes(Query, "RESET") /\ Service("RESET") = "RESET"
      BY <2>0, <2>3 DEF TxWrite, Writes, Service, PwmRequests
    <3>2. CASE last = "RESET"
      BY <1>1, <2>0, <2>3, <3>1, <3>2 DEF TxWrite, Transmits, NoteReset
    <3>3. CASE last # "RESET"
      BY <1>1, <2>0, <2>3, <3>1, <3>3 DEF TxWrite, ReinitDone, Unreset, Busy,
         Current
    <3> QED BY <3>2, <3>3
  <2>4. ~TxAnswered(Query)
    BY <1>0, <1>5, <2>0 DEF TxAnswered, WaiterOwnsAnswer, Unreset, Service,
       PwmRequests
  <2>5. CASE TxTimeout(Query)
    BY <2>0, <2>5 DEF TxTimeout, Throw, Unreset, Busy, Current
  <2> QED BY <1>5, <2>1, <2>2, <2>3, <2>4, <2>5 DEF ThreadStep
<1>6. CASE t = Query /\ ThreadStep(Query) /\ ~Busy(Query)
  <2>1. Query \notin waiting
    BY <1>0, <1>6 DEF WaiterOwnsAnswer
  <2>2. Return(Query)
    BY <1>6, <2>1 DEF ThreadStep, TxWrite, TxWriteFails, TxDangling, Transmits,
       TxAnswered, TxTimeout, CheckPwm, ReinitDone
  <2> QED BY <1>0, <2>2 DEF Return, Leave, TypeOK, Unreset, Busy
<1> QED BY <1>3, <1>4, <1>5, <1>6

LEMMA ResetOthers ==
    ASSUME LinkAssumption, QInv, Opening, ResetInv, NoteReset, env' = env,
           \/ QueryWake \/ \E c \in Clients : ClientCall(c)
           \/ ReadAck \/ ReadFrame \/ ReadAnnounce \/ ReadError
           \/ MainStep \/ OpenFails
           \/ DevServe \/ DevReset \/ DevIgnore \/ DevBoot \/ WireLoses
    PROVE  ResetInv'
<1>0. LockHeld /\ HolderCalled /\ Query \in Threads
  BY DEF QInv, RInv, IInv
<1>1. ASSUME UNCHANGED <<agenda, waiting, last, reinit, io>>, main' # "open"
      PROVE  ResetInv'
  BY <1>1 DEF ResetInv, Unreset, Busy, Current, NoteReset
<1>2. ASSUME UNCHANGED <<agenda, waiting, last, reinit, io, main>>
      PROVE  ResetInv'
  BY <1>2 DEF ResetInv, Unreset, Busy, Current, NoteReset
<1>3. CASE QueryWake \/ \E c \in Clients : ClientCall(c)
  BY <1>2, <1>3 DEF QueryWake, ClientCall, readerVars, loopVars
<1>4. CASE ReadAck \/ ReadFrame
  BY <1>2, <1>4 DEF ReadAck, ReadFrame, threadVars, readerVars, loopVars
<1>5. CASE ReadAnnounce
  <2>1. UNCHANGED <<agenda, waiting, reinit, io, main>>
        /\ last' = rx.svc /\ rx' = NoReply
    BY <1>5 DEF ReadAnnounce, threadVars, loopVars
  <2> QED BY <2>1 DEF ResetInv, Unreset, Busy, Current, NoteReset
<1>6. CASE ReadError \/ Create \/ Close \/ Destroy
  <2>1. io' # "open"
    BY <1>6 DEF ReadError, Break, Create, NewGensio, Close, CloseGensio,
       Destroy, FreeGensio
  <2> QED BY <2>1 DEF ResetInv
<1>7. CASE Open
  <2>1. main = "open" /\ UNCHANGED <<agenda, waiting, last, reinit>>
    BY <1>7 DEF Open, OpenGensio, OthersUnchanged, threadVars, readerVars
  <2>2. call[Query] = "none" => ~Busy(Query)
    BY <1>0 DEF LockHeld, HolderCalled
  <2> QED BY <2>1, <2>2 DEF Opening, ResetInv, Unreset, Busy, Current
<1>8. CASE Woken \/ SleepDone \/ OpenFails
  BY <1>1, <1>8 DEF Woken, WaitReturns, SleepDone, Retry, OpenFails,
     OpenThrows, OthersUnchanged, threadVars, readerVars
<1>9. CASE DevServe \/ DevReset \/ DevIgnore \/ DevBoot \/ WireLoses
  BY <1>2, <1>9 DEF DevServe, DevReset, DevIgnore, DevBoot, WireLoses,
     threadVars, readerVars, loopVars
<1> QED BY <1>3, <1>4, <1>5, <1>6, <1>7, <1>8, <1>9 DEF MainStep

LEMMA OpeningNext ==
    ASSUME LinkAssumption, OInv, [Next]_vars
    PROVE  OInv'
<1>1. QInv /\ QInv'
  BY QueryNext DEF OInv
<1>2. CASE process = "running" /\ Running /\ NoteReset /\ env' = env
  <2>1. ResetInv'
    BY <1>1, <1>2, ResetThread, ResetOthers DEF OInv, Running
  <2>2. process' = "running" => Opening'
    BY <1>1, <1>2, OpeningThread, OpeningOthers DEF OInv, Running
  <2> QED BY <1>1, <2>1, <2>2 DEF OInv
<1>3. CASE UNCHANGED vars
  BY <1>1, <1>3 DEF OInv, Opening, ResetInv, Unreset, Busy, Current, vars,
     threadVars, readerVars, loopVars
<1> QED BY <1>2, <1>3 DEF Next, Terminated

LEMMA OpeningHolds == Spec => []OInv
<1>1. Init => OInv
  BY LinkAssumption, QueryInit DEF Init, LoopInit, OInv, Opening, ResetInv
<1>2. OInv /\ [Next]_vars => OInv'
  BY LinkAssumption, OpeningNext
<1> QED BY <1>1, <1>2, PTL DEF Spec

(* KL02.cpp:15-23: over a new connection the query thread requests no      *)
(* measurement before the KL02 has reported a RESET (or was last heard of  *)
(* with such a report, which tx_frame takes for the answer), although      *)
(* set_gensio may set reinit again while the query thread still waits for  *)
(* the RESET of an earlier connection.  A RESET whose write is cut short   *)
(* counts as done (KL02.cpp:78-90): that environment is excepted.          *)
THEOREM NothingBeforeReset == Spec => MeasuresInitialised
<1>1. OInv /\ [Next]_vars =>
         [\A r \in Measurements :
             "partial" \notin env /\ Writes(Query, r) => reset_answered]_vars
  <2> SUFFICES ASSUME OInv, [Next]_vars, NEW r \in Measurements,
                      "partial" \notin env, Writes(Query, r)
               PROVE  reset_answered
    OBVIOUS
  <2>1. TxWrite(Query) /\ Busy(Query) /\ Current(Query) = r
    BY MeasurementWritten DEF OInv
  <2>2. io = "open" /\ r # "RESET"
    BY <2>1 DEF TxWrite, Measurements
  <2> QED BY <2>1, <2>2 DEF OInv, ResetInv, Unreset
<1> QED BY <1>1, OpeningHolds, PTL DEF Spec, MeasuresInitialised

-----------------------------------------------------------------------------
(* Every measurement of the query thread is waited for.  The predicate of  *)
(* the wait is looked at before the first wait, so it must not hold yet:   *)
(* the answer evaluated last must be to another request.  That follows     *)
(* from the order of the requests in a round (two in a row differ, and the *)
(* last of a round differs from the first of the next), and from there     *)
(* being no answer under way but to a request that is being waited for.    *)

FirstMeasured == IF UsePP THEN "PP_VOLTAGE" ELSE "GET_UCP"

(* What the two theorems below assume of the configuration.                *)
Unrepeated == (IsEv \/ UsePP) /\ "get_duty_cycle" \notin Commands

(* The rest of a round asks nothing twice in a row and does not end with   *)
(* what the next round begins with.                                        *)
Alternates(q) ==
    \A j \in 1 .. Len(q) - 1 : q[j + 1] \in Measurements => q[j + 1] # q[j]

Chain(q) == Alternates(q) /\ q[Len(q)] \in Measurements \ {FirstMeasured}

(* The operations of the framework threads measure nothing.                *)
Private(q) == \A j \in 1 .. Len(q) : q[j] \notin Measurements \cup {"reinit_done"}

ClientsMeasureNothing ==
    \A c \in Clients : call[c] \in Commands \cup {"none"} /\ Private(agenda[c])

(* The measurements among the messages of a queue.                         *)
Hits(q, M) == {j \in 1 .. Len(q) : q[j] \in M}
Single(q, M) == \A i, j \in Hits(q, M) : i = j

Measured == {x \in Incoming : x.svc \in Measurements}

(* The query thread waits for the answer to m, and it has not come.        *)
Asked(m) == Query \in waiting /\ Current(Query) = m /\ last # m

(* One measurement at most is under way, the one that is being waited for. *)
OnTheWay ==
    /\ \A j \in Hits(toDev, Measurements) : Asked(toDev[j])
    /\ \A j \in Hits(toHost, Measured) : Asked(toHost[j].svc)
    /\ rx.svc \in Measurements => /\ Asked(rx.svc)
                                  /\ Hits(toDev, Measurements) = {}
                                  /\ Hits(toHost, Measured) = {}
    /\ Single(toDev, Measurements) /\ Single(toHost, Measured)
    /\ Hits(toDev, Measurements) = {} \/ Hits(toHost, Measured) = {}

(* Over a working connection the answer evaluated last is not to what is   *)
(* measured next.                                                          *)
NewAnswer ==
    /\ ~Busy(Query) /\ ~reinit => last # FirstMeasured
    /\ Busy(Query) /\ Query \notin waiting /\ Current(Query) \in Measurements =>
          last # Current(Query)
    /\ Busy(Query) /\ Current(Query) \in {"PP_PULLUP", "reinit_done"} =>
          last \notin Measurements

Awaiting ==
    /\ Busy(Query) => Chain(agenda[Query])
    /\ OnTheWay
    /\ io = "open" => NewAnswer
    /\ Opening

WInv == /\ QInv
        /\ ClientsMeasureNothing
        /\ process = "running" /\ "partial" \notin env => Awaiting

-----------------------------------------------------------------------------
(* Messages that are taken from the front of a queue, or added to it.      *)

LEMMA HitsBehind ==
    ASSUME NEW S, NEW q \in Seq(S), NEW r \in Seq(S), NEW n \in 1 .. Len(q), NEW M,
           Len(r) = Len(q) - n, \A j \in 1 .. Len(r) : r[j] = q[j + n]
    PROVE  /\ \A j \in Hits(r, M) : j + n \in Hits(q, M) /\ r[j] = q[j + n]
           /\ Single(q, M) => Single(r, M)
           /\ Hits(q, M) = {} => Hits(r, M) = {}
           /\ \A k \in 1 .. n : Single(q, M) /\ q[k] \in M => Hits(r, M) = {}
<1>1. Len(q) \in Nat /\ Len(r) \in Nat
  OBVIOUS
<1>2. \A j \in Hits(r, M) : j \in Nat /\ j > 0 /\ j + n \in Hits(q, M) /\ r[j] = q[j + n]
  BY <1>1 DEF Hits
<1>3. ASSUME Single(q, M) PROVE Single(r, M)
  <2> SUFFICES ASSUME NEW i \in Hits(r, M), NEW j \in Hits(r, M) PROVE i = j
    BY DEF Single
  <2>1. i + n = j + n
    BY <1>2, <1>3 DEF Single
  <2> QED BY <1>2, <2>1
<1>4. ASSUME NEW k \in 1 .. n, Single(q, M), q[k] \in M, NEW j \in Hits(r, M)
      PROVE  FALSE
  <2>1. k \in Hits(q, M)
    BY <1>1, <1>4 DEF Hits
  <2>2. j + n = k
    BY <1>2, <1>4, <2>1 DEF Single
  <2> QED BY <1>2, <2>2
<1> QED BY <1>2, <1>3, <1>4

LEMMA HitsTail ==
    ASSUME NEW S, NEW q \in Seq(S), q # <<>>, NEW M
    PROVE  /\ \A j \in Hits(Tail(q), M) : j + 1 \in Hits(q, M) /\ Tail(q)[j] = q[j + 1]
           /\ Single(q, M) => Single(Tail(q), M)
           /\ Hits(q, M) = {} => Hits(Tail(q), M) = {}
           /\ Single(q, M) /\ Head(q) \in M => Hits(Tail(q), M) = {}
<1>1. /\ Tail(q) \in Seq(S) /\ Len(Tail(q)) = Len(q) - 1 /\ Head(q) = q[1]
      /\ \A j \in 1 .. Len(Tail(q)) : Tail(q)[j] = q[j + 1]
      /\ 1 \in 1 .. Len(q)
  BY HeadTailProperties
<1> DEFINE r == Tail(q)
<1> HIDE DEF r
<1>2. /\ \A j \in Hits(r, M) : j + 1 \in Hits(q, M) /\ r[j] = q[j + 1]
      /\ Single(q, M) => Single(r, M)
      /\ Hits(q, M) = {} => Hits(r, M) = {}
      /\ \A k \in 1 .. 1 : Single(q, M) /\ q[k] \in M => Hits(r, M) = {}
  BY <1>1, HitsBehind DEF r
<1>3. Single(q, M) /\ q[1] \in M => Hits(r, M) = {}
  BY <1>2
<1> QED BY <1>1, <1>2, <1>3, Zenon DEF r

LEMMA HitsDrop ==
    ASSUME NEW S, NEW q \in Seq(S), NEW n \in 1 .. Len(q), NEW M
    PROVE  /\ \A j \in Hits(Drop(q, n), M) :
                 j + n \in Hits(q, M) /\ Drop(q, n)[j] = q[j + n]
           /\ Single(q, M) => Single(Drop(q, n), M)
           /\ Hits(q, M) = {} => Hits(Drop(q, n), M) = {}
           /\ \A k \in 1 .. n :
                 Single(q, M) /\ q[k] \in M => Hits(Drop(q, n), M) = {}
<1>1. Len(q) \in Nat /\ n + 1 \in Int /\ \A j \in n + 1 .. Len(q) : q[j] \in S
  OBVIOUS
<1>2. /\ SubSeq(q, n + 1, Len(q)) \in Seq(S)
      /\ Len(SubSeq(q, n + 1, Len(q))) =
            IF n + 1 <= Len(q) THEN Len(q) - (n + 1) + 1 ELSE 0
      /\ \A j \in 1 .. Len(q) - (n + 1) + 1 :
            SubSeq(q, n + 1, Len(q))[j] = q[(n + 1) + j - 1]
  BY <1>1, SubSeqProperties
<1> DEFINE r == SubSeq(q, n + 1, Len(q))
<1> HIDE DEF r
<1>3. /\ r \in Seq(S) /\ Len(r) = Len(q) - n
      /\ \A j \in 1 .. Len(r) : r[j] = q[j + n]
  BY <1>1, <1>2 DEF r
<1>4. Drop(q, n) = r
  BY DEF Drop, r
<1>5. /\ \A j \in Hits(r, M) : j + n \in Hits(q, M) /\ r[j] = q[j + n]
      /\ Single(q, M) => Single(r, M)
      /\ Hits(q, M) = {} => Hits(r, M) = {}
      /\ \A k \in 1 .. n : Single(q, M) /\ q[k] \in M => Hits(r, M) = {}
  BY <1>3, HitsBehind
<1> QED BY <1>4, <1>5, Zenon

(* q is followed by x in r.                                                *)
Longer(q, x, r) ==
    /\ Len(q) \in Nat /\ Len(r) = Len(q) + 1
    /\ \A j \in 1 .. Len(q) : r[j] = q[j]
    /\ r[Len(q) + 1] = x

LEMMA AppendIsLonger ==
    ASSUME NEW S, NEW q \in Seq(S), NEW x \in S
    PROVE  Longer(q, x, Append(q, x))
  BY AppendProperties DEF Longer

LEMMA HitsLonger ==
    ASSUME NEW q, NEW r, NEW x, NEW M, Longer(q, x, r)
    PROVE  /\ x \notin M => Hits(r, M) = Hits(q, M)
           /\ \A j \in Hits(q, M) : r[j] = q[j]
           /\ Hits(q, M) = {} => Single(r, M) /\ \A j \in Hits(r, M) : r[j] = x
<1>1. /\ Len(q) \in Nat /\ Len(r) = Len(q) + 1
      /\ \A j \in 1 .. Len(q) : r[j] = q[j]
      /\ r[Len(q) + 1] = x
  BY DEF Longer
<1>2. ASSUME NEW j \in Hits(r, M) PROVE j \in Hits(q, M) \/ j = Len(q) + 1
  BY <1>1, <1>2 DEF Hits
<1>3. Hits(q, M) \subseteq Hits(r, M)
  BY <1>1 DEF Hits
<1>4. x \notin M => Len(q) + 1 \notin Hits(r, M)
  BY <1>1 DEF Hits
<1>5. \A j \in Hits(q, M) : r[j] = q[j]
  BY <1>1 DEF Hits
<1>6. Hits(q, M) = {} => Single(r, M) /\ \A j \in Hits(r, M) : r[j] = x
  BY <1>1, <1>2, Zenon DEF Single
<1>7. x \notin M => Hits(r, M) = Hits(q, M)
  BY <1>2, <1>3, <1>4, Zenon
<1> QED BY <1>5, <1>6, <1>7

LEMMA OnlyHit ==
    ASSUME NEW q, NEW r, NEW x, NEW M, Longer(q, x, r), Hits(q, M) = {}
    PROVE  /\ Single(r, M) /\ \A j \in Hits(r, M) : r[j] = x
           /\ x \notin M => Hits(r, M) = {}
<1>1. ASSUME NEW j \in Hits(r, M) PROVE j = Len(q) + 1 /\ r[j] = x /\ x \in M
  BY <1>1 DEF Hits, Longer
<1> QED BY <1>1, Zenon DEF Single

LEMMA HitsNone == \A M : Hits(<<>>, M) = {} /\ Single(<<>>, M)
  BY DEF Hits, Single

-----------------------------------------------------------------------------
(* The order of the requests in a round.                                   *)

(* A request put behind a part of a round that does not contain it.        *)
LEMMA FreshBehind ==
    ASSUME NEW q \in Seq(Steps), Alternates(q), NEW x \in Steps,
           \A j \in 1 .. Len(q) : q[j] # x
    PROVE  /\ q \o <<x>> \in Seq(Steps) /\ Alternates(q \o <<x>>)
           /\ Len(q \o <<x>>) = Len(q) + 1 /\ (q \o <<x>>)[Len(q) + 1] = x
           /\ \A j \in 1 .. Len(q) : (q \o <<x>>)[j] = q[j]
<1>1. <<x>> \in Seq(Steps) /\ Len(<<x>>) = 1 /\ <<x>>[1] = x /\ Len(q) \in Nat
  OBVIOUS
<1> DEFINE s == <<x>>
<1> HIDE DEF s
<1>2. /\ q \o s \in Seq(Steps) /\ Len(q \o s) = Len(q) + 1
      /\ \A j \in 1 .. Len(q) + 1 :
            (q \o s)[j] = IF j <= Len(q) THEN q[j] ELSE s[j - Len(q)]
  BY <1>1, ConcatProperties DEF s
<1> DEFINE r == q \o s
<1> HIDE DEF r
<1>3. /\ r \in Seq(Steps) /\ Len(r) = Len(q) + 1
      /\ \A j \in 1 .. Len(q) : r[j] = q[j]
      /\ r[Len(q) + 1] = x
  <2>1. s[Len(q) + 1 - Len(q)] = x
    BY <1>1 DEF s
  <2> QED BY <1>1, <1>2, <2>1 DEF r
<1>4. Alternates(r)
  <2> SUFFICES ASSUME NEW j \in 1 .. Len(q), r[j + 1] \in Measurements
               PROVE  r[j + 1] # r[j]
    BY <1>1, <1>3 DEF Alternates
  <2>1. CASE j = Len(q)
    BY <1>1, <1>3, <2>1
  <2>2. CASE j # Len(q)
    <3>1. j \in 1 .. Len(q) - 1 /\ j + 1 \in 1 .. Len(q)
      BY <1>1, <2>2
    <3> QED BY <1>3, <3>1 DEF Alternates
  <2> QED BY <2>1, <2>2
<1> QED BY <1>3, <1>4 DEF r, s

(* The requests that may precede the others of a round.                    *)
LEMMA Beginning ==
    \E q \in Seq(Steps) :
        /\ q = IF reinit THEN Reinit ELSE <<>>
        /\ Alternates(q)
        /\ \A j \in 1 .. Len(q) : q[j] \notin Measurements
        /\ IF reinit THEN q # <<>> /\ q[1] = "RESET" ELSE q = <<>>
<1>1. {"RESET", "PP_PULLUP", "reinit_done"} \subseteq Steps \ Measurements
  BY DEF Steps, Requests, PwmRequests, Measurements, Checks
<1> DEFINE a == <<"RESET">>
           b == PullUp
           c == <<"reinit_done">>
           N == Steps \ Measurements
<1>2. /\ a \in Seq(Steps) /\ Len(a) = 1 /\ a[1] = "RESET"
      /\ c \in Seq(Steps) /\ Len(c) = 1 /\ c[1] = "reinit_done"
  BY <1>1
<1>3. /\ b \in Seq(Steps) /\ Len(b) \in Nat
      /\ \A j \in 1 .. Len(b) : b[j] = "PP_PULLUP"
  BY <1>1 DEF PullUp
<1>4. Reinit = (a \o b) \o c
  BY DEF Reinit
<1> HIDE DEF a, b, c
<1>5. /\ a \o b \in Seq(Steps) /\ Len(a \o b) = 1 + Len(b)
      /\ \A j \in 1 .. 1 + Len(b) :
            (a \o b)[j] = IF j <= 1 THEN a[j] ELSE b[j - 1]
  BY <1>2, <1>3, ConcatProperties
<1> DEFINE d == a \o b
<1> HIDE DEF d
<1>6. /\ d \in Seq(Steps) /\ Len(d) \in Nat \ {0} /\ d[1] = "RESET"
      /\ \A j \in 1 .. Len(d) : d[j] \notin Measurements
  <2>1. /\ d \in Seq(Steps) /\ Len(d) = 1 + Len(b) /\ Len(b) \in Nat
        /\ \A j \in 1 .. 1 + Len(b) : d[j] = IF j <= 1 THEN a[j] ELSE b[j - 1]
    BY <1>3, <1>5 DEF d
  <2>2. 1 \in 1 .. 1 + Len(b)
    BY <2>1
  <2>3. d[1] = "RESET"
    BY <1>2, <2>1, <2>2
  <2>4. ASSUME NEW j \in 1 .. 1 + Len(b), j # 1
        PROVE  d[j] = "PP_PULLUP"
    <3>1. j - 1 \in 1 .. Len(b) /\ ~(j <= 1)
      BY <2>1, <2>4
    <3> QED BY <1>3, <2>1, <3>1
  <2> QED BY <1>1, <2>1, <2>3, <2>4
<1>7. /\ d \o c \in Seq(Steps) /\ Len(d \o c) = Len(d) + 1
      /\ \A j \in 1 .. Len(d) + 1 :
            (d \o c)[j] = IF j <= Len(d) THEN d[j] ELSE c[j - Len(d)]
  <2>1. d \in Seq(Steps) /\ c \in Seq(Steps) /\ Len(c) = 1
    BY <1>2, <1>6
  <2> QED BY <2>1, ConcatProperties
<1> DEFINE e == d \o c
<1> HIDE DEF e
<1>8. /\ e \in Seq(Steps) /\ Len(e) \in Nat \ {0} /\ e[1] = "RESET"
      /\ \A j \in 1 .. Len(e) : e[j] \notin Measurements
  BY <1>1, <1>2, <1>6, <1>7 DEF e
<1>9. CASE reinit
  <2>1. Reinit = e /\ e # <<>>
    BY <1>4, <1>8 DEF e, d
  <2>2. Alternates(e)
    BY <1>8 DEF Alternates
  <2> QED BY <1>8, <1>9, <2>1, <2>2
<1>10. CASE ~reinit
  <2>1. <<>> \in Seq(Steps) /\ Alternates(<<>>) /\ Len(<<>>) = 0
    BY DEF Alternates
  <2>2. <<>> = IF reinit THEN Reinit ELSE <<>>
    BY <1>10
  <2>3. \A j \in 1 .. Len(<<>>) : <<>>[j] \notin Measurements
    BY <2>1
  <2>4. IF reinit THEN <<>> # <<>> /\ <<>>[1] = "RESET" ELSE <<>> = <<>>
    BY <1>10
  <2> QED BY <2>1, <2>2, <2>3, <2>4, Zenon
<1> QED BY <1>9, <1>10

(* What a round asks for.                                                  *)
LEMMA RoundChain ==
    ASSUME Unrepeated
    PROVE  /\ Chain(Round) /\ Round \in Seq(Steps) /\ Round # <<>>
           /\ Head(Round) = IF reinit THEN "RESET" ELSE FirstMeasured
<1>0. /\ {"PP_VOLTAGE", "GET_UCP", "GET_PWM"} = Measurements
      /\ Measurements \subseteq Steps
  BY DEF Steps, Requests, Measurements
<1>1. PICK q \in Seq(Steps) :
        /\ q = IF reinit THEN Reinit ELSE <<>>
        /\ Alternates(q)
        /\ \A j \in 1 .. Len(q) : q[j] \notin Measurements
        /\ IF reinit THEN q # <<>> /\ q[1] = "RESET" ELSE q = <<>>
  BY Beginning
<1> DEFINE begin == IF reinit THEN Reinit ELSE <<>>
           head  == IF reinit THEN "RESET" ELSE FirstMeasured
<1>2. Round = ((begin \o PpQuery) \o <<"GET_UCP">>) \o PwmQuery
  BY DEF Round
<1>3. Len(q) \in Nat /\ IF reinit THEN Len(q) > 0 /\ q[1] = head ELSE Len(q) = 0
  BY <1>1
<1> HIDE DEF head
<1>4. \E r \in Seq(Steps) :
         /\ r = begin \o PpQuery /\ Alternates(r)
         /\ \A j \in 1 .. Len(r) : r[j] \notin {"GET_UCP", "GET_PWM"}
         /\ reinit \/ UsePP => Len(r) > 0 /\ r[1] = head
         /\ ~reinit /\ ~UsePP => r = <<>>
  <2>1. CASE UsePP
    <3>1. PpQuery = <<"PP_VOLTAGE">> /\ "PP_VOLTAGE" \in Steps
          /\ \A j \in 1 .. Len(q) : q[j] # "PP_VOLTAGE"
      BY <1>0, <1>1, <2>1 DEF PpQuery
    <3> DEFINE r == q \o <<"PP_VOLTAGE">>
    <3>2. /\ r \in Seq(Steps) /\ Alternates(r)
          /\ Len(r) = Len(q) + 1 /\ r[Len(q) + 1] = "PP_VOLTAGE"
          /\ \A j \in 1 .. Len(q) : r[j] = q[j]
      BY <1>1, <3>1, FreshBehind
    <3>3. r = begin \o PpQuery
      BY <1>1, <3>1
    <3> HIDE DEF r
    <3>4. \A j \in 1 .. Len(r) : r[j] \notin {"GET_UCP", "GET_PWM"}
      BY <1>0, <1>1, <1>3, <3>2
    <3>5. Len(r) > 0 /\ r[1] = head
      BY <1>3, <2>1, <3>2 DEF head, FirstMeasured
    <3> QED BY <2>1, <3>2, <3>3, <3>4, <3>5
  <2>2. CASE ~UsePP
    <3>1. PpQuery = <<>> /\ q \o <<>> = q
      BY <1>1, <2>2, ConcatEmptySeq DEF PpQuery
    <3> QED BY <1>0, <1>1, <1>3, <2>2, <3>1
  <2> QED BY <2>1, <2>2
<1>5. PICK r \in Seq(Steps) :
         /\ r = begin \o PpQuery /\ Alternates(r)
         /\ \A j \in 1 .. Len(r) : r[j] \notin {"GET_UCP", "GET_PWM"}
         /\ reinit \/ UsePP => Len(r) > 0 /\ r[1] = head
         /\ ~reinit /\ ~UsePP => r = <<>>
  BY <1>4
<1> HIDE DEF begin
<1> DEFINE s == r \o <<"GET_UCP">>
<1>6. /\ s \in Seq(Steps) /\ Alternates(s)
      /\ Len(s) = Len(r) + 1 /\ s[Len(r) + 1] = "GET_UCP"
      /\ \A j \in 1 .. Len(r) : s[j] = r[j]
  <2>1. /\ "GET_UCP" \in Steps /\ Alternates(r)
        /\ \A j \in 1 .. Len(r) : r[j] # "GET_UCP"
    BY <1>0, <1>5
  <2> QED BY <2>1, FreshBehind
<1>7. Round = s \o PwmQuery
  BY <1>2, <1>5
<1> HIDE DEF s
<1>8. /\ Len(r) \in Nat /\ Len(s) > 0 /\ s[1] = head
      /\ s[Len(s)] = "GET_UCP"
      /\ \A j \in 1 .. Len(s) : s[j] # "GET_PWM"
  <2>1. Len(r) \in Nat
    OBVIOUS
  <2>2. ~reinit /\ ~UsePP => Len(r) = 0 /\ head = "GET_UCP"
    BY <1>5 DEF head, FirstMeasured
  <2>3. /\ \A j \in 1 .. Len(r) : r[j] # "GET_PWM"
        /\ Len(r) = 0 \/ (Len(r) > 0 /\ r[1] = head)
        /\ Len(r) = 0 => head = "GET_UCP"
    <3>1. "GET_UCP" # "GET_PWM" /\ "RESET" # "GET_UCP"
      OBVIOUS
    <3>2. CASE reinit \/ UsePP
      BY <1>5, <3>2
    <3>3. CASE ~(reinit \/ UsePP)
      BY <1>5, <2>2, <3>3
    <3> QED BY <3>2, <3>3
  <2>4. s[1] = head
    BY <1>6, <2>1, <2>3
  <2>5. \A j \in 1 .. Len(s) : s[j] # "GET_PWM"
    BY <1>6, <2>1, <2>3
  <2> QED BY <1>6, <2>1, <2>4, <2>5
<1>9. CASE IsEv
  <2> DEFINE t == s \o <<"GET_PWM">>
  <2>1. /\ t \in Seq(Steps) /\ Alternates(t)
        /\ Len(t) = Len(s) + 1 /\ t[Len(s) + 1] = "GET_PWM"
        /\ \A j \in 1 .. Len(s) : t[j] = s[j]
    BY <1>0, <1>6, <1>8, FreshBehind
  <2>2. Round = t
    BY <1>7, <1>9 DEF PwmQuery
  <2> HIDE DEF t
  <2>3. Len(s) \in Nat /\ t[Len(t)] = "GET_PWM" /\ t[1] = head /\ t # <<>>
    BY <1>6, <1>8, <2>1
  <2>4. Head(t) = head
    BY <2>1, <2>3
  <2> QED BY <1>0, <2>1, <2>2, <2>3, <2>4 DEF Chain, head, FirstMeasured
<1>10. CASE ~IsEv
  <2>1. PwmQuery = <<>> /\ s \o <<>> = s
    BY <1>6, <1>10, ConcatEmptySeq DEF PwmQuery
  <2>2. Round = s /\ UsePP
    BY <1>7, <1>10, <2>1 DEF Unrepeated
  <2>3. s # <<>> /\ Head(s) = head
    BY <1>6, <1>8
  <2> QED BY <1>0, <1>6, <1>8, <2>2, <2>3 DEF Chain, head, FirstMeasured
<1> QED BY <1>9, <1>10

(* Taking a step off the rest of a round.                                  *)
LEMMA RestOfChain ==
    ASSUME NEW q \in Seq(Steps), q # <<>>, Chain(q)
    PROVE  /\ Tail(q) # <<>> =>
                 /\ Chain(Tail(q))
                 /\ Head(Tail(q)) \in Measurements => Head(Tail(q)) # Head(q)
           /\ Tail(q) = <<>> => Head(q) \in Measurements \ {FirstMeasured}
<1>1. /\ Len(q) \in Nat \ {0} /\ Tail(q) \in Seq(Steps)
      /\ Len(Tail(q)) = Len(q) - 1 /\ Head(q) = q[1]
      /\ \A j \in 1 .. Len(q) - 1 : Tail(q)[j] = q[j + 1]
  BY HeadTailProperties
<1> DEFINE r == Tail(q)
<1>2. r \in Seq(Steps) /\ (r = <<>> <=> Len(r) = 0) /\ (r # <<>> => Head(r) = r[1])
  BY <1>1
<1> HIDE DEF r
<1>3. ASSUME r # <<>> PROVE Alternates(r) /\ r[Len(r)] = q[Len(q)]
  <2>1. \A j \in 1 .. Len(q) - 1 : r[j] = q[j + 1]
    BY <1>1 DEF r
  <2>2. Len(r) = Len(q) - 1 /\ Len(q) - 1 > 0
    BY <1>1, <1>2, <1>3 DEF r
  <2>3. r[Len(r)] = q[Len(q)]
    BY <1>1, <2>1, <2>2
  <2>4. ASSUME NEW j \in 1 .. Len(r) - 1, r[j + 1] \in Measurements
        PROVE  r[j + 1] # r[j]
    <3>1. j + 1 \in 1 .. Len(q) - 1 /\ j \in 1 .. Len(q) - 1
      BY <1>1, <2>2
    <3>2. r[j + 1] = q[(j + 1) + 1] /\ r[j] = q[j + 1]
      BY <2>1, <3>1
    <3> QED BY <2>4, <3>1, <3>2 DEF Chain, Alternates
  <2> QED BY <2>3, <2>4 DEF Alternates
<1>4. ASSUME r # <<>>, Head(r) \in Measurements PROVE Head(r) # Head(q)
  <2>1. 1 \in 1 .. Len(q) - 1
    BY <1>1, <1>2, <1>4 DEF r
  <2>2. Head(r) = q[1 + 1]
    BY <1>1, <1>2, <1>4, <2>1 DEF r
  <2> QED BY <1>1, <1>4, <2>1, <2>2 DEF Chain, Alternates
<1>5. r = <<>> => Len(q) = 1
  BY <1>1, <1>2 DEF r
<1> QED BY <1>1, <1>3, <1>4, <1>5 DEF Chain, r

-----------------------------------------------------------------------------
(* The framework threads measure nothing.                                  *)

LEMMA CommandsPrivate ==
    ASSUME LinkAssumption, Unrepeated, NEW op \in Commands
    PROVE  Private(Program(op))
<1>1. op \in Operations \ {"get_duty_cycle"}
  BY DEF LinkAssumption, Unrepeated
<1>2. Program(op) \in {<<"SET_PWM">>, <<"PWM_ENABLE", "require_on", "SET_PWM">>,
                       <<"PWM_ENABLE", "require_on">>, <<"PWM_DISABLE", "require_off">>,
                       <<"PWM_CHECK">>, <<"SET_UCP">>}
  BY <1>1 DEF Program, SetDutyCycle, Operations
<1> QED BY <1>2 DEF Private, Measurements

LEMMA PrivateTail ==
    ASSUME NEW q \in Seq(Steps), q # <<>>, Private(q)
    PROVE  Private(Tail(q)) /\ Head(q) \notin Measurements \cup {"reinit_done"}
<1>1. /\ Len(q) \in Nat \ {0} /\ Len(Tail(q)) = Len(q) - 1 /\ Head(q) = q[1]
      /\ \A j \in 1 .. Len(q) - 1 : Tail(q)[j] = q[j + 1]
  BY HeadTailProperties
<1> QED BY <1>1 DEF Private

LEMMA ClientsNext ==
    ASSUME LinkAssumption, Unrepeated, RInv, ClientsMeasureNothing, [Next]_vars
    PROVE  ClientsMeasureNothing'
<1>0. TypeOK /\ WaiterOwnsAnswer /\ Query \notin Clients
  BY DEF RInv, IInv, LinkAssumption
<1>1. CASE \E t \in Threads : Lock(t) \/ ThreadStep(t)
  <2>1. PICK t \in Threads : Lock(t) \/ ThreadStep(t)
    BY <1>1
  <2>2. /\ \A u \in Threads \ {t} :
                 call'[u] = call[u] /\ agenda'[u] = agenda[u]
        /\ \/ call' = call /\ agenda'[t] = Program(call[t]) /\ call[t] # "none"
           \/ call' = call /\ agenda'[t] = agenda[t]
           \/ call' = call /\ agenda[t] # <<>> /\ agenda'[t] = Tail(agenda[t])
           \/ call'[t] = "none" /\ agenda'[t] = <<>>
    BY <1>0, <2>1, AgendaStep
  <2> SUFFICES ASSUME NEW c \in Clients
               PROVE  call'[c] \in Commands \cup {"none"} /\ Private(agenda'[c])
    BY DEF ClientsMeasureNothing
  <2>3. call[c] \in Commands \cup {"none"} /\ Private(agenda[c]) /\ agenda[c] \in Seq(Steps)
    BY <1>0 DEF ClientsMeasureNothing, TypeOK
  <2>4. CASE c # t
    BY <2>2, <2>3, <2>4
  <2>5. CASE c = t
    <3>1. Private(<<>>)
      BY DEF Private
    <3>2. call[c] # "none" => Private(Program(call[c]))
      BY <2>3, CommandsPrivate
    <3>3. agenda[c] # <<>> => Private(Tail(agenda[c]))
      BY <2>3, PrivateTail
    <3> QED BY <2>2, <2>3, <2>5, <3>1, <3>2, <3>3
  <2> QED BY <2>4, <2>5
<1>2. CASE QueryWake \/ \E c \in Clients : ClientCall(c)
  <2>1. agenda' = agenda
    BY <1>2 DEF QueryWake, ClientCall
  <2>2. \A c \in Clients : call'[c] \in Commands \cup {"none"}
    BY <1>0, <1>2 DEF QueryWake, ClientCall, ClientsMeasureNothing, TypeOK
  <2> QED BY <2>1, <2>2 DEF ClientsMeasureNothing
<1>3. CASE UNCHANGED <<call, agenda>>
  BY <1>3 DEF ClientsMeasureNothing
<1>4. CASE ReadAck \/ ReadFrame \/ ReadAnnounce \/ ReadError
  BY <1>3, <1>4 DEF ReadAck, ReadFrame, ReadAnnounce, ReadError
<1>5. CASE MainStep \/ OpenFails
  BY <1>3, <1>5 DEF MainStep, Create, Open, OpenFails, Woken, Close, Destroy,
                    SleepDone
<1>6. CASE DevServe \/ DevReset \/ DevIgnore \/ DevBoot \/ WireLoses
  BY <1>3, <1>6 DEF DevServe, DevReset, DevIgnore, DevBoot, WireLoses
<1>7. CASE UNCHANGED vars
  BY <1>3, <1>7 DEF vars
<1> QED BY <1>1, <1>2, <1>4, <1>5, <1>6, <1>7 DEF Next, Running, Terminated

-----------------------------------------------------------------------------
(* What is under way is waited for.                                        *)

NothingOnTheWay ==
    /\ Hits(toDev, Measurements) = {} /\ Hits(toHost, Measured) = {}
    /\ rx.svc \notin Measurements

LEMMA NobodyAsks ==
    /\ NothingOnTheWay => OnTheWay
    /\ OnTheWay /\ (\A m \in Measurements : ~Asked(m)) => NothingOnTheWay
<1>1. ASSUME OnTheWay, \A m \in Measurements : ~Asked(m)
      PROVE  NothingOnTheWay
  <2>1. Hits(toDev, Measurements) = {}
    BY <1>1 DEF OnTheWay, Hits
  <2>2. Hits(toHost, Measured) = {}
    BY <1>1 DEF OnTheWay, Hits, Measured
  <2> QED BY <1>1, <2>1, <2>2 DEF OnTheWay, NothingOnTheWay
<1> QED BY <1>1 DEF NothingOnTheWay, OnTheWay, Single

(* The messages stay where they are, and the query thread keeps waiting.   *)
LEMMA WayStays ==
    ASSUME OnTheWay, UNCHANGED <<toDev, toHost, rx>>,
           \A m \in Measurements : Asked(m) => Asked(m)'
    PROVE  OnTheWay'
<1>1. /\ \A j \in Hits(toDev, Measurements) : toDev[j] \in Measurements
      /\ \A j \in Hits(toHost, Measured) : toHost[j].svc \in Measurements
  BY DEF Hits, Measured
<1>2. \A j \in Hits(toDev, Measurements) : Asked(toDev[j])'
  BY <1>1 DEF OnTheWay
<1>3. \A j \in Hits(toHost, Measured) : Asked(toHost[j].svc)'
  BY <1>1 DEF OnTheWay
<1>4. rx.svc \in Measurements => Asked(rx.svc)'
  BY DEF OnTheWay
<1> QED BY <1>2, <1>3, <1>4 DEF OnTheWay

(* The query thread when it gets its answer: nothing is under way.         *)
LEMMA NothingBehindAnswer ==
    ASSUME IInv, Query \in Threads, OnTheWay, TxAnswered(Query)
    PROVE  NothingOnTheWay
<1>1. Query \in waiting /\ last = expected /\ expected = Service(Current(Query))
  BY DEF TxAnswered, IInv, WaiterOwnsAnswer
<1>2. \A m \in Measurements : ~Asked(m)
  BY <1>1 DEF Asked, Service, PwmRequests, Measurements
<1> QED BY <1>2, NobodyAsks

LEMMA WayThread ==
    ASSUME LinkAssumption, QInv, ClientsMeasureNothing, Awaiting,
           process' = "running", NEW t \in Threads, Lock(t) \/ ThreadStep(t)
    PROVE  OnTheWay'
<1>0. /\ IInv /\ TypeOK /\ WaiterOwnsAnswer /\ OnTheWay /\ Query \in Threads
      /\ Query \notin Clients
  BY DEF QInv, RInv, IInv, Awaiting, LinkAssumption
<1>1. UNCHANGED <<last, rx, toHost>>
  BY DEF Lock, ThreadStep, TxWrite, TxWriteFails, TxDangling, TxAnswered,
         TxTimeout, CheckPwm, ReinitDone, Return
<1>2. ASSUME t # Query, NEW m, Asked(m) PROVE Asked(m)'
  <2>1. agenda'[Query] = agenda[Query]
    BY <1>0, <1>2, AgendaStep
  <2>2. Query \in waiting'
    BY <1>2 DEF Asked, Lock, ThreadStep, TxWrite, TxWriteFails, TxDangling,
       TxAnswered, TxTimeout, CheckPwm, ReinitDone, Return
  <2> QED BY <1>1, <1>2, <2>1, <2>2 DEF Asked, Current
<1>3. ASSUME ~TxWrite(t) PROVE toDev' = toDev
  BY <1>3 DEF Lock, ThreadStep, TxWriteFails, TxDangling, TxAnswered,
              TxTimeout, CheckPwm, ReinitDone, Return
<1>4. ASSUME TxWrite(t)
      PROVE  /\ Busy(t) /\ t \notin waiting /\ io = "open"
             /\ Current(t) \in Requests /\ Current(t) \in Outgoing
             /\ toDev' = Append(toDev, Current(t)) /\ toDev \in Seq(Outgoing)
  BY <1>0, <1>4 DEF TxWrite, Transmits, TypeOK, Outgoing
<1>5. CASE TxWrite(t) /\ t # Query
  <2>1. Current(t) \notin Measurements
    <3>1. t \in Clients /\ agenda[t] \in Seq(Steps) /\ Private(agenda[t])
      BY <1>0, <1>5 DEF ClientsMeasureNothing, TypeOK
    <3> QED BY <1>4, <1>5, <3>1, PrivateTail DEF Busy, Current
  <2>2. PICK m : m = Current(t)
    OBVIOUS
  <2>3. /\ Hits(toDev', Measurements) = Hits(toDev, Measurements)
        /\ \A j \in Hits(toDev, Measurements) : toDev'[j] = toDev[j]
    <3>1. toDev' = Append(toDev, m) /\ m \in Outgoing /\ m \notin Measurements
          /\ toDev \in Seq(Outgoing)
      BY <1>4, <1>5, <2>1, <2>2
    <3>2. Longer(toDev, m, toDev')
      BY <3>1, AppendIsLonger
    <3>3. m \notin Measurements
      BY <3>1
    <3> QED BY <3>2, <3>3, HitsLonger
  <2>4. \A n : Asked(n) => Query \in waiting' /\ Current(Query)' = n /\ last' # n
    BY <1>2, <1>5 DEF Asked
  <2>5. /\ \A j \in Hits(toDev, Measurements) : Asked(toDev[j])
        /\ \A j \in Hits(toHost, Measured) : Asked(toHost[j].svc)
        /\ rx.svc \in Measurements => Asked(rx.svc)
    BY <1>0 DEF OnTheWay
  <2>6. \A j \in Hits(toDev', Measurements) :
           Query \in waiting' /\ Current(Query)' = toDev'[j] /\ last' # toDev'[j]
    BY <2>3, <2>4, <2>5
  <2>7. \A j \in Hits(toHost', Measured) :
           /\ Query \in waiting' /\ Current(Query)' = toHost'[j].svc
           /\ last' # toHost'[j].svc
    BY <1>1, <2>4, <2>5
  <2>8. rx'.svc \in Measurements =>
           Query \in waiting' /\ Current(Query)' = rx'.svc /\ last' # rx'.svc
    BY <1>1, <2>4, <2>5
  <2>9. /\ Single(toDev', Measurements) /\ Single(toHost', Measured)
        /\ Hits(toDev', Measurements) = {} \/ Hits(toHost', Measured) = {}
        /\ rx'.svc \in Measurements => /\ Hits(toDev', Measurements) = {}
                                       /\ Hits(toHost', Measured) = {}
    BY <1>0, <1>1, <2>3 DEF OnTheWay, Single
  <2> QED BY <2>6, <2>7, <2>8, <2>9 DEF OnTheWay, Asked
<1>6. CASE TxWrite(t) /\ t = Query
  <2>1. NothingOnTheWay
    BY <1>0, <1>4, <1>6, NobodyAsks DEF Asked
  <2>2. PICK m : m = Current(Query)
    OBVIOUS
  <2>3. toDev \in Seq(Outgoing) /\ m \in Outgoing /\ toDev' = Append(toDev, m)
    BY <1>4, <1>6, <2>2
  <2>4. /\ m \notin Measurements => Hits(toDev', Measurements) = {}
        /\ Single(toDev', Measurements)
        /\ \A j \in Hits(toDev', Measurements) : toDev'[j] = m
    <3>1. Longer(toDev, m, toDev') /\ Hits(toDev, Measurements) = {}
      BY <2>1, <2>3, AppendIsLonger DEF NothingOnTheWay
    <3> QED BY <3>1, OnlyHit
  <2>5. CASE m \notin Measurements
    <3>1. NothingOnTheWay'
      BY <1>1, <2>1, <2>3, <2>4, <2>5 DEF NothingOnTheWay
    <3> QED BY <3>1 DEF NothingOnTheWay, OnTheWay, Single
  <2>6. CASE m \in Measurements
    <3>1. last # m
      BY <1>4, <1>6, <2>2, <2>6 DEF Awaiting, NewAnswer
    <3>2. Service(m) = m
      BY <2>6 DEF Service, PwmRequests, Measurements
    <3>3. Query \in waiting' /\ agenda' = agenda
      BY <1>6, <2>2, <3>1, <3>2 DEF TxWrite
    <3>4. Asked(m)'
      BY <1>1, <2>2, <3>1, <3>3 DEF Asked, Current
    <3>5. \A j \in Hits(toDev', Measurements) : toDev'[j] = m
      BY <2>3, <2>4
    <3>6. /\ Hits(toHost', Measured) = {} /\ rx'.svc \notin Measurements
          /\ Single(toHost', Measured)
      BY <1>1, <2>1 DEF NothingOnTheWay, Single
    <3>7. \A j \in Hits(toDev', Measurements) :
             Query \in waiting' /\ Current(Query)' = toDev'[j] /\ last' # toDev'[j]
      BY <3>4, <3>5 DEF Asked
    <3>8. Single(toDev', Measurements)
      BY <2>3, <2>4
    <3> QED BY <3>6, <3>7, <3>8 DEF OnTheWay, Asked
  <2> QED BY <2>5, <2>6
<1>7. CASE ~TxWrite(t) /\ t # Query
  BY <1>0, <1>1, <1>2, <1>3, <1>7, WayStays
<1>8. CASE ~TxWrite(t) /\ t = Query
  <2>1. NothingOnTheWay
    <3>1. CASE Query \notin waiting
      BY <1>0, <3>1, NobodyAsks DEF Asked
    <3>2. CASE Query \in waiting
      <4>1. TxAnswered(Query) \/ TxTimeout(Query)
        BY <1>0, <1>8, <3>2, WaiterStep
      <4>2. ~TxTimeout(Query)
        BY DEF TxTimeout, Throw
      <4> QED BY <1>0, <4>1, <4>2, NothingBehindAnswer
    <3> QED BY <3>1, <3>2
  <2>2. NothingOnTheWay'
    BY <1>1, <1>3, <1>8, <2>1 DEF NothingOnTheWay
  <2> QED BY <2>2 DEF NothingOnTheWay, OnTheWay, Single
<1> QED BY <1>5, <1>6, <1>7, <1>8

(* Messages are taken from the queues: the others stay what they were.     *)
LEMMA WayShrinks ==
    ASSUME OnTheWay, UNCHANGED <<agenda, waiting, last>>,
           \A j \in Hits(toDev', Measurements) :
              \E i \in Hits(toDev, Measurements) : toDev'[j] = toDev[i],
           \A j \in Hits(toHost', Measured) :
              \E i \in Hits(toHost, Measured) : toHost'[j] = toHost[i],
           Single(toDev', Measurements), Single(toHost', Measured),
           rx' = rx
    PROVE  OnTheWay'
<1>1. /\ \A j \in Hits(toDev, Measurements) : Asked(toDev[j])
      /\ \A j \in Hits(toHost, Measured) : Asked(toHost[j].svc)
      /\ rx.svc \in Measurements => Asked(rx.svc)
  BY DEF OnTheWay
<1>2. \A n : Asked(n) => Query \in waiting' /\ Current(Query)' = n /\ last' # n
  BY DEF Asked, Current
<1>3. \A j \in Hits(toDev', Measurements) :
         Query \in waiting' /\ Current(Query)' = toDev'[j] /\ last' # toDev'[j]
  BY <1>1, <1>2
<1>4. \A j \in Hits(toHost', Measured) :
         /\ Query \in waiting' /\ Current(Query)' = toHost'[j].svc
         /\ last' # toHost'[j].svc
  BY <1>1, <1>2
<1>5. rx'.svc \in Measurements =>
         Query \in waiting' /\ Current(Query)' = rx'.svc /\ last' # rx'.svc
  BY <1>1, <1>2
<1>6. /\ Hits(toDev, Measurements) = {} => Hits(toDev', Measurements) = {}
      /\ Hits(toHost, Measured) = {} => Hits(toHost', Measured) = {}
  OBVIOUS
<1> QED BY <1>3, <1>4, <1>5, <1>6 DEF OnTheWay, Asked

(* One queue after a message, or several, have been taken from its front.  *)
Shorter(q, r, M) ==
    /\ \A j \in Hits(r, M) : \E i \in Hits(q, M) : r[j] = q[i]
    /\ Single(q, M) => Single(r, M)
    /\ Hits(q, M) = {} => Hits(r, M) = {}

LEMMA TailIsShorter ==
    ASSUME NEW S, NEW q \in Seq(S), q # <<>>, NEW M
    PROVE  /\ Shorter(q, Tail(q), M) /\ Shorter(q, <<>>, M) /\ Shorter(q, q, M)
           /\ Single(q, M) /\ Head(q) \in M => Hits(Tail(q), M) = {}
<1>1. Shorter(q, Tail(q), M)
  <2>1. \A j \in Hits(Tail(q), M) : j + 1 \in Hits(q, M) /\ Tail(q)[j] = q[j + 1]
    BY HitsTail
  <2>2. /\ Single(q, M) => Single(Tail(q), M)
        /\ Hits(q, M) = {} => Hits(Tail(q), M) = {}
    BY HitsTail
  <2> QED BY <2>1, <2>2, Zenon DEF Shorter
<1>2. Shorter(q, <<>>, M) /\ Shorter(q, q, M)
  BY HitsNone DEF Shorter
<1>3. Single(q, M) /\ Head(q) \in M => Hits(Tail(q), M) = {}
  BY HitsTail
<1> QED BY <1>1, <1>2, <1>3

LEMMA DropIsShorter ==
    ASSUME NEW S, NEW q \in Seq(S), NEW n \in 1 .. Len(q), NEW M
    PROVE  /\ Shorter(q, Drop(q, n), M)
           /\ \A k \in 1 .. n :
                 Single(q, M) /\ q[k] \in M => Hits(Drop(q, n), M) = {}
<1>1. Shorter(q, Drop(q, n), M)
  BY HitsDrop DEF Shorter
<1>2. \A k \in 1 .. n : Single(q, M) /\ q[k] \in M => Hits(Drop(q, n), M) = {}
  BY HitsDrop
<1> QED BY <1>1, <1>2

LEMMA WayReader ==
    ASSUME TypeOK, OnTheWay, process = "running",
           ReadAck \/ ReadFrame \/ ReadAnnounce \/ ReadError
    PROVE  OnTheWay'
<1>0. toDev \in Seq(Outgoing) /\ toHost \in Seq(Incoming)
  BY DEF TypeOK
<1>1. \A n \in ChunkSizes : n \in 1 .. Len(toHost)
  BY DEF ChunkSizes
<1>2. UNCHANGED <<agenda, waiting>>
  BY DEF ReadAck, ReadFrame, ReadAnnounce, ReadError
<1>3. CASE ReadAck
  <2>1. PICK n \in ChunkSizes : toHost' = Drop(toHost, n)
    BY <1>3 DEF ReadAck
  <2>2. Shorter(toHost, toHost', Measured)
    BY <1>0, <1>1, <2>1, DropIsShorter
  <2>3. /\ Hits(toDev', Measurements) = Hits(toDev, Measurements)
        /\ \A j \in Hits(toDev, Measurements) : toDev'[j] = toDev[j]
    <3>1. CASE toDev' = toDev
      BY <3>1
    <3>2. CASE toDev' = Append(toDev, "QUIT")
      <4>1. "QUIT" \in Outgoing /\ "QUIT" \notin Measurements
        BY DEF Outgoing, Measurements
      <4>2. Longer(toDev, "QUIT", toDev')
        BY <1>0, <3>2, <4>1, AppendIsLonger
      <4> QED BY <4>1, <4>2, HitsLonger
    <3> QED BY <1>3, <3>1, <3>2 DEF ReadAck
  <2>4. last' = last /\ rx' = rx
    BY <1>3 DEF ReadAck
  <2>5. \A j \in Hits(toDev', Measurements) :
           \E i \in Hits(toDev, Measurements) : toDev'[j] = toDev[i]
    BY <2>3
  <2>6. Single(toDev', Measurements) /\ Single(toHost', Measured)
    BY <2>2, <2>3 DEF OnTheWay, Shorter, Single
  <2> QED BY <1>2, <2>2, <2>4, <2>5, <2>6, WayShrinks DEF Shorter
<1>4. CASE ReadFrame
  <2>a. PICK n \in ChunkSizes : \E k \in 1 .. n :
           rx' = toHost[k] /\ toHost' = Drop(toHost, n)
    BY <1>4 DEF ReadFrame
  <2>1. PICK k \in 1 .. n : rx' = toHost[k] /\ toHost' = Drop(toHost, n)
    BY <2>a
  <2>2. toDev' = toDev /\ last' = last /\ rx = NoReply
    BY <1>4 DEF ReadFrame, Reading
  <2>3. n \in 1 .. Len(toHost) /\ k \in 1 .. Len(toHost) /\ toHost[k] \in Incoming
    BY <1>0, <1>1
  <2>4. /\ Shorter(toHost, toHost', Measured)
        /\ Single(toHost, Measured) /\ toHost[k] \in Measured => Hits(toHost', Measured) = {}
    BY <1>0, <2>1, <2>3, DropIsShorter
  <2>5. /\ \A j \in Hits(toDev, Measurements) : Asked(toDev[j])
        /\ \A j \in Hits(toHost, Measured) : Asked(toHost[j].svc)
        /\ Single(toDev, Measurements) /\ Single(toHost, Measured)
        /\ Hits(toDev, Measurements) = {} \/ Hits(toHost, Measured) = {}
    BY DEF OnTheWay
  <2>6. \A m : Asked(m) => Query \in waiting' /\ Current(Query)' = m /\ last' # m
    BY <1>2, <2>2 DEF Asked, Current
  <2>7. rx'.svc \in Measurements => k \in Hits(toHost, Measured) /\ toHost[k] \in Measured
    BY <2>1, <2>3 DEF Hits, Measured
  <2>8. rx'.svc \in Measurements =>
           /\ Query \in waiting' /\ Current(Query)' = rx'.svc /\ last' # rx'.svc
           /\ Hits(toDev', Measurements) = {} /\ Hits(toHost', Measured) = {}
    BY <2>1, <2>2, <2>4, <2>5, <2>6, <2>7
  <2>9. \A j \in Hits(toDev', Measurements) :
           Query \in waiting' /\ Current(Query)' = toDev'[j] /\ last' # toDev'[j]
    BY <2>2, <2>5, <2>6
  <2>10. \A j \in Hits(toHost', Measured) :
            /\ Query \in waiting' /\ Current(Query)' = toHost'[j].svc
            /\ last' # toHost'[j].svc
    BY <2>4, <2>5, <2>6 DEF Shorter
  <2>11. /\ Single(toDev', Measurements) /\ Single(toHost', Measured)
         /\ Hits(toDev', Measurements) = {} \/ Hits(toHost', Measured) = {}
    BY <2>2, <2>4, <2>5 DEF Shorter
  <2> QED BY <2>8, <2>9, <2>10, <2>11 DEF OnTheWay, Asked
<1>5. CASE ReadAnnounce
  <2>1. UNCHANGED <<toDev, toHost>> /\ last' = rx.svc /\ rx'.svc \notin Measurements
    BY <1>5 DEF ReadAnnounce, NoReply, Reply, Measurements
  <2>2. CASE rx.svc \in Measurements
    <3>1. NothingOnTheWay'
      BY <2>1, <2>2 DEF OnTheWay, NothingOnTheWay
    <3> QED BY <3>1 DEF NothingOnTheWay, OnTheWay, Single
  <2>3. CASE rx.svc \notin Measurements
    <3>1. \A m \in Measurements :
             Asked(m) => Query \in waiting' /\ Current(Query)' = m /\ last' # m
      BY <1>2, <2>1, <2>3 DEF Asked, Current
    <3>2. /\ \A j \in Hits(toDev, Measurements) :
                toDev[j] \in Measurements /\ Asked(toDev[j])
          /\ \A j \in Hits(toHost, Measured) :
                toHost[j].svc \in Measurements /\ Asked(toHost[j].svc)
      BY DEF Hits, Measured, OnTheWay
    <3>3. \A j \in Hits(toDev', Measurements) :
             Query \in waiting' /\ Current(Query)' = toDev'[j] /\ last' # toDev'[j]
      BY <2>1, <3>1, <3>2
    <3>4. \A j \in Hits(toHost', Measured) :
             /\ Query \in waiting' /\ Current(Query)' = toHost'[j].svc
             /\ last' # toHost'[j].svc
      BY <2>1, <3>1, <3>2
    <3>5. /\ Single(toDev', Measurements) /\ Single(toHost', Measured)
          /\ Hits(toDev', Measurements) = {} \/ Hits(toHost', Measured) = {}
      BY <2>1 DEF OnTheWay
    <3> QED BY <2>1, <3>3, <3>4, <3>5 DEF OnTheWay, Asked
  <2> QED BY <2>2, <2>3
<1>6. CASE ReadError
  <2>1. toHost' = <<>> /\ toDev' \in {toDev, <<>>} /\ UNCHANGED <<last, rx>>
    BY <1>6 DEF ReadError
  <2>2. Hits(toHost', Measured) = {} /\ Single(toHost', Measured)
    BY <2>1, HitsNone
  <2>3. CASE toDev' = toDev
    BY <1>2, <2>1, <2>2, <2>3, WayShrinks DEF OnTheWay
  <2>4. CASE toDev' = <<>>
    <3>1. Hits(toDev', Measurements) = {} /\ Single(toDev', Measurements)
      BY <2>4, HitsNone
    <3> QED BY <1>2, <2>1, <2>2, <3>1, WayShrinks
  <2> QED BY <2>1, <2>3, <2>4
<1> QED BY <1>3, <1>4, <1>5, <1>6

LEMMA WayMain ==
    ASSUME OnTheWay, MainStep \/ OpenFails
    PROVE  OnTheWay'
<1>1. /\ UNCHANGED <<agenda, waiting, last, rx, toDev>>
      /\ toHost' = toHost \/ toHost' = <<>>
  BY DEF MainStep, Create, Open, OpenFails, Woken, Close, Destroy, SleepDone
<1>2. Shorter(toHost, toHost', Measured)
  <2>1. Shorter(toHost, toHost, Measured)
    BY DEF Shorter
  <2>2. Shorter(toHost, <<>>, Measured)
    BY HitsNone DEF Shorter
  <2> QED BY <1>1, <2>1, <2>2
<1>3. /\ \A j \in Hits(toHost', Measured) :
            \E i \in Hits(toHost, Measured) : toHost'[j] = toHost[i]
      /\ \A j \in Hits(toDev', Measurements) :
            \E i \in Hits(toDev, Measurements) : toDev'[j] = toDev[i]
      /\ Single(toDev', Measurements) /\ Single(toHost', Measured)
  BY <1>1, <1>2 DEF Shorter, OnTheWay
<1> QED BY <1>1, <1>3, WayShrinks

(* A request is served: its answer is under way instead of it.             *)
LEMMA WayServed ==
    ASSUME TypeOK, OnTheWay, DevServe
    PROVE  OnTheWay'
<1>0. /\ toDev \in Seq(Outgoing) /\ toHost \in Seq(Incoming)
      /\ UNCHANGED <<agenda, waiting, last, rx>>
  BY DEF TypeOK, DevServe
<1>1. PICK r \in Requests \ {"RESET"} :
          Taken(r) /\ Send(Reply(Service(r), dev'.pwm))
  BY DEF DevServe
<1>2. PICK x : x = Reply(Service(r), dev'.pwm)
  OBVIOUS
<1>3. x \in Incoming /\ x.svc = Service(r)
  <2>1. dev'.pwm \in BOOLEAN
    BY DEF DevServe, TypeOK
  <2>2. Service(r) \in Services
    BY DEF Services
  <2> QED BY <1>2, <2>1, <2>2 DEF Reply, Replies, Incoming
<1>4. Service(r) \in Measurements => r = Service(r)
  BY DEF Service, Measurements
<1>5. /\ toDev # <<>> /\ Head(toDev) = r /\ toDev' = Tail(toDev)
  BY <1>1 DEF Taken
<1>6. /\ Shorter(toDev, toDev', Measurements)
      /\ Single(toDev, Measurements) /\ r \in Measurements => Hits(toDev', Measurements) = {}
  <2>1. Head(toDev) \in Measurements /\ Single(toDev, Measurements) =>
           Hits(Tail(toDev), Measurements) = {}
    BY <1>0, <1>5, TailIsShorter
  <2>2. Shorter(toDev, Tail(toDev), Measurements)
    BY <1>0, <1>5, TailIsShorter
  <2> QED BY <1>5, <2>1, <2>2
<1>7. toHost' = toHost \/ toHost' = Append(toHost, x)
  BY <1>1, <1>2 DEF Send
<1>8. ASSUME toHost' = toHost PROVE OnTheWay'
  <2>1. /\ \A j \in Hits(toHost', Measured) :
            \E i \in Hits(toHost, Measured) : toHost'[j] = toHost[i]
        /\ \A j \in Hits(toDev', Measurements) :
            \E i \in Hits(toDev, Measurements) : toDev'[j] = toDev[i]
        /\ Single(toDev', Measurements) /\ Single(toHost', Measured)
    BY <1>6, <1>8 DEF Shorter, OnTheWay
  <2> QED BY <1>0, <2>1, WayShrinks
<1>9. ASSUME Longer(toHost, x, toHost'), x \notin Measured PROVE OnTheWay'
  <2>1. /\ Hits(toHost', Measured) = Hits(toHost, Measured)
        /\ \A j \in Hits(toHost, Measured) : toHost'[j] = toHost[j]
    BY <1>9, HitsLonger
  <2>2. /\ \A j \in Hits(toHost', Measured) :
            \E i \in Hits(toHost, Measured) : toHost'[j] = toHost[i]
        /\ \A j \in Hits(toDev', Measurements) :
            \E i \in Hits(toDev, Measurements) : toDev'[j] = toDev[i]
        /\ Single(toDev', Measurements) /\ Single(toHost', Measured)
    BY <1>6, <2>1 DEF Shorter, OnTheWay, Single
  <2> QED BY <1>0, <2>2, WayShrinks
<1>10. ASSUME Longer(toHost, x, toHost'), x \in Measured PROVE OnTheWay'
  <2>1. r \in Measurements /\ x.svc = r
    BY <1>3, <1>4, <1>10 DEF Measured
  <2>2. 1 \in Hits(toDev, Measurements) /\ toDev[1] = r
    BY <1>0, <1>5, <2>1 DEF Hits
  <2>3. Asked(r) /\ Hits(toHost, Measured) = {}
    BY <2>2 DEF OnTheWay
  <2>4. Hits(toDev', Measurements) = {} /\ rx'.svc \notin Measurements
    BY <1>0, <1>6, <2>1, <2>2 DEF OnTheWay
  <2>5. Single(toHost', Measured) /\ \A j \in Hits(toHost', Measured) : toHost'[j] = x
    BY <1>10, <2>3, OnlyHit
  <2>6. \A j \in Hits(toHost', Measured) :
            /\ Query \in waiting' /\ Current(Query)' = toHost'[j].svc
            /\ last' # toHost'[j].svc
    BY <1>0, <2>1, <2>3, <2>5 DEF Asked, Current
  <2> QED BY <2>4, <2>5, <2>6 DEF OnTheWay, Asked, Single
<1>11. toHost' = Append(toHost, x) => Longer(toHost, x, toHost')
  BY <1>0, <1>3, AppendIsLonger
<1> QED BY <1>7, <1>8, <1>9, <1>10, <1>11

(* The other steps of the KL02 and of the wire.                            *)
LEMMA WayDevice ==
    ASSUME TypeOK, OnTheWay, DevReset \/ DevIgnore \/ DevBoot \/ WireLoses
    PROVE  OnTheWay'
<1>0. /\ toDev \in Seq(Outgoing) /\ toHost \in Seq(Incoming)
      /\ UNCHANGED <<agenda, waiting, last, rx>>
  BY DEF TypeOK, DevReset, DevIgnore, DevBoot, WireLoses
<1>1. /\ toDev' = toDev \/ (toDev # <<>> /\ toDev' = Tail(toDev))
      /\ \/ toHost' = toHost \/ (toHost # <<>> /\ toHost' = Tail(toHost))
         \/ \E x \in {Ack, Reply("RESET", FALSE)} : toHost' = Append(toHost, x)
  BY DEF DevReset, DevIgnore, DevBoot, WireLoses, Taken, Send
<1>2. Shorter(toDev, toDev', Measurements)
  <2>1. CASE toDev' = toDev
    BY <2>1 DEF Shorter
  <2>2. CASE toDev # <<>> /\ toDev' = Tail(toDev)
    BY <1>0, <2>2, TailIsShorter
  <2> QED BY <1>1, <2>1, <2>2
<1>3. Shorter(toHost, toHost', Measured)
  <2>1. CASE toHost' = toHost
    BY <2>1 DEF Shorter
  <2>2. CASE toHost # <<>> /\ toHost' = Tail(toHost)
    BY <1>0, <2>2, TailIsShorter
  <2>3. ASSUME NEW x \in {Ack, Reply("RESET", FALSE)}, toHost' = Append(toHost, x)
        PROVE  Shorter(toHost, toHost', Measured)
    <3>1. x \in Incoming /\ x \notin Measured
      <4>1. "RESET" \in Services
        BY DEF Services, Service, Requests, PwmRequests
      <4>2. \A v \in Services, on \in BOOLEAN : Reply(v, on) \in Replies
        BY DEF Replies
      <4>3. x.svc \notin Measurements
        BY DEF Reply, Ack, Measurements
      <4> QED BY <4>1, <4>2, <4>3 DEF Incoming, Measured
    <3>2. Longer(toHost, x, toHost')
      BY <1>0, <2>3, <3>1, AppendIsLonger
    <3>3. /\ Hits(toHost', Measured) = Hits(toHost, Measured)
          /\ \A j \in Hits(toHost, Measured) : toHost'[j] = toHost[j]
      BY <3>1, <3>2, HitsLonger
    <3> QED BY <3>3 DEF Shorter, Single
  <2> QED BY <1>1, <2>1, <2>2, <2>3
<1>4. /\ \A j \in Hits(toHost', Measured) :
            \E i \in Hits(toHost, Measured) : toHost'[j] = toHost[i]
      /\ \A j \in Hits(toDev', Measurements) :
            \E i \in Hits(toDev, Measurements) : toDev'[j] = toDev[i]
      /\ Single(toDev', Measurements) /\ Single(toHost', Measured)
  BY <1>2, <1>3 DEF Shorter, OnTheWay
<1> QED BY <1>0, <1>4, WayShrinks

-----------------------------------------------------------------------------
(* The answer evaluated last, and the rest of the round.                   *)

(* The query thread goes on to the next step of its round: either no       *)
(* measurement has been answered since, or that of the step just done.     *)
LEMMA NextOfRound ==
    ASSUME TypeOK, LockHeld, QueryInv, Query \in Threads,
           Busy(Query), Chain(agenda[Query]), Advance(Query),
           last' = last, io' = io,
           io = "open" => last \notin Measurements \/ last = Current(Query)
    PROVE  /\ agenda'[Query] # <<>> => Chain(agenda'[Query])
           /\ io' = "open" => NewAnswer'
<1>1. /\ agenda[Query] \in Seq(Steps) /\ agenda[Query] # <<>>
      /\ agenda'[Query] = Tail(agenda[Query])
  BY DEF TypeOK, Busy, Advance
<1> DEFINE q == agenda[Query]
           r == agenda'[Query]
<1>2. /\ r # <<>> => /\ Chain(r)
                     /\ Head(r) \in Measurements => Head(r) # Head(q)
      /\ r = <<>> => Head(q) \in Measurements \ {FirstMeasured}
  BY <1>1, RestOfChain
<1>3. r # <<>> /\ Head(q) \in Measurements => Head(r) \in Measurements
  <2>1. ASSUME r # <<>>, Head(q) \in Measurements
        PROVE  Head(r) \in Measurements
    <3>1. OnlyMeasures(q)
      <4>1. OnlyMeasures(q) \/ Initialises(q)
        BY DEF QueryInv
      <4>2. "reinit_done" \notin Measurements /\ "RESET" \notin Measurements
            /\ "PP_PULLUP" \notin Measurements
        BY DEF Measurements
      <4> QED BY <1>1, <2>1, <4>1, <4>2, RestOfRound
    <3>2. OnlyMeasures(r) /\ r \in Seq(Steps)
      BY <1>1, <3>1, RestOfRound, HeadTailProperties
    <3> QED BY <2>1, <3>2, RestOfRound
  <2> QED BY <2>1
<1>4. {"PP_PULLUP", "reinit_done"} \cap Measurements = {} /\ FirstMeasured \in Measurements
  BY DEF Measurements, FirstMeasured
<1>5. ASSUME io = "open"
      PROVE  /\ r = <<>> => last # FirstMeasured
             /\ r # <<>> /\ Head(r) \in Measurements => last # Head(r)
             /\ r # <<>> /\ Head(r) \in {"PP_PULLUP", "reinit_done"} =>
                   last \notin Measurements
  <2>1. last \notin Measurements \/ last = Head(q)
    BY <1>5 DEF Current
  <2> HIDE DEF q, r
  <2>2. CASE last \notin Measurements
    BY <1>4, <2>2
  <2>3. CASE last \in Measurements /\ last = Head(q)
    BY <1>2, <1>3, <1>4, <2>3
  <2> QED BY <2>1, <2>2, <2>3
<1>6. io = "open" => NewAnswer'
  BY <1>5 DEF NewAnswer, Busy, Current
<1> QED BY <1>2, <1>6

LEMMA AnswersThread ==
    ASSUME LinkAssumption, Unrepeated, QInv, ClientsMeasureNothing, Awaiting,
           "partial" \notin env, process' = "running",
           NEW t \in Threads, Lock(t) \/ ThreadStep(t)
    PROVE  /\ Busy(Query)' => Chain(agenda'[Query])
           /\ io' = "open" => NewAnswer'
<1>0. /\ IInv /\ TypeOK /\ LockHeld /\ WaiterOwnsAnswer /\ QueryInv
      /\ Query \in Threads /\ Query \notin Clients
      /\ Busy(Query) => Chain(agenda[Query])
      /\ io = "open" => NewAnswer
  BY DEF QInv, RInv, IInv, Awaiting, LinkAssumption
<1>1. UNCHANGED <<last, io>> /\ (~ReinitDone(t) => reinit' = reinit)
  BY DEF Lock, ThreadStep, TxWrite, TxWriteFails, TxDangling, TxAnswered,
         TxTimeout, CheckPwm, ReinitDone, Return
<1>2. CASE t # Query
  <2>1. agenda'[Query] = agenda[Query]
    BY <1>0, <1>2, AgendaStep
  <2>2. Query \in waiting' <=> Query \in waiting
    BY <1>2 DEF Lock, ThreadStep, TxWrite, TxWriteFails, TxDangling,
       TxAnswered, TxTimeout, CheckPwm, ReinitDone, Return
  <2>3. ~ReinitDone(t)
    <3>1. t \in Clients /\ agenda[t] \in Seq(Steps) /\ Private(agenda[t])
      BY <1>0, <1>2 DEF ClientsMeasureNothing, TypeOK
    <3> QED BY <3>1, PrivateTail DEF ReinitDone, Busy, Current
  <2> QED BY <1>0, <1>1, <2>1, <2>2, <2>3 DEF NewAnswer, Busy, Current
<1>3. CASE t = Query /\ Lock(Query)
  <2>1. agenda'[Query] = Round /\ reinit' = reinit /\ ~Busy(Query)
    <3>1. call[Query] = "round" /\ cmd_mtx = NoThread
      BY <1>0, <1>3 DEF Lock, QueryInv
    <3>2. agenda'[Query] = Round
      BY <1>0, <1>3, <3>1 DEF Lock, Program, TypeOK
    <3> QED BY <1>0, <1>3, <3>1, <3>2 DEF Lock, LockHeld, LinkAssumption
  <2>2. /\ Chain(Round) /\ Round # <<>>
        /\ Head(Round) = IF reinit THEN "RESET" ELSE FirstMeasured
    BY RoundChain
  <2>3. ASSUME io = "open" PROVE NewAnswer'
    <3>1. ~reinit => last # FirstMeasured
      BY <1>0, <2>1, <2>3 DEF NewAnswer
    <3>2. "RESET" \notin Measurements \cup {"PP_PULLUP", "reinit_done"}
          /\ FirstMeasured \notin {"PP_PULLUP", "reinit_done"}
      BY DEF Measurements, FirstMeasured
    <3>3. agenda'[Query] # <<>> /\ Head(agenda'[Query]) = IF reinit THEN "RESET" ELSE FirstMeasured
      BY <2>1, <2>2
    <3>4. CASE reinit
      BY <1>1, <2>1, <3>2, <3>3, <3>4 DEF NewAnswer, Busy, Current
    <3>5. CASE ~reinit
      BY <1>1, <2>1, <3>1, <3>2, <3>3, <3>5 DEF NewAnswer, Busy, Current
    <3> QED BY <3>4, <3>5
  <2> QED BY <1>1, <2>1, <2>2, <2>3
<1>4. ASSUME t = Query, Busy(Query), Advance(Query),
             io = "open" => last \notin Measurements \/ last = Current(Query)
      PROVE  /\ Busy(Query)' => Chain(agenda'[Query])
             /\ io' = "open" => NewAnswer'
  BY <1>0, <1>1, <1>4, NextOfRound DEF Busy
<1>5. Busy(Query) => Current(Query) \in Measurements \cup {"RESET", "PP_PULLUP", "reinit_done"}
  <2>1. agenda[Query] \in Seq(Steps)
    BY <1>0 DEF TypeOK
  <2> QED BY <1>0, <2>1, RestOfRound DEF QueryInv, Busy, Current
<1>6. CASE t = Query /\ TxWrite(Query)
  <2>1. Busy(Query) /\ Current(Query) \in Requests
    BY <1>6 DEF TxWrite, Transmits
  <2>2. CASE last = Service(Current(Query))
    <3>1. Advance(Query)
      BY <1>6, <2>2 DEF TxWrite
    <3>2. last \notin Measurements \/ last = Current(Query)
      BY <1>5, <2>1, <2>2 DEF Service, PwmRequests, Measurements
    <3> QED BY <1>4, <1>6, <2>1, <3>1, <3>2
  <2>3. CASE last # Service(Current(Query))
    <3>1. agenda' = agenda /\ Query \in waiting' /\ reinit' = reinit
      BY <1>6, <2>3 DEF TxWrite
    <3> QED BY <1>0, <1>1, <3>1 DEF NewAnswer, Busy, Current
  <2> QED BY <2>2, <2>3
<1>7. CASE t = Query /\ (TxWriteFails(Query) \/ TxDangling(Query))
  <2>1. /\ io # "open" /\ Busy(Query)
        /\ Advance(Query)
    BY <1>7 DEF TxWriteFails, TxDangling, Transmits
  <2> QED BY <1>4, <1>7, <2>1
<1>8. CASE t = Query /\ TxAnswered(Query)
  <2>1. /\ Busy(Query) /\ Advance(Query) /\ last = Service(Current(Query))
    BY <1>0, <1>8 DEF TxAnswered, WaiterOwnsAnswer
  <2>2. last \notin Measurements \/ last = Current(Query)
    BY <1>5, <2>1 DEF Service, PwmRequests, Measurements
  <2> QED BY <1>4, <1>8, <2>1, <2>2
<1>9. CASE t = Query /\ (TxTimeout(Query) \/ CheckPwm(Query))
  <2>1. ~TxTimeout(Query)
    BY DEF TxTimeout, Throw
  <2>2. ~CheckPwm(Query)
    BY <1>5 DEF CheckPwm, Checks, Measurements
  <2> QED BY <1>9, <2>1, <2>2
<1>10. CASE t = Query /\ ReinitDone(Query)
  <2>1. Busy(Query) /\ Current(Query) = "reinit_done" /\ Advance(Query)
    BY <1>10 DEF ReinitDone
  <2>2. io = "open" => last \notin Measurements
    BY <1>0, <2>1 DEF NewAnswer
  <2> QED BY <1>4, <1>10, <2>1, <2>2
<1>11. CASE t = Query /\ Return(Query)
  <2>1. agenda'[Query] = <<>> /\ ~Busy(Query) /\ reinit' = reinit
    BY <1>0, <1>11 DEF Return, Leave, TypeOK
  <2> QED BY <1>0, <1>1, <2>1 DEF NewAnswer, Busy
<1> QED BY <1>2, <1>3, <1>6, <1>7, <1>8, <1>9, <1>10, <1>11 DEF ThreadStep

LEMMA AnswersOthers ==
    ASSUME QInv, Awaiting,
           \/ QueryWake \/ \E c \in Clients : ClientCall(c)
           \/ ReadAck \/ ReadFrame \/ ReadAnnounce \/ ReadError
           \/ MainStep \/ OpenFails
           \/ DevServe \/ DevReset \/ DevIgnore \/ DevBoot \/ WireLoses
    PROVE  /\ Busy(Query)' => Chain(agenda'[Query])
           /\ io' = "open" => NewAnswer'
<1>0. /\ OnTheWay /\ Opening /\ LockHeld /\ HolderCalled /\ Query \in Threads
      /\ Busy(Query) => Chain(agenda[Query])
      /\ io = "open" => NewAnswer
  BY DEF QInv, RInv, IInv, Awaiting
<1>1. agenda' = agenda /\ waiting' = waiting
  BY DEF QueryWake, ClientCall, ReadAck, ReadFrame, ReadAnnounce, ReadError,
         MainStep, Create, Open, OpenFails, Woken, Close, Destroy, SleepDone,
         DevServe, DevReset, DevIgnore, DevBoot, WireLoses
<1>2. CASE ReadAnnounce
  <2>1. last' = rx.svc /\ UNCHANGED <<io, reinit>>
    BY <1>2 DEF ReadAnnounce
  <2>2. CASE rx.svc \in Measurements
    <3>1. Query \in waiting /\ Current(Query) \in Measurements /\ Busy(Query)
      <4>1. Query \in waiting /\ Current(Query) = rx.svc
        BY <1>0, <2>2 DEF OnTheWay, Asked
      <4> QED BY <1>0, <2>2, <4>1 DEF QInv, RInv, IInv, WaiterOwnsAnswer
    <3>2. {"PP_PULLUP", "reinit_done"} \cap Measurements = {}
      BY DEF Measurements
    <3> QED BY <1>0, <1>1, <3>1, <3>2 DEF NewAnswer, Busy, Current
  <2>3. CASE rx.svc \notin Measurements
    <3>1. FirstMeasured \in Measurements
      BY DEF FirstMeasured, Measurements
    <3> QED BY <1>0, <1>1, <2>1, <2>3, <3>1 DEF NewAnswer, Busy, Current
  <2> QED BY <2>2, <2>3
<1>3. CASE Open
  <2>1. main = "open" /\ UNCHANGED <<last, reinit>>
    BY <1>3 DEF Open, OpenGensio
  <2>2. /\ reinit
        /\ ~Busy(Query) \/ Current(Query) = "RESET"
    BY <1>0, <2>1 DEF Opening, LockHeld, HolderCalled
  <2>3. "RESET" \notin Measurements \cup {"PP_PULLUP", "reinit_done"}
    BY DEF Measurements
  <2> QED BY <1>0, <1>1, <2>1, <2>2, <2>3 DEF NewAnswer, Busy, Current
<1>4. CASE io' # "open" \/ UNCHANGED <<io, last, reinit>>
  BY <1>0, <1>1, <1>4 DEF NewAnswer, Busy, Current
<1>5. CASE QueryWake \/ \E c \in Clients : ClientCall(c)
  BY <1>4, <1>5 DEF QueryWake, ClientCall
<1>6. CASE ReadAck \/ ReadFrame \/ ReadError
  BY <1>4, <1>6 DEF ReadAck, ReadFrame, ReadError, Break
<1>7. CASE Create \/ Woken \/ Close \/ Destroy \/ SleepDone \/ OpenFails
  BY <1>4, <1>7 DEF Create, NewGensio, OpenFails, OpenThrows, Woken,
     WaitReturns, Close, CloseGensio, Destroy, FreeGensio, SleepDone, Retry
<1>8. CASE DevServe \/ DevReset \/ DevIgnore \/ DevBoot \/ WireLoses
  BY <1>4, <1>8 DEF DevServe, DevReset, DevIgnore, DevBoot, WireLoses
<1> QED BY <1>2, <1>3, <1>5, <1>6, <1>7, <1>8 DEF MainStep

LEMMA WayOthers ==
    ASSUME TypeOK, OnTheWay, process = "running", Query \notin Clients,
           \/ QueryWake \/ \E c \in Clients : ClientCall(c)
           \/ ReadAck \/ ReadFrame \/ ReadAnnounce \/ ReadError
           \/ MainStep \/ OpenFails
           \/ DevServe \/ DevReset \/ DevIgnore \/ DevBoot \/ WireLoses
    PROVE  OnTheWay'
<1>1. CASE QueryWake \/ \E c \in Clients : ClientCall(c)
  <2>1. UNCHANGED <<agenda, waiting, last, rx, toDev, toHost>>
    BY <1>1 DEF QueryWake, ClientCall
  <2> QED BY <2>1 DEF OnTheWay, Asked, Current
<1> QED BY <1>1, WayReader, WayMain, WayServed, WayDevice

(* The invariant is inductive.                                             *)
LEMMA AwaitingNext ==
    ASSUME LinkAssumption, Unrepeated, WInv, [Next]_vars
    PROVE  WInv'
<1>1. QInv' /\ ClientsMeasureNothing'
  BY QueryNext, ClientsNext DEF WInv, QInv
<1>2. CASE process = "running" /\ Running /\ env' = env
  <2> SUFFICES ASSUME process' = "running", "partial" \notin env
               PROVE  Awaiting'
    BY <1>1, <1>2 DEF WInv
  <2>0. /\ QInv /\ ClientsMeasureNothing /\ Awaiting /\ TypeOK
        /\ OnTheWay /\ Opening /\ Query \notin Clients
    BY <1>2 DEF WInv, Awaiting, QInv, RInv, IInv, LinkAssumption
  <2>1. CASE \E t \in Threads : Lock(t) \/ ThreadStep(t)
    <3>1. PICK t \in Threads : Lock(t) \/ ThreadStep(t)
      BY <2>1
    <3>2. OnTheWay'
      BY <2>0, <3>1, WayThread
    <3>3. /\ Busy(Query)' => Chain(agenda'[Query])
          /\ io' = "open" => NewAnswer'
      BY <2>0, <3>1, AnswersThread
    <3>4. Opening'
      BY <2>0, <3>1, OpeningThread
    <3> QED BY <3>2, <3>3, <3>4 DEF Awaiting
  <2>2. CASE \/ QueryWake \/ \E c \in Clients : ClientCall(c)
             \/ ReadAck \/ ReadFrame \/ ReadAnnounce \/ ReadError
             \/ MainStep \/ OpenFails
             \/ DevServe \/ DevReset \/ DevIgnore \/ DevBoot \/ WireLoses
    <3>1. OnTheWay'
      BY <1>2, <2>0, <2>2, WayOthers
    <3>2. /\ Busy(Query)' => Chain(agenda'[Query])
          /\ io' = "open" => NewAnswer'
      BY <2>0, <2>2, AnswersOthers
    <3>3. Opening'
      BY <1>2, <2>0, <2>2, OpeningOthers
    <3> QED BY <3>1, <3>2, <3>3 DEF Awaiting
  <2> QED BY <1>2, <2>1, <2>2 DEF Running
<1>3. CASE UNCHANGED vars
  <2>1. Awaiting => Awaiting'
    BY <1>3 DEF vars, Awaiting, OnTheWay, Asked, NewAnswer, Opening, Busy, Current
  <2> QED BY <1>1, <1>3, <2>1 DEF WInv, vars
<1> QED BY <1>2, <1>3 DEF Next, Terminated

-----------------------------------------------------------------------------

(* The invariant holds whatever goes wrong with the connection.            *)
THEOREM AwaitingHolds == ASSUME Unrepeated PROVE Spec => []WInv
<1>1. Init => WInv
  <2> SUFFICES ASSUME Init PROVE WInv
    OBVIOUS
  <2>1. QInv
    BY QueryInit
  <2>2. ClientsMeasureNothing
    BY LinkAssumption DEF Init, ClientsMeasureNothing, Private
  <2>3. Awaiting
    <3>1. ~Busy(Query) /\ io # "open" /\ main # "open"
      BY LinkAssumption DEF Init, LoopInit, Busy
    <3>2. OnTheWay
      <4>1. toDev = <<>> /\ toHost = <<>> /\ rx.svc \notin Measurements
        BY DEF Init, NoReply, Reply, Measurements
      <4>2. NothingOnTheWay
        BY <4>1, HitsNone DEF NothingOnTheWay
      <4> QED BY <4>2, NobodyAsks
    <3> QED BY <3>1, <3>2 DEF Awaiting, Opening
  <2> QED BY <2>1, <2>2, <2>3 DEF WInv
<1>2. WInv /\ [Next]_vars => WInv'
  BY AwaitingNext, LinkAssumption
<1> QED BY <1>1, <1>2, PTL DEF Spec

(* KL02.cpp:94, tx_frame: "wait until we received the response to this     *)
(* request,or timeout".  What the query thread measures it has measured in *)
(* this round: for an EV, and for an EVSE with a socket, it never takes    *)
(* the answer to an earlier request for the answer, whatever happens to    *)
(* the connection, unless a write is cut short.                            *)
THEOREM MeasurementsAwaited ==
    ASSUME Unrepeated PROVE Spec => MeasurementIsAwaited
<1> DEFINE Waits == \A r \in Measurements : "partial" \notin env => Awaited(Query, r)
<1>1. WInv /\ [Next]_vars => Waits
  <2> SUFFICES ASSUME WInv, [Next]_vars, NEW r \in Measurements,
                      "partial" \notin env, Writes(Query, r)
               PROVE  Query \in waiting'
    BY DEF Awaited
  <2>1. TxWrite(Query) /\ process = "running" /\ Busy(Query) /\ Current(Query) = r
    BY MeasurementWritten DEF WInv
  <2>2. Query \notin waiting /\ io = "open"
    BY <2>1 DEF TxWrite, Transmits
  <2>3. last # r
    BY <2>1, <2>2 DEF WInv, Awaiting, NewAnswer
  <2>4. Service(r) = r
    BY DEF Service, PwmRequests, Measurements
  <2> QED BY <2>1, <2>3, <2>4 DEF TxWrite
<1>2. Spec => [][Waits]_vars
  BY <1>1, AwaitingHolds, PTL DEF Spec
<1> QED BY <1>2 DEF MeasurementIsAwaited

=============================================================================
