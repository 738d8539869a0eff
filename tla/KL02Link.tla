------------------------------ MODULE KL02Link ------------------------------
(***************************************************************************)
(* The request/response link between the KL02 driver and the KL02 co-      *)
(* processor: lib/src/KL02.cpp and the connection loop of the module that  *)
(* owns the driver (EVAchargeSEEVSE::ready, EVAchargeSEEV::ready).         *)
(*                                                                         *)
(* Actors: the query thread, the framework threads that run the commands   *)
(* of the module (Clients), the main thread, which alternates between the  *)
(* connection loop and the gensio callbacks it serves while it waits, and  *)
(* the KL02 itself, which is modelled from how the driver uses it.         *)
(*                                                                         *)
(* Measured values are left out: EvseBoardSupport says what is made of     *)
(* them.  Time is left out except where the code relies on it: see         *)
(* TxTimeout and SleepDone.                                                *)
(***************************************************************************)
EXTENDS ConnectionLoop, Sequences, FiniteSets

CONSTANTS
    Clients,      \* framework threads that call the driver
    Query,        \* the query thread of the driver
    NoThread,     \* cmd_mtx is free
    IsEv, UsePP,  \* constructor arguments of the driver
    Commands,     \* operations the module's command handlers call
    Envs,         \* environments: sets of Mishaps, what may go wrong in each
    QueueBound    \* bound on requests and on replies in flight, without QUIT

Threads == Clients \cup {Query}

Operations == {"set_duty_cycle", "pwm_enable", "pwm_disable",
               "pwm_is_enabled", "get_duty_cycle", "set_cp_state"}

(* drop: the connection breaks;  no_device: it cannot be opened;           *)
(* partial: a write is cut short;  loss: a message is damaged on the wire; *)
(* slow: an answer comes after the timeout;  early: a command comes before *)
(* the first RESET is answered;  coalesce: one read delivers two frames.   *)
Mishaps == {"drop", "no_device", "partial", "loss", "slow", "early", "coalesce"}

ASSUME LinkAssumption ==
    /\ Query \notin Clients
    /\ NoThread \notin Threads
    /\ IsEv \in BOOLEAN /\ UsePP \in BOOLEAN
    /\ Commands \subseteq Operations
    /\ Envs \subseteq SUBSET Mishaps
    /\ QueueBound \in Nat \ {0}

-----------------------------------------------------------------------------
(* Requests, services and what a thread has left to do.                    *)

PwmRequests  == {"PWM_ENABLE", "PWM_DISABLE", "PWM_CHECK"}
Measurements == {"PP_VOLTAGE", "GET_UCP", "GET_PWM"}
Requests     == PwmRequests \cup Measurements
                    \cup {"RESET", "PP_PULLUP", "SET_PWM", "SET_UCP"}

(* The service a request names.  The three PWM_* requests are one service. *)
Service(r) == IF r \in PwmRequests THEN "CONTROL_PWM" ELSE r

Services == {Service(r) : r \in Requests}

(* Local steps of an operation besides its requests: a check of pwm_status *)
(* that throws, and the end of the initialisation of the KL02.             *)
Checks == {"require_on", "require_off"}
Steps  == Requests \cup Checks \cup {"reinit_done"}

(* What the KL02 sends: a reply, which for the PWM requests says whether   *)
(* PWM is on, or the one byte with which its bootloader reports.           *)
Reply(s, on) == [svc |-> s, on |-> on]
Replies      == {Reply(s, on) : s \in Services, on \in BOOLEAN}
Ack          == Reply("ACK", FALSE)
NoReply      == Reply("none", FALSE)

Incoming == Replies \cup {Ack}
Outgoing == Requests \cup {"QUIT"}

VARIABLES
    call,        \* per thread: the operation it is in, or "none"
    agenda,      \* per thread: the steps left of that operation
    cmd_mtx,     \* the holder of KL02::cmd_mtx
    waiting,     \* the threads inside cv.wait_for of tx_frame
    expected,    \* KL02::expected_svc_response
    last,        \* KL02::last_svc_response
    pwm_status,
    rx,          \* the reply read() has evaluated and not yet announced
    toDev, toHost, \* requests and replies in flight
    dev,         \* the KL02: in its bootloader or not, PWM on or not
    process,     \* "terminated" after an exception nobody catches
    reset_answered, \* history: see NoteReset
    env          \* the environment of this behaviour, one of Envs

threadVars == <<call, agenda, cmd_mtx, waiting, expected>>
readerVars == <<last, pwm_status, rx>>
wireVars   == <<toDev, toHost, dev>>
vars == <<threadVars, readerVars, loopVars, wireVars, process, reset_answered,
          env>>

TypeOK ==
    /\ call \in [Threads -> Operations \cup {"round", "none"}]
    /\ agenda \in [Threads -> Seq(Steps)]
    /\ cmd_mtx \in Threads \cup {NoThread}
    /\ waiting \subseteq Threads
    /\ expected \in Services
    /\ last \in Services \cup {"PBSC"}
    /\ pwm_status \in BOOLEAN
    /\ rx \in Replies \cup {NoReply}
    /\ LoopTypeOK
    /\ toDev \in Seq(Outgoing)
    /\ toHost \in Seq(Incoming)
    /\ dev \in [booting : BOOLEAN, pwm : BOOLEAN]
    /\ process \in {"running", "terminated"}

Init ==
    /\ call = [t \in Threads |-> "none"]
    /\ agenda = [t \in Threads |-> <<>>]
    /\ cmd_mtx = NoThread
    /\ waiting = {}
    /\ expected = "RESET"
    /\ last = "PBSC"
    /\ pwm_status = FALSE
    /\ rx = NoReply
    /\ LoopInit
    /\ toDev = <<>> /\ toHost = <<>>
    /\ dev = [booting |-> FALSE, pwm |-> FALSE]
    /\ process = "running"
    /\ reset_answered = FALSE
    /\ env \in Envs

-----------------------------------------------------------------------------
(* What each operation does while it holds cmd_mtx.                        *)

PullUp   == IF UsePP THEN <<"PP_PULLUP">> ELSE <<>>
PpQuery  == IF UsePP THEN <<"PP_VOLTAGE">> ELSE <<>>
PwmQuery == IF IsEv THEN <<"GET_PWM">> ELSE <<>>
Reinit   == <<"RESET">> \o PullUp \o <<"reinit_done">>

(* Mutated form of Round: the reset is forgotten.                          *)
RoundNoReset == PpQuery \o <<"GET_UCP">> \o PwmQuery

Round == (IF reinit THEN Reinit ELSE <<>>)
            \o PpQuery \o <<"GET_UCP">> \o PwmQuery

SetDutyCycle == IF pwm_status THEN <<"SET_PWM">>
                ELSE <<"PWM_ENABLE", "require_on", "SET_PWM">>

Program(op) ==
    [round          |-> Round,
     set_duty_cycle |-> SetDutyCycle,
     pwm_enable     |-> <<"PWM_ENABLE", "require_on">>,
     pwm_disable    |-> <<"PWM_DISABLE", "require_off">>,
     pwm_is_enabled |-> <<"PWM_CHECK">>,
     get_duty_cycle |-> <<"GET_PWM">>,
     set_cp_state   |-> <<"SET_UCP">>][op]

Busy(t)    == agenda[t] # <<>>
Current(t) == Head(agenda[t])
Advance(t) == agenda' = [agenda EXCEPT ![t] = Tail(@)]

(* The scope of the lock is left: at the end or by an exception.           *)
Leave(t) ==
    /\ agenda' = [agenda EXCEPT ![t] = <<>>]
    /\ call' = [call EXCEPT ![t] = "none"]
    /\ cmd_mtx' = NoThread

(* Nobody catches what the query thread throws: std::terminate.            *)
Throw(t) ==
    IF t = Query
    THEN process' = "terminated" /\ UNCHANGED <<call, agenda, cmd_mtx>>
    ELSE Leave(t) /\ UNCHANGED process

-----------------------------------------------------------------------------
(* The threads that issue requests.                                        *)

(* The query thread wakes up from its sleep and finds tx_enabled set.      *)
QueryWake ==
    /\ call[Query] = "none"
    /\ tx_enabled
    /\ call' = [call EXCEPT ![Query] = "round"]
    /\ UNCHANGED <<agenda, cmd_mtx, waiting, expected, readerVars, loopVars,
                   wireVars, process>>

(* The framework runs a command.  Nothing in the driver makes it wait for  *)
(* a connection.                                                           *)
ClientCall(c) ==
    /\ call[c] = "none"
    /\ last # "PBSC" \/ "early" \in env
    /\ \E op \in Commands : call' = [call EXCEPT ![c] = op]
    /\ UNCHANGED <<agenda, cmd_mtx, waiting, expected, readerVars, loopVars,
                   wireVars, process>>

(* Mutated form of Lock: cmd_mtx is not waited for.                        *)
LockUnguarded(t) ==
    /\ call[t] # "none" /\ ~Busy(t)
    /\ cmd_mtx' = t
    /\ agenda' = [agenda EXCEPT ![t] = Program(call[t])]
    /\ UNCHANGED <<call, waiting, expected, readerVars, loopVars, wireVars,
                   process>>

Lock(t) ==
    /\ call[t] # "none"
    /\ cmd_mtx = NoThread
    /\ cmd_mtx' = t
    /\ agenda' = [agenda EXCEPT ![t] = Program(call[t])]
    /\ UNCHANGED <<call, waiting, expected, readerVars, loopVars, wireVars,
                   process>>

Transmits(t) ==
    /\ Busy(t) /\ Current(t) \in Requests
    /\ t \notin waiting

(* Mutated forms of TxWrite: the expected service is not set; it is set    *)
(* only after the first look at it.                                        *)
TxWriteNoExpected(t) ==
    /\ Transmits(t) /\ io = "open" /\ Len(toDev) < QueueBound
    /\ toDev' = Append(toDev, Current(t))
    /\ waiting' = waiting \cup {t} /\ UNCHANGED <<agenda, expected>>
    /\ UNCHANGED <<call, cmd_mtx, readerVars, loopVars, toHost, dev, process>>

TxWriteLateExpected(t) ==
    /\ Transmits(t) /\ io = "open" /\ Len(toDev) < QueueBound
    /\ toDev' = Append(toDev, Current(t))
    /\ expected' = Service(Current(t))
    /\ IF last = expected
       THEN Advance(t) /\ UNCHANGED waiting
       ELSE waiting' = waiting \cup {t} /\ UNCHANGED agenda
    /\ UNCHANGED <<call, cmd_mtx, readerVars, loopVars, toHost, dev, process>>

(* tx_frame with the whole request written.  The predicate of the wait is  *)
(* evaluated before the first wait and under the same lock: when the last  *)
(* published reply was to the same service, tx_frame returns at once.      *)
TxWrite(t) ==
    /\ Transmits(t)
    /\ io = "open"
    /\ Len(toDev) < QueueBound
    /\ toDev' = Append(toDev, Current(t))
    /\ expected' = Service(Current(t))
    /\ IF last = Service(Current(t))
       THEN Advance(t) /\ UNCHANGED waiting
       ELSE waiting' = waiting \cup {t} /\ UNCHANGED agenda
    /\ UNCHANGED <<call, cmd_mtx, readerVars, loopVars, toHost, dev, process>>

(* A failed or short write is logged; tx_frame returns as if it had worked.*)
TxWriteFails(t) ==
    /\ Transmits(t)
    /\ \/ io \in {"created", "broken", "closed"}
       \/ io = "open" /\ "partial" \in env
    /\ Advance(t)
    /\ UNCHANGED <<call, cmd_mtx, waiting, expected, readerVars, loopVars,
                   wireVars, process>>

(* KL02::io is still NULL or points at a gensio that has been destroyed:   *)
(* the call is undefined; it crashes or, on dead memory, reports an error. *)
TxDangling(t) ==
    /\ Transmits(t)
    /\ \/ /\ io \in {"null", "gone"}
          /\ process' = "terminated"
          /\ UNCHANGED agenda
       \/ io = "gone" /\ Advance(t) /\ UNCHANGED process
    /\ UNCHANGED <<call, cmd_mtx, waiting, expected, readerVars, loopVars,
                   wireVars>>

TxAnswered(t) ==
    /\ t \in waiting
    /\ last = expected
    /\ waiting' = waiting \ {t}
    /\ Advance(t)
    /\ UNCHANGED <<call, cmd_mtx, expected, readerVars, loopVars, wireVars,
                   process>>

(* Nothing that could still answer a waiting thread is under way.          *)
Quiet == toDev = <<>> /\ toHost = <<>> /\ rx = NoReply /\ ~dev.booting

(* 250 ms (10 s for RESET) are long compared with an exchange, so a wait   *)
(* times out only when no answer can come, unless the KL02 may be slow.    *)
TxTimeout(t) ==
    /\ t \in waiting
    /\ last # expected
    /\ Quiet \/ io # "open" \/ "slow" \in env
    /\ waiting' = waiting \ {t}
    /\ Throw(t)
    /\ UNCHANGED <<expected, readerVars, loopVars, wireVars>>

(* Mutated form of CheckPwm: asks again until PWM is on.                   *)
CheckPwmRetries(t) ==
    /\ Busy(t) /\ Current(t) \in Checks
    /\ IF pwm_status = (Current(t) = "require_on")
       THEN Advance(t)
       ELSE agenda' = [agenda EXCEPT ![t] = <<"PWM_ENABLE">> \o @]
    /\ UNCHANGED <<call, cmd_mtx, process, waiting, expected, readerVars,
                   loopVars, wireVars>>

(* pwm_status is compared with what was asked for.                         *)
CheckPwm(t) ==
    /\ Busy(t) /\ Current(t) \in Checks
    /\ IF pwm_status = (Current(t) = "require_on")
       THEN Advance(t) /\ UNCHANGED <<call, cmd_mtx, process>>
       ELSE Throw(t)
    /\ UNCHANGED <<waiting, expected, readerVars, loopVars, wireVars>>

ReinitDone(t) ==
    /\ t = Query /\ Busy(t) /\ Current(t) = "reinit_done"
    /\ reinit' = FALSE
    /\ Advance(t)
    /\ UNCHANGED <<call, cmd_mtx, waiting, expected, readerVars, io, main,
                   wakes, tx_enabled, wireVars, process>>

(* Mutated form of Return: cmd_mtx is not unlocked.                        *)
ReturnHoldsLock(t) ==
    /\ cmd_mtx = t /\ ~Busy(t)
    /\ call' = [call EXCEPT ![t] = "none"]
    /\ UNCHANGED <<agenda, cmd_mtx, waiting, expected, readerVars, loopVars,
                   wireVars, process>>

Return(t) ==
    /\ cmd_mtx = t /\ ~Busy(t)
    /\ Leave(t)
    /\ UNCHANGED <<waiting, expected, readerVars, loopVars, wireVars, process>>

ThreadStep(t) ==
    \/ TxWrite(t) \/ TxWriteFails(t) \/ TxDangling(t)
    \/ TxAnswered(t) \/ TxTimeout(t)
    \/ CheckPwm(t) \/ ReinitDone(t) \/ Return(t)

-----------------------------------------------------------------------------
(* The main thread inside waiter->wait: KL02::read.                        *)

Reading == main = "wait" /\ io = "open" /\ rx = NoReply

(* What one read delivers: a message, or several that arrived together.    *)
ChunkSizes == IF "coalesce" \in env THEN 1 .. Len(toHost)
                                    ELSE {1} \cap (1 .. Len(toHost))

Drop(q, n) == SubSeq(q, n + 1, Len(q))

(* A chunk without a frame.  A lone ACK is the bootloader's report after a *)
(* reset: write ACK and QUIT, of which a short write is not noticed.       *)
ReadAck ==
    /\ Reading
    /\ \E n \in ChunkSizes :
          /\ \A i \in 1 .. n : toHost[i] = Ack
          /\ toHost' = Drop(toHost, n)
          /\ IF reinit /\ n = 1
             THEN \/ toDev' = Append(toDev, "QUIT")
                  \/ "partial" \in env /\ UNCHANGED toDev
             ELSE UNCHANGED toDev
    /\ UNCHANGED <<threadVars, readerVars, loopVars, dev, process>>

(* Mutated form of ReadFrame: the bootloader's byte is taken for a reply.  *)
ReadFrameOfAck ==
    /\ Reading
    /\ \E n \in ChunkSizes :
          /\ rx' = toHost[1]
          /\ toHost' = Drop(toHost, n)
    /\ pwm_status' = IF rx'.svc = "CONTROL_PWM" THEN rx'.on ELSE pwm_status
    /\ UNCHANGED <<threadVars, last, loopVars, toDev, dev, process>>

(* The first frame of the chunk is evaluated; rx_frame.clear() then drops  *)
(* whatever came behind it.                                                *)
ReadFrame ==
    /\ Reading
    /\ \E n \in ChunkSizes : \E k \in 1 .. n :
          /\ toHost[k] # Ack
          /\ \A i \in 1 .. k - 1 : toHost[i] = Ack
          /\ rx' = toHost[k]
          /\ toHost' = Drop(toHost, n)
    /\ pwm_status' = IF rx'.svc = "CONTROL_PWM" THEN rx'.on ELSE pwm_status
    /\ UNCHANGED <<threadVars, last, loopVars, toDev, dev, process>>

(* last_svc_response is set under tx_mtx and the waiting thread notified.  *)
ReadAnnounce ==
    /\ rx # NoReply
    /\ last' = rx.svc
    /\ rx' = NoReply
    /\ UNCHANGED <<threadVars, pwm_status, loopVars, wireVars, process>>

ReadError ==
    /\ "drop" \in env
    /\ Reading /\ Break
    /\ toHost' = <<>>
    /\ toDev' \in {toDev, <<>>}
    /\ UNCHANGED <<threadVars, readerVars, dev, process>>

-----------------------------------------------------------------------------
(* The main thread: the connection loop.  While it waits it also serves    *)
(* the gensio callbacks, so it goes on only after read has returned.       *)

OthersUnchanged == UNCHANGED <<threadVars, readerVars, wireVars, process>>

Create    == NewGensio /\ OthersUnchanged
Open      == OpenGensio /\ OthersUnchanged
OpenFails == "no_device" \in env /\ OpenThrows /\ OthersUnchanged
Woken     == rx = NoReply /\ WaitReturns /\ OthersUnchanged
Destroy   == FreeGensio /\ OthersUnchanged

Close ==
    /\ CloseGensio
    /\ toHost' = <<>>
    /\ UNCHANGED <<threadVars, readerVars, toDev, dev, process>>

(* Five seconds pass.  Whatever takes less is over by then: only the 10 s  *)
(* wait for the answer to a RESET outlasts them.                           *)
SleepDone ==
    /\ \A t \in Threads :
          Busy(t) => t \in waiting /\ Current(t) = "RESET" /\ last # "RESET"
    /\ call[Query] = "none" \/ Busy(Query)
    /\ Retry /\ OthersUnchanged

MainStep == Create \/ Open \/ Woken \/ Close \/ Destroy \/ SleepDone

-----------------------------------------------------------------------------
(* The KL02.  Replies reach the host only over an open connection.         *)

Send(m) ==
    IF io = "open" THEN Len(toHost) < QueueBound /\ toHost' = Append(toHost, m)
                   ELSE UNCHANGED toHost

Taken(r) == toDev # <<>> /\ Head(toDev) = r /\ toDev' = Tail(toDev)

(* The application serves a request.  The answer to any of the three PWM   *)
(* requests says whether PWM is on now.                                    *)
DevServe ==
    /\ ~dev.booting
    /\ \E r \in Requests \ {"RESET"} :
          /\ Taken(r)
          /\ dev' = [dev EXCEPT !.pwm = \/ r = "PWM_ENABLE"
                                        \/ @ /\ r # "PWM_DISABLE"]
          /\ Send(Reply(Service(r), dev'.pwm))
    /\ UNCHANGED <<threadVars, readerVars, loopVars, process>>

(* RESET switches PWM off and enters the bootloader, which reports itself. *)
DevReset ==
    /\ ~dev.booting /\ Taken("RESET")
    /\ dev' = [booting |-> TRUE, pwm |-> FALSE]
    /\ Send(Ack)
    /\ UNCHANGED <<threadVars, readerVars, loopVars, process>>

(* QUIT means nothing to the application, the bootloader knows only QUIT.  *)
DevIgnore ==
    /\ \E r \in IF dev.booting THEN Requests ELSE {"QUIT"} : Taken(r)
    /\ UNCHANGED <<threadVars, readerVars, loopVars, toHost, dev, process>>

(* QUIT or its own timeout ends the bootloader; the application reports.   *)
DevBoot ==
    /\ dev.booting
    /\ Taken("QUIT") \/ UNCHANGED toDev
    /\ dev' = [dev EXCEPT !.booting = FALSE]
    /\ Send(Reply("RESET", FALSE))
    /\ UNCHANGED <<threadVars, readerVars, loopVars, process>>

WireLoses ==
    /\ "loss" \in env
    /\ \/ toDev # <<>> /\ toDev' = Tail(toDev) /\ UNCHANGED toHost
       \/ toHost # <<>> /\ toHost' = Tail(toHost) /\ UNCHANGED toDev
    /\ UNCHANGED <<threadVars, readerVars, loopVars, dev, process>>

-----------------------------------------------------------------------------

Running ==
    \/ QueryWake
    \/ \E c \in Clients : ClientCall(c)
    \/ \E t \in Threads : Lock(t) \/ ThreadStep(t)
    \/ ReadAck \/ ReadFrame \/ ReadAnnounce \/ ReadError
    \/ MainStep \/ OpenFails
    \/ DevServe \/ DevReset \/ DevIgnore \/ DevBoot \/ WireLoses

Terminated == process = "terminated" /\ UNCHANGED vars

Writes(t, r) == cmd_mtx = t /\ toDev' = Append(toDev, r)

(* Over the connection that is being made, or is made, the KL02 has        *)
(* reported a RESET, or tx_frame did not wait for that because the last    *)
(* thing the KL02 said over an earlier one was such a report.              *)
NoteReset ==
    reset_answered' = /\ ~(main = "create" /\ main' = "open")
                      /\ \/ reset_answered
                         \/ rx.svc = "RESET" /\ rx' = NoReply
                         \/ Writes(Query, "RESET") /\ Query \notin waiting'

Next == \/ process = "running" /\ Running /\ NoteReset /\ UNCHANGED env
        \/ Terminated

Spec == Init /\ [][Next]_vars

(* A thread that can go on does.  cmd_mtx is not fair, but the query       *)
(* thread sleeps 200 ms between two rounds without it: strong fairness.    *)
(* The KL02 answers, the gensio is served while the main thread waits, and *)
(* an open that keeps being retried succeeds in the end.                   *)
While(A) == process = "running" /\ A /\ NoteReset /\ UNCHANGED env

Fairness ==
    /\ WF_vars(While(QueryWake))
    /\ \A t \in Threads : SF_vars(While(Lock(t))) /\ WF_vars(While(ThreadStep(t)))
    /\ WF_vars(While(ReadAck \/ ReadFrame \/ ReadAnnounce))
    /\ SF_vars(While(MainStep)) /\ SF_vars(While(Open))
    /\ WF_vars(While(DevServe \/ DevReset \/ DevIgnore \/ DevBoot))

FairSpec == Spec /\ Fairness

-----------------------------------------------------------------------------
(* Properties.                                                             *)

(* The KL02 can be opened, answers every request in time, and the          *)
(* connection holds.  (Once one did not, or could not be opened, the later *)
(* ones are closed at once: see ClosedInErrorOnly.)                        *)
Harmless == env = {}

(* One pair expected/last serves all threads: whoever waits in tx_frame    *)
(* holds cmd_mtx, is alone, and expected names the service it asked for.   *)
WaiterOwnsAnswer ==
    \A t \in waiting : /\ cmd_mtx = t
                       /\ Busy(t) /\ Current(t) \in Requests
                       /\ expected = Service(Current(t))

(* A step of another thread or of the reader never redirects a wait.       *)
ExpectationStable ==
    [][\A t \in Threads : t \in waiting /\ t \in waiting' =>
          expected' = expected /\ agenda'[t] = agenda[t]]_vars

(* tx_frame: "wait until we received the response to this request,or       *)
(* timeout" (KL02.cpp:94): having written its request a thread waits.      *)
Awaited(t, r) == Writes(t, r) => t \in waiting'

RequestIsAwaited == [][\A t \in Threads, r \in Requests : Awaited(t, r)]_vars

(* ... and at least what the query thread measures it measures in this     *)
(* round, unless writes are cut short: it never takes the answer to an     *)
(* earlier request for the answer.  (For an EV or an EVSE with a socket:   *)
(* with a cable attached GET_UCP follows GET_UCP.)                         *)
MeasurementIsAwaited ==
    [][\A r \in Measurements : "partial" \notin env => Awaited(Query, r)]_vars

(* The query thread measures only what it has initialised: it requests no  *)
(* measurement over a new connection before the KL02 has reported a RESET, *)
(* or its last report was one, though reinit is a plain bool that two      *)
(* threads write and an old RESET may still be waited for.  A RESET whose  *)
(* write is cut short is skipped: see README section 5.                    *)
MeasuresInitialised ==
    [][\A r \in Measurements :
          "partial" \notin env /\ Writes(Query, r) => reset_answered]_vars

(* EVAchargeSEEVSE.cpp:66: "in case of error, just sleep shortly, then try *)
(* to re-establish the connection": a broken connection is opened again.   *)
ConnectionReestablished == io = "broken" ~> io = "open"

(* KL02.cpp:144: "setting the duty cycle only works if PWM is enabled, so  *)
(* enable it if not yet done": the KL02 gets SET_PWM with its PWM on.      *)
(* README section 5 says when this fails.                                  *)
SetPwmFindsPwmOn ==
    [][toDev # <<>> /\ toDev' = Tail(toDev) /\ Head(toDev) = "SET_PWM"
          /\ ~dev.booting => dev.pwm]_vars

(* A command always comes back to the framework, answered, failed or with  *)
(* an exception: no thread keeps cmd_mtx and no wait is for ever.          *)
CommandReturns ==
    \A c \in Clients :
        call[c] # "none" ~> call[c] = "none" \/ process = "terminated"

(* As long as connection and KL02 work, no wait of the query thread runs   *)
(* into its timeout, which would end the process, and the CP voltage keeps *)
(* being measured, whatever commands compete for the link.                 *)
KeepsMeasuring ==
    Harmless => []<>(rx.svc = "GET_UCP" /\ process = "running")

(* The driver serves its callers one at a time: it implements              *)
(* RequestService, whatever goes wrong with the connection.                *)
Phase(t) == IF t \in waiting THEN "waiting"
            ELSE IF cmd_mtx = t THEN "serving"
            ELSE IF call[t] # "none" THEN "called" ELSE "idle"

Promise == INSTANCE RequestService
               WITH Users <- Threads, phase <- [t \in Threads |-> Phase(t)]

ServesOneAtATime == Promise!Spec

=============================================================================
