------------------------------ MODULE MCULink ------------------------------
(***************************************************************************)
(* The command/response link between the MCS tester's driver and its micro-*)
(* controller: modules/MCSTesterEV/MCU.cpp and MCSTesterEV::ready.         *)
(*                                                                         *)
(* Unlike the frames of the KL02 the lines of this MCU do not say what they*)
(* answer: read() puts every line into the one slot cmd_response, and a    *)
(* command takes what it finds there.  The actors are those of KL02Link.   *)
(* What is made of the voltages is the subject of MCSBoardSupport.         *)
(***************************************************************************)
EXTENDS ConnectionLoop, Sequences

CONSTANTS
    Clients,      \* framework threads that call set_cp_state
    Query,        \* the query thread of the driver
    NoThread,     \* cmd_mtx is free
    Envs,         \* environments: sets of Mishaps, what may go wrong in each
    QueueBound    \* bound on the commands and on the lines in flight

Threads == Clients \cup {Query}

(* drop: the connection breaks;  no_device: it cannot be opened;           *)
(* partial: a write is cut short;  loss: a message is lost on the wire;    *)
(* slow: a line comes after the timeout;  refuse: the MCU answers ERR to   *)
(* set_ce_state;  echo: it repeats what it receives until "echo off";      *)
(* early: a command comes before the MCU has first been reset.             *)
Mishaps == {"drop", "no_device", "partial", "loss", "slow", "refuse", "echo",
            "early"}

ASSUME MCULinkAssumption ==
    /\ Query \notin Clients
    /\ NoThread \notin Threads
    /\ Envs \subseteq SUBSET Mishaps
    /\ QueueBound \in Nat \ {0}

Commands == {"reset", "echo off", "auto_plug on", "get_voltages",
             "set_ce_state"}
Steps    == Commands \cup {"reinit_done"}

(* A line: the command it answers, whether it is an echo of it, whether it *)
(* does not begin with ERR, and whether that command is the one sent last. *)
Lines  == [to : Commands, echo : BOOLEAN, ok : BOOLEAN, latest : BOOLEAN]
NoLine == [to |-> "none", echo |-> FALSE, ok |-> TRUE, latest |-> FALSE]

Orders == [cmd : Commands, garbled : BOOLEAN, latest : BOOLEAN]

VARIABLES
    call,         \* per thread: the operation it is in, or "none"
    agenda,       \* per thread: the steps left of that operation
    cmd_mtx,      \* the holder of MCU::cmd_mtx
    waiting,      \* the threads inside cv.wait_for of execute_command
    cmd_response, \* the slot for a received line
    rx_line,      \* the beginning of a line whose rest has not come
    toDev, toHost, \* commands and lines in flight
    dev,          \* the MCU: it has been reset; it echoes; it holds the
                  \* beginning of a command
    process,      \* "terminated" after an exception nobody catches
    env           \* the environment of this behaviour, one of Envs

threadVars == <<call, agenda, cmd_mtx, waiting>>
readerVars == <<cmd_response, rx_line>>
wireVars   == <<toDev, toHost, dev>>
vars == <<threadVars, readerVars, loopVars, wireVars, process, env>>

TypeOK ==
    /\ call \in [Threads -> {"none", "round", "set_cp_state"}]
    /\ agenda \in [Threads -> Seq(Steps)]
    /\ cmd_mtx \in Threads \cup {NoThread}
    /\ waiting \subseteq Threads
    /\ {cmd_response, rx_line} \subseteq Lines \cup {NoLine}
    /\ LoopTypeOK
    /\ toDev \in Seq(Orders) /\ Len(toDev) <= QueueBound
    /\ toHost \in Seq(Lines)
    /\ dev \in [reset : BOOLEAN, echo : BOOLEAN, cut : BOOLEAN]
    /\ process \in {"running", "terminated"}

Init ==
    /\ call = [t \in Threads |-> "none"]
    /\ agenda = [t \in Threads |-> <<>>]
    /\ cmd_mtx = NoThread
    /\ waiting = {}
    /\ cmd_response = NoLine /\ rx_line = NoLine
    /\ LoopInit
    /\ toDev = <<>> /\ toHost = <<>>
    /\ env \in Envs
    /\ dev = [reset |-> FALSE, echo |-> "echo" \in env, cut |-> FALSE]
    /\ process = "running"

-----------------------------------------------------------------------------
(* The query thread and the threads that call set_cp_state.                *)

Reinit == <<"reset", "echo off", "auto_plug on", "reinit_done">>

Program(op) ==
    [round        |-> (IF reinit THEN Reinit ELSE <<>>) \o <<"get_voltages">>,
     set_cp_state |-> <<"set_ce_state">>][op]

Busy(t)    == agenda[t] # <<>>
Current(t) == Head(agenda[t])
Advance(t) == agenda' = [agenda EXCEPT ![t] = Tail(@)]

(* The scope of the lock is left: at the end or by an exception.           *)
Leave(t) ==
    /\ agenda' = [agenda EXCEPT ![t] = <<>>]
    /\ call' = [call EXCEPT ![t] = "none"]
    /\ cmd_mtx' = NoThread

(* Nobody catches what the query thread throws: std::terminate.            *)
Throw(t) ==
    IF t = Query
    THEN process' = "terminated" /\ UNCHANGED <<call, agenda, cmd_mtx>>
    ELSE Leave(t) /\ UNCHANGED process

QueryWake ==
    /\ call[Query] = "none"
    /\ tx_enabled
    /\ call' = [call EXCEPT ![Query] = "round"]
    /\ UNCHANGED <<agenda, cmd_mtx, waiting, readerVars, loopVars, wireVars,
                   process>>

(* The framework runs a command; nothing makes it wait for a connection.   *)
ClientCall(c) ==
    /\ call[c] = "none"
    /\ dev.reset \/ "early" \in env
    /\ call' = [call EXCEPT ![c] = "set_cp_state"]
    /\ UNCHANGED <<agenda, cmd_mtx, waiting, readerVars, loopVars, wireVars,
                   process>>

(* Mutated form of Lock: cmd_mtx is not waited for.                        *)
LockUnguarded(t) ==
    /\ call[t] # "none" /\ ~Busy(t)
    /\ cmd_mtx' = t
    /\ agenda' = [agenda EXCEPT ![t] = Program(call[t])]
    /\ UNCHANGED <<call, waiting, readerVars, loopVars, wireVars, process>>

Lock(t) ==
    /\ call[t] # "none"
    /\ cmd_mtx = NoThread
    /\ cmd_mtx' = t
    /\ agenda' = [agenda EXCEPT ![t] = Program(call[t])]
    /\ UNCHANGED <<call, waiting, readerVars, loopVars, wireVars, process>>

Transmits(t) ==
    /\ Busy(t) /\ Current(t) \in Commands
    /\ t \notin waiting

(* Mutated forms of TakeLine: an ERR line is thrown before the slot is     *)
(* emptied; a part of the line is left in it.                              *)
TakeLineKeepsErr(t) ==
    /\ cmd_response # NoLine
    /\ IF cmd_response.ok
       THEN /\ cmd_response' = NoLine
            /\ Advance(t) /\ UNCHANGED <<call, cmd_mtx, process>>
       ELSE Throw(t) /\ UNCHANGED cmd_response

TakeLinePartly(t) ==
    /\ cmd_response # NoLine
    /\ cmd_response' = [cmd_response EXCEPT !.to = "none"]
    /\ IF cmd_response.ok THEN Advance(t) /\ UNCHANGED <<call, cmd_mtx, process>>
                          ELSE Throw(t)

(* The slot is emptied; a line that begins with ERR becomes an exception.  *)
TakeLine(t) ==
    /\ cmd_response # NoLine
    /\ cmd_response' = NoLine
    /\ IF cmd_response.ok THEN Advance(t) /\ UNCHANGED <<call, cmd_mtx, process>>
                          ELSE Throw(t)

(* What is under way when a command is sent does not answer it.            *)
Outdated(q) == [i \in DOMAIN q |-> [q[i] EXCEPT !.latest = FALSE]]

Order(c) == [cmd |-> c, garbled |-> dev.cut, latest |-> TRUE]

(* execute_command with the whole line written.  The slot is not emptied   *)
(* before, and the wait looks at it before it waits: a line left there     *)
(* completes the command at once.                                          *)
Execute(t) ==
    /\ Transmits(t)
    /\ io = "open"
    /\ Len(toDev) < QueueBound
    /\ toDev' = Append(Outdated(toDev), Order(Current(t)))
    /\ toHost' = Outdated(toHost)
    /\ dev' = [dev EXCEPT !.cut = FALSE]
    /\ \/ TakeLine(t) /\ UNCHANGED waiting
       \/ /\ cmd_response = NoLine
          /\ waiting' = waiting \cup {t}
          /\ UNCHANGED <<call, agenda, cmd_mtx, cmd_response, process>>
    /\ UNCHANGED <<rx_line, loopVars>>

(* A failed write is logged; execute_command returns an empty response,    *)
(* with which each operation carries on.                                   *)
ExecuteFails(t) ==
    /\ Transmits(t)
    /\ io \in {"created", "broken", "closed"}
    /\ Advance(t)
    /\ UNCHANGED <<call, cmd_mtx, waiting, readerVars, loopVars, wireVars,
                   process>>

(* So is a short one, but the MCU has the beginning of the command.        *)
ExecuteShort(t) ==
    /\ Transmits(t)
    /\ io = "open" /\ "partial" \in env
    /\ Advance(t)
    /\ dev' = [dev EXCEPT !.cut = TRUE]
    /\ UNCHANGED <<call, cmd_mtx, waiting, readerVars, loopVars, toDev, toHost,
                   process>>

(* MCU::io is NULL or points at a gensio that has been destroyed: the call *)
(* is undefined; it crashes or, on dead memory, reports an error.          *)
ExecuteDangling(t) ==
    /\ Transmits(t)
    /\ \/ io \in {"null", "gone"} /\ process' = "terminated" /\ UNCHANGED agenda
       \/ io = "gone" /\ Advance(t) /\ UNCHANGED process
    /\ UNCHANGED <<call, cmd_mtx, waiting, readerVars, loopVars, wireVars>>

Responded(t) ==
    /\ t \in waiting
    /\ TakeLine(t)
    /\ waiting' = waiting \ {t}
    /\ UNCHANGED <<rx_line, loopVars, wireVars>>

(* 250 ms are long compared with an exchange, so a wait times out only     *)
(* when no line can come, unless the MCU may be slow.                      *)
TimesOut(t) ==
    /\ t \in waiting
    /\ cmd_response = NoLine
    /\ \/ toDev = <<>> /\ toHost = <<>>
       \/ io # "open" \/ "slow" \in env
    /\ waiting' = waiting \ {t}
    /\ Throw(t)
    /\ UNCHANGED <<readerVars, loopVars, wireVars>>

ReinitDone(t) ==
    /\ Busy(t) /\ Current(t) = "reinit_done"
    /\ reinit' = FALSE
    /\ Advance(t)
    /\ UNCHANGED <<call, cmd_mtx, waiting, readerVars, io, main, wakes,
                   tx_enabled, wireVars, process>>

(* Mutated form of Return: cmd_mtx is not unlocked.                        *)
ReturnHoldsLock(t) ==
    /\ cmd_mtx = t /\ ~Busy(t)
    /\ call' = [call EXCEPT ![t] = "none"]
    /\ UNCHANGED <<agenda, cmd_mtx, waiting, readerVars, loopVars, wireVars,
                   process>>

Return(t) ==
    /\ cmd_mtx = t /\ ~Busy(t)
    /\ Leave(t)
    /\ UNCHANGED <<waiting, readerVars, loopVars, wireVars, process>>

ThreadStep(t) ==
    \/ Execute(t) \/ ExecuteFails(t) \/ ExecuteShort(t) \/ ExecuteDangling(t)
    \/ Responded(t) \/ TimesOut(t) \/ ReinitDone(t) \/ Return(t)

-----------------------------------------------------------------------------
(* The main thread: MCU::read and the connection loop.                     *)

(* A line is complete.  It replaces what is in the slot.  A beginning left *)
(* from before is not part of it but is read as such: "ERR" counts only if *)
(* that beginning contains it whole.                                       *)
ReadLine ==
    /\ main = "wait" /\ io = "open"
    /\ toHost # <<>>
    /\ toHost' = Tail(toHost)
    /\ rx_line' = NoLine
    /\ IF rx_line = NoLine
       THEN cmd_response' = Head(toHost)
       ELSE \E ok \in {rx_line.ok, TRUE} :
               cmd_response' = [Head(toHost) EXCEPT !.ok = ok]
    /\ UNCHANGED <<threadVars, loopVars, toDev, dev, process>>

(* The connection breaks, perhaps within a line: rx_line keeps its         *)
(* beginning.                                                              *)
ReadError ==
    /\ "drop" \in env
    /\ Break
    /\ rx_line' \in {rx_line} \cup {toHost[i] : i \in {1} \cap DOMAIN toHost}
    /\ toHost' = <<>>
    /\ toDev' \in {toDev, <<>>}
    /\ UNCHANGED <<threadVars, cmd_response, dev, process>>

OthersUnchanged == UNCHANGED <<threadVars, readerVars, wireVars, process>>

Create    == NewGensio /\ OthersUnchanged
Open      == OpenGensio /\ OthersUnchanged
OpenFails == "no_device" \in env /\ OpenThrows /\ OthersUnchanged
Woken     == WaitReturns /\ OthersUnchanged
Destroy   == FreeGensio /\ OthersUnchanged

Close ==
    /\ CloseGensio
    /\ toHost' = <<>>
    /\ UNCHANGED <<threadVars, readerVars, toDev, dev, process>>

(* Five seconds pass: no wait lasts as long, and unless it is slow the MCU *)
(* has dealt with what was sent.                                           *)
SleepDone ==
    /\ \A t \in Threads : ~Busy(t)
    /\ call[Query] = "none"
    /\ toDev = <<>> \/ "slow" \in env
    /\ Retry /\ OthersUnchanged

MainStep == Create \/ Open \/ Woken \/ Close \/ Destroy \/ SleepDone

-----------------------------------------------------------------------------
(* The MCU, from how the driver uses it.  Its lines reach the host only    *)
(* over an open connection.                                                *)

(* It answers OK, or ERR to what it does not understand or does not do.    *)
Accepts(o) == IF o.garbled THEN {FALSE}
              ELSE IF o.cmd = "set_ce_state" /\ "refuse" \in env THEN BOOLEAN
              ELSE {TRUE}

Line(o, echo, ok) == [to |-> o.cmd, echo |-> echo, ok |-> ok, latest |-> o.latest]

DevServe ==
    /\ toDev # <<>> /\ toDev' = Tail(toDev)
    /\ LET o == Head(toDev)
           echoed == IF dev.echo THEN <<Line(o, TRUE, TRUE)>> ELSE <<>>
       IN  /\ \E ok \in Accepts(o) :
                 IF io = "open"
                 THEN /\ Len(toHost) < QueueBound
                      /\ toHost' = toHost \o echoed \o <<Line(o, FALSE, ok)>>
                 ELSE UNCHANGED toHost
           /\ dev' = [dev EXCEPT
                         !.reset = @ \/ (~o.garbled /\ o.cmd = "reset"),
                         !.echo = IF o.garbled THEN @
                                  ELSE \/ o.cmd = "reset" /\ "echo" \in env
                                       \/ o.cmd # "echo off" /\ @]
    /\ UNCHANGED <<threadVars, readerVars, loopVars, process>>

WireLoses ==
    /\ "loss" \in env
    /\ \/ toDev # <<>> /\ toDev' = Tail(toDev) /\ UNCHANGED toHost
       \/ toHost # <<>> /\ toHost' = Tail(toHost) /\ UNCHANGED toDev
    /\ UNCHANGED <<threadVars, readerVars, loopVars, dev, process>>

-----------------------------------------------------------------------------

Running ==
    \/ QueryWake
    \/ \E c \in Clients : ClientCall(c)
    \/ \E t \in Threads : Lock(t) \/ ThreadStep(t)
    \/ ReadLine \/ ReadError
    \/ MainStep \/ OpenFails
    \/ DevServe \/ WireLoses

Terminated == process = "terminated" /\ UNCHANGED vars

Next == \/ process = "running" /\ Running /\ UNCHANGED env
        \/ Terminated

Spec == Init /\ [][Next]_vars

(* As in KL02Link: what can go on does; cmd_mtx is not fair, but the query *)
(* thread sleeps 200 ms between two rounds without it; the MCU answers, the*)
(* gensio is served and an open that keeps being retried succeeds.         *)
While(A) == process = "running" /\ A /\ UNCHANGED env

Fairness ==
    /\ WF_vars(While(QueryWake))
    /\ \A t \in Threads : SF_vars(While(Lock(t))) /\ WF_vars(While(ThreadStep(t)))
    /\ WF_vars(While(ReadLine))
    /\ SF_vars(While(MainStep)) /\ SF_vars(While(Open))
    /\ WF_vars(While(DevServe))

FairSpec == Spec /\ Fairness

-----------------------------------------------------------------------------
(* Properties.                                                             *)

(* Thread t completes its command with the line in cmd_response.           *)
Completes(t) == /\ Busy(t) /\ cmd_mtx = t
                /\ cmd_response # NoLine /\ cmd_response' = NoLine

(* ... which was sent in answer to that very command.                      *)
Own(t) == /\ t \in waiting
          /\ cmd_response.latest /\ ~cmd_response.echo
          /\ cmd_response.to = Current(t)

(* MCU.cpp:76: "wait until we received the response to this request, or    *)
(* timeout": a command completes only with the line that answers it.       *)
ResponseIsToRequest == [][\A t \in Threads : Completes(t) => Own(t)]_vars

(* ... which it does as long as the MCU neither echoes nor is slow: the    *)
(* lines carry no hint, the pairing rests on the slot being empty whenever *)
(* a command is sent, across broken connections, lost lines and exceptions.*)
Prompt == env \cap {"slow", "echo"} = {}

PairedIfPrompt ==
    [][\A t \in Threads : Prompt /\ Completes(t) => Own(t)]_vars

(* set_cp_state always comes back to the framework.                        *)
CommandReturns ==
    \A c \in Clients :
        call[c] # "none" ~> call[c] = "none" \/ process = "terminated"

(* That the MCU refuses a set_ce_state is its caller's problem: as long as *)
(* it answers and the connection holds, the process goes on and the        *)
(* voltages keep being measured.  (For the connection see ConnectionLoop,  *)
(* ClosedInErrorOnly.)                                                     *)
Harmless == env \subseteq {"refuse"}

KeepsMeasuring ==
    Harmless => []<>(/\ cmd_response.to = "get_voltages" /\ cmd_response.latest
                     /\ process = "running")

(* The driver serves its callers one at a time: it implements              *)
(* RequestService, whatever goes wrong with the connection.                *)
Phase(t) == IF t \in waiting THEN "waiting"
            ELSE IF cmd_mtx = t THEN "serving"
            ELSE IF call[t] # "none" THEN "called" ELSE "idle"

Promise == INSTANCE RequestService
               WITH Users <- Threads, phase <- [t \in Threads |-> Phase(t)]

ServesOneAtATime == Promise!Spec

=============================================================================
