# Verification of the board drivers in everest-mhei

This directory holds TLA+ modules that model the drivers of this repository, the TLC
configurations that check them on small instances, and TLAPS proofs of what matters most for
every instance. The reference is the code under `src/`; `PROJECT.json` names, for every
definition, the lines it stands for.

## 1. The system

The repository is a set of EVerest modules. Those with a serial device share one architecture: a
driver object with a *query thread*, framework threads that run the commands of the module, and
the module's main thread, which alternates between a *connection loop* and the gensio callbacks
it serves while it waits in it.

| component | state | operations and interactions | what is hard | what makes it correct |
|---|---|---|---|---|
| **KL02 driver, link** (`lib/src/KL02.cpp`) | `cmd_mtx`, `tx_mtx`, `expected_svc_response`, `last_svc_response`, `pwm_status`, `reinit`, `tx_enabled`, `io`, receive buffer | query thread: RESET, PP pull-up, then a round of measurements each 200 ms; commands: PWM on/off, duty cycle, CP state; `read` callback | one expected/last pair for all threads; `last` is never reset; timeouts throw; `io` changes under the threads | a wait belongs to the thread that asked; what is sent is awaited; a new connection is initialised before it is used; commands return; measuring resumes |
| **KL02 driver, evaluation** (`KL02.cpp`, `KL02USSProtocol.cpp`) | previous CP state, ampacity and duty cycle, error latches, `is_enabled` | bands for CP, PP and duty cycle; signals on changes and errors; `enable`/`disable` | only changes are passed on; latches; boundaries; `disable` on another thread | bands meet and match the standard; latches follow the measurements |
| **EVAchargeSEEVSE** (`evse_board_support`) | `cp_current_state`, `pp_ampacity`, fault flags, active errors | callbacks publish states and raise/clear errors; `handle_enable`, `handle_pwm_*` | shared with the framework thread without a lock; four flags of two objects for the same faults | flags and errors agree; removal of a plug under load is reported |
| **EVAchargeSEEV** (`ev_board_support`) | the same, `bsp_measurement`, `requested_cp_state`, the resistors of the KL02 | callbacks; `handle_enable`, `handle_set_cp_state` | commands that fail half-way; a measurement published in parts | the published measurement is current; the resistors are those asked for |
| **Connection loop** (`ready()` of both, and of MCSTesterEV) | the gensio, pending wakes | create, open, wait, close, destroy, sleep 5 s | the driver keeps a raw pointer to the gensio; errors while other threads use it | a broken connection comes back |
| **MCSTesterEV, link** (`MCU.cpp`) | `cmd_mtx`, `rx_mtx`, `cmd_response`, `rx_line` | `execute_command` for the query thread and `set_cp_state`; `read` collects lines | answers carry no identification; one slot, not emptied before a command | a command completes with the answer to it |
| **MCSTesterEV, ev_board_support** | as EVAchargeSEEV | voltages of ID and CE to events, ampacity and a simulated duty cycle | two memories of each value, reset separately | what is published is what the voltages mean |
| **USSFrame** (`lib/src/USSFrame.cpp`) | receive buffer, `valid` | `push_back` searches for a frame in a stream with garbage | when garbage is dropped | a frame that was sent is found |
| **StronglinkSL032TokenProvider** | frame buffer, `still_to_discard`, `reported_tag`, the gensio | a query thread polls an RFID reader, `read` discards the echo of the polls, collects an answer and reports new tags; the connection loop | counter shared by two threads and counted before the write; a fixed buffer; answers cut, late, repeated | each tag is reported once, in order, and in the end; what is discarded is the echo |
| **DummyEvSlac** | `state`, countdown | `ready` looks once a second and publishes MATCHED 5 s after a trigger; `handle_reset`, `handle_trigger_matching` | both threads change `state` without a lock | what is published is the state; no link after a reset; a matching ends |
| **SimpleSwitch3ph1phAPI** | limits, whether they were pushed | MQTT command, energy flow request, a push every 10 s, all under one mutex | the first command may precede the first request; a call of the leaf may throw | the limits set last reach the leaf |
| **GenericEVDevTokenProvider, SimpleEVDevTxStopBtn** | the token so far | the same loop over `poll` and `libevdev_next_event`; a key released is a character, the end of a token, or a request to stop | batches of events; a kernel queue that overflows; a device that goes | one token per Enter, as typed; one stop per press |
| **BaptismData, BaptismDataTest, GensioEVerestLogger** | none of interest | file reads, printing, logging | pure I/O | - |

## 2. Modules

```
RequestService            what a driver promises to its callers (abstract)
   ^  implemented by  KL02Link, MCULink (checked and proved)
ConnectionLoop            the loop shared by all serial modules
   ^  extended by
KL02Link                  link of the KL02 driver + loop + the KL02 itself
   KL02LinkProofs         its inductive invariants, that measurements are awaited and come
                          after a RESET, and that it implements RequestService
MCULink                   link of the MCS tester's driver + loop + the MCU
   MCULinkProofs          its inductive invariant, the pairing of lines and commands,
                          and that it implements RequestService
USSFrame                  frames of the KL02, and the search for one in a buffer
   ^  extended by  KL02Wire
KL02Evaluation            bands, words and filters of the KL02 driver, as operators
   ^  extended by
KL02Wire                  from the bytes on the wire to the values of the driver
   KL02WireProofs         an answer is found and handled once; a deaf buffer stays deaf;
                          the bands have no gap
EvseBoardSupport          EVSE module: reader callbacks against command handlers
   EvseBoardSupportProofs its inductive invariant
EvBoardSupport            EV module: the same, with duty cycle and resistors
MCSBoardSupport           EV module of the MCS tester
   EvBoardSupportProofs   the inductive invariants of these two, composed in MCEvBoardSupport
EnableCommands            lemmas the two proofs share: what a command handler has left to
                          do, and what each of its steps is followed by
SL032Reader               the RFID reader's module, with ConnectionLoop
   SL032ReaderProofs      tags are reported once and in order; driver and reader stay in step
DummyEvSlac               )
SimpleSwitch3ph1phAPI     ) the small modules
EVDevInput                )
   MCModulesProofs        their inductive invariants
MC*                       symmetry sets and input sets for TLC; MCEvBoardSupport and
                          MCModules put several of the modules above into one run
```

### RequestService

The abstract driver: a caller gets in line (`Call`), one of them is served at a time, at most one
request is awaited, and by the one that is served. It does not promise that a request is awaited (a
write that is cut short is not) nor how a wait ends: with an answer or with an exception.

### ConnectionLoop

`main` is the statement `ready()` is about to execute, `io` what the driver's raw pointer points
at (`"gone"` after the gensio was destroyed), `wakes` the pending wakes of the waiter. `freed()`
wakes the waiter as well, and as the destructor of a gensio runs it, nobody waits then: the wake
stays, and the next `wait(1)` returns at once. The modules that extend this one conjoin what else
happens in each step. `ClosedInErrorOnly` states what the comment in `ready()` says of it (section 5).

### KL02Link

`call[t]` is the operation thread `t` is in and `agenda[t]` what is left of it: its requests, the
checks of `pwm_status` between them and the end of the initialisation. `Lock` is the
`scoped_lock` on `cmd_mtx`; the operation's program is fixed there, because that is where the code
reads `reinit` and `pwm_status`. `tx_frame` is `TxWrite` (write, set `expected`, first look at the
predicate, all under `tx_mtx`), then `TxAnswered` or `TxTimeout`; a failed or short write is
`TxWriteFails` (either returns to the operation as if the request had been answered), a write
through a pointer that is NULL or dangles is `TxDangling`. ACK and QUIT, which the reader
writes, may be cut short as well. `read` is split
where it takes `tx_mtx`: `ReadFrame` evaluates, `ReadAnnounce` sets `last`. An exception leaves the
operation's scope and goes to the caller; in the query thread nobody catches it and the process is
`"terminated"`. The KL02 (`Dev*`) is modelled from what the driver relies on: it answers each
request with the service's reply, RESET enters a bootloader that reports with one byte and leaves
on QUIT or by itself. `reset_answered` is history (`NoteReset`): over the connection being made, or
made, the KL02 has reported a RESET, or its RESET was not awaited because the last thing the KL02
said over an earlier connection was such a report.

What may go wrong is a set of `Mishaps`, fixed for a behaviour: the constant `Envs` lists the sets
a run considers, the variable `env` is the one chosen. A property that needs calm conditions says
so by a condition on `env`, so one run shows both what always holds and what holds then.

### MCULink

The same actors and structure, but a line does not say what it answers. `cmd_response` is the slot;
each line carries, as history, the command it answers and whether that command is the latest one.
`Execute` is `execute_command` up to its first look at the slot (under `rx_mtx` all the time), and
takes what is there; `ReadLine` is one turn of the loop in `read`, which overwrites the slot. The
MCU may echo until `echo off`, be slow, or answer ERR to `set_ce_state`.

### The board support modules

`EvseBoardSupport`, `EvBoardSupport` and `MCSBoardSupport` have the fields of driver and module as
variables, the thread that evaluates (the reader of the KL02, the query thread of the MCU) as a
sequence of steps split at every access to state the framework thread also touches, and the command
handler as a list `todo` of steps. `previous_ampacity` and `pp_ampacity` are asked for a value in one
step and `value()` is taken in another (`PpValid`/`PpCompare`, `PpChange`/`PpLog`,
`PpPublish`/`PpCheck`); if it is gone by then, the exception leaves the callback (`thrown`).
Measurements are pairs of bands, chosen by constants.

Environments: `preemption` lets the handler be interrupted anywhere inside `disable`; without it
`disable`, which takes microseconds, does not meet an evaluation. `defects`/`glitch` allow
measurements that contradict each other. `reconnect` lets the query thread of the KL02 send the
RESET of a new connection (`Reset`). `partial` lets a request be cut short.

History: `overlapped` (EVSE), an evaluation was under way when the driver was disabled last; a later
disable that meets none ends that, because both sides forget everything they have. What became of
the last request for a CP state (the two EV modules): `failed`, an exception said so; `unsent`,
`set_cp_state` returned although nothing was sent; `lost`, the RESET of a new connection took the
resistors back to A, whatever `requested_cp_state` says.

`MCEvBoardSupport` checks the two modules that implement `ev_board_support` together. A behaviour is
one of either (`focus`); fields both have are the same variables, the rest of the other module stays
where it is.

### SL032Reader

The query thread (`QueryCount` counts the echo, `QueryWrite` sends), `read` (`ReadBegins` takes the
counter, `ReadDiscards` puts the rest back or `ReadCollects` searches the buffer and reports) and the
connection loop, an instance of `ConnectionLoop`. A message on the wire is a row of cells, a cell
being some of its bytes; gensio delivers any number of cells at a time. `check_frame` is the search
of `USSFrame` with another preamble, but `clear` keeps what follows a frame, so that a second answer in
the buffer waits for the next call. The buffer has a fixed size, and running over it is undefined
behaviour (`crashed`), as is a write through a pointer to a destroyed gensio. Who holds a tag to the
reader (`Place`, `Remove`) and the reader (`Answer`, `AnswerCollision`) are external. `answered`,
`reports` and `faults` are history. Because of the wake that stays, connections are given up again
and again once one was: `connections` counts them, and a behaviour ends with the last (`Ended`).

### The small modules

`DummyEvSlac`: `Look` is one turn of the loop of `ready`, `Match` to `PublishLink` the steps of its
branch, each a separate access to shared state; `command` is the next step of a handler.
`publish_state` takes its argument by value, so the state is copied in one step (`CopyMatched`,
`CopyState`; `ready_copy`, `handler_copy`) and the copy published in another. The two threads
interleave freely. `overlapped` is history: the last of the two to begin found the other at work.
`SimpleSwitch3ph1phAPI`: one action per callback, since all of them hold the mutex.
`EVDevInput`: the kernel's queue (`Press`, `Repeat`, `Release`, an overflow leaves `Dropped` and the
event that did not fit) and the loop both modules have; `consumer` says what it does with a key.
`MCModules` runs one of the three in each behaviour (`focus`).

### KL02Evaluation

The pure part of `KL02.cpp` and `KL02USSProtocol.cpp`: words, bands, CP states with their errors, PP
codings, the duty cycle filter, in the units of the wire.

### USSFrame and KL02Wire

`USSFrame` is the frame on the level of bytes with the real limits: `NewFrame` builds one,
`check_frame` looks for one in a buffer, `push_back` and `clear` are what `KL02::read` calls.
`KL02Wire` puts the reader around it: `line` is what gensio has yet to deliver, `rx_frame` the
receive buffer, `handled` the frames handled since the last answer was sent. `Respond` is the KL02
(external): it sends the same answer `Rounds` (2) times, the first time after some noise. `ReadChunk`
is one call of `read`, with a chunk of any of the sizes considered or all there is; `ReadAck` the
call with the one byte of the bootloader. A frame that was found is handled and then the whole
buffer dropped, what follows the frame included, as `read` does. `KL02Link` abstracts all of this
to one reply per request. In which order the KL02 sends the two bytes of a word is not known from
this repository, and the comment at `KL02USSProtocol.cpp:281` doubts the one the driver reads:
`InBytes` assumes the driver's, no property about frames depends on it, and none says that the
driver's values are those the KL02 measured. The properties of bands and filter are about the words
the driver has read.

## 3. What is checked

| run | question | instance |
|---|---|---|
| `link_mishaps` | With everything going wrong, does a wait stay with the thread that asked (`WaiterOwnsAnswer`, `ExpectationStable`), is the driver a `RequestService` (`ServesOneAtATime`)? Yes. Is a measurement preceded by a RESET the KL02 reported (`MeasuresInitialised`), and awaited (`MeasurementIsAwaited`)? Yes, unless writes are cut short. | EV, two framework threads, two environments, 574 000 states |
| `link_recover` | As long as connection and KL02 work: does no wait of the query thread run into its timeout, and does measuring go on whatever the commands do (`KeepsMeasuring`)? With connections that break and writes that are cut short: does every command come back (`CommandReturns`; the end of the process counts as one)? Yes. | EVSE with socket, two framework threads, environments `{}` and `{drop, partial}`, fair, 163 000 states |
| `open_failure_flaps` | Is a connection given up only in case of an error, as `ready()` says (`ClosedInErrorOnly`)? No: after an open that failed every later connection is closed at once. | a device that is away for a time |
| `cable_unawaited` | Does `tx_frame` wait for the response, as its comment says? No: with an attached cable GET_UCP follows GET_UCP and the answer to the first counts for the second. | EVSE with cable, nothing goes wrong |
| `drop_terminates` | Is a broken connection re-established, as `ready()` says? No: the query thread's wait runs into its timeout, nobody catches the exception. | fair, connection may break |
| `wire` | Is an answer handled, once and as it was sent, whatever chunks it comes in and whatever garbage without a start byte precedes it (`AnswerIsHandled`, `HandledIsSent`)? Do bands and filter mean what the standard says (`CpBandIsTolerance`, `PpBandsMeet`, `DutyIsMeaningful`)? Yes, with the one exception `Deaf` names. | every word in one piece; eight words of four services with noise, in pieces of 1 to 6 bytes; noise up to 300 bytes; 346 000 states |
| `evse` | Do flags and errors agree (`FaultsAgree`), are CP errors current (`CpErrorFollowsMeasurement`), does a measured cable end a proximity fault (`ProximityRecovers`)? Yes, in any interleaving. Is the ampacity the same for driver and module and never gone when its value is taken (`AmpacityKnownToBoth`), and, if no CP measurement is faulty, the state tracked and the removal of a plug reported (`CpStateTracked`, `PlugRemovalReportedUndisturbed`)? Yes, unless an evaluation was under way when the driver was disabled last. | two cables, all kinds of CP readings, one of them with a voltage between two bands; `disable` interrupted anywhere, with and without faulty measurements; 3.2 million states |
| `plug_removal_missed` | Is a plug removed under load always reported, as the module says? No: a CP fault hides the state behind it. | faulty readings |
| `ev` | For both implementations of `ev_board_support`: does a duty cycle error end (`DutyErrorEnds`), is the published measurement current (`MeasurementCurrent`), do the resistors follow the commands (`PresentsRequested`), is the published state the one the voltages mean (`CpStateTracked`)? Yes, with the exceptions the properties name. | KL02: one cable, three duty cycles, five pairs of CP bands; MCU: all bands; failing commands, short writes, a reset, preemption; 2.6 million states |
| `mcs_link` | Does a command complete only with the line that answers it, unless the MCU echoes or is slow (`PairedIfPrompt`)? Is the driver a `RequestService` (`ServesOneAtATime`), do commands return (`CommandReturns`)? As long as the connection holds, does measuring go on although the MCU refuses commands (`KeepsMeasuring`)? Yes. | one framework thread, four environments, fair, 44 000 states |
| `sl032` | Is a tag reported once and in the order of tags, whatever fails (`ReportsInOrder`)? As long as nothing fails, is what is reported what the last answer said, are echoes and only echoes discarded, does the buffer suffice (`UpToDate`)? As long as the connection is never given up, is a tag that stays reported and its absence noted in the end, whatever came late or was cut short (`TagIsReported`)? Yes. | two tags placed twice, one failure, two environments, an echo, every way to cut the line; fair, 362 000 states |
| `modules` | Does `DummyEvSlac` publish the state it is in, with a link after the whole countdown only (`LinkAgrees`), do its matchings end (`MatchingEnds`)? Do the limits set last reach the leaf (`LimitsReachLeaf`)? Are tokens and stops what was typed (`InputHandled`)? Yes, with the exceptions the properties name. | two limits, two leaves, two refusals; four keys, a queue of three events, one overflow; fair, 185 000 states |

Every property of a passing run has a mutant of the modelled code that violates it (operators
marked *mutated form*, listed in `PROJECT.json`).

### Bounds

- `QueueBound` 1 or 2 bounds requests and replies in flight. The driver awaits one request at a
  time; a second one in flight needs an unawaited request or a late answer, a third only repeats
  that. QUIT is not bounded: the reader never waits.
- `WakeBound` 1 or 2 bounds pending wakes: a connection has one error and one `freed`, and one
  `wait(1)` takes one of them. A break or a failed open that would pass the bound does not happen;
  with 2, a connection may break while a wake of an earlier one is still there.
- One or two framework threads: all of them do the same, and `cmd_mtx` admits one; two suffice for
  one to wait while another is served and a third (the query thread) competes.
- Two cables (one where only change matters) suffice for a change from one to another; the readings
  are one representative of each combination of bands the code distinguishes, two states out of each
  class.
- `sl032`: a cell stands for about two bytes; a request has 2, an answer without a tag 3, one with a
  tag 4. What counts is that an echo is shorter than the shortest answer and that the buffer holds
  many of them. `MaxPlacements` 2 is a tag that comes back or is replaced by another, `MaxFaults` 1 a
  break, a short write or a late poll anywhere. `MaxConnections` 2 is the connection that failed and
  the one after it, which is given up at once and leaves its driver in the state every later one finds.
- `modules`: `QueueBound` 3 is the smallest queue that can hold a press, its release and a repeat,
  so that it overflows within a token; `TrimLength` 2 and `Trim` 1 stand for 10 and 2. Four keys make
  up two tokens.
- The lines, words and volts of the wire are abstracted to what the code distinguishes, except in
  `wire`.
- Noise in `wire`: every word goes over the wire once as an answer to GET_UCP, so the bands and the
  filter see all 65536. Noise and cutting matter to the search only through the positions of start
  bytes, the length byte behind them and the limits of 260 and 265 bytes: the noise considered has
  stray and doubled start bytes, frames cut short at each byte, and 255 to 300 bytes with start bytes
  first, second, in the middle, last or nowhere. Two answers suffice: what the first leaves in the
  buffer meets the second.

### Fairness and timing

Safety runs use no fairness. `FairSpec` assumes: a thread that can go on does (weak fairness); the
KL02 or MCU serves what it receives and the gensio delivers it; an `open_s` that keeps being retried
succeeds in the end (strong fairness on `Open`; `no_device` is a device that is away for a time).
The main thread runs the callbacks while it waits, and returns from a wait that was woken although
more is to be read (strong fairness on `MainStep`). `std::mutex` is not fair, but the query thread
sleeps 200 ms between two rounds without `cmd_mtx`, so a waiting thread finds it free again and
again: strong fairness on `Lock`. In `sl032` the reader gives a verdict again and again, that is,
not every answer is a collision (strong fairness on `Answer`). In `modules` the loop of
`DummyEvSlac` goes on, handlers or not (weak fairness on `ReadyStep`); a leaf asks for energy until
it has been told its limits.

Time enters in three places. A wait times out only if nothing that could answer it is under way, or
the connection is gone: 250 ms (10 s for RESET) are long compared with an exchange; the mishap `slow`
drops this. The 5 s sleep of the connection loop outlasts every wait but that for RESET
(`SleepDone`). The first command comes after the first RESET was answered, since the framework
starts commanding when the modules are ready; the mishap `early` drops this.

## 4. What is proved

Every invariant and every action property of the passing runs is stated by a theorem, for every set
of framework threads, every configuration, every set of environments and every bound that satisfies
the named assumptions: `LoopAssumption`, `LinkAssumption`, `EvseAssumption`, `MCULinkAssumption`,
`ReaderAssumption`, `WireAssumption`, and `Constants` of the two composed modules. They type the
constants, keep the query thread apart from the clients and a missing tag from the tags, and state
what the lengths and readings of the hardware have in common. One theorem,
`MeasurementsAwaited`, assumes something of the configuration.

- `KL02LinkProofs`: `TypeCorrect`, `WaiterOwned`, `ExpectationIsStable`. That a waiting thread owns
  the expectation is not inductive: a thread about to transmit would overwrite it. The strengthening
  `LockHeld` says that whoever has steps left holds `cmd_mtx`, so a second thread cannot be about to
  transmit; `WakeRoom` keeps the wake counter in its type. `IInv == TypeOK /\ LockHeld /\ WakeRoom /\
  WaiterOwnsAnswer` is preserved action by action.
  `Implements` is `Spec => ServesOneAtATime`: every step of the link is one of `RequestService` or
  leaves all phases alone. `IInv` is needed to know that the thread that writes is the one being
  served, `HolderCalled` that the holder of `cmd_mtx` is in a call. `ServedAlone` takes back through
  this refinement what `RequestService` promises: no two threads are inside an operation.
  `NothingBeforeReset` (`MeasuresInitialised`): the program of a round is fixed when it begins, and
  the connection may be another one when it is carried out. `QueryInv` says that what is left either
  begins with the rest of an initialisation or measures only, the latter with `reinit` false; and
  that when the main thread creates a new gensio, the query thread sleeps or waits for a RESET nobody
  answers, so that it holds no rest of an old round when `reinit` is set (every other wait has run
  into its timeout by then, which ended the process). That says of the KL02 itself nothing yet, as
  `reinit` is cleared by whoever gets past the RESET. `Opening` follows the old round into the new
  connection: while it is opened, the query thread does nothing or waits for that RESET, and `last` is
  not one. `ResetInv` takes this on: over an open connection the KL02 has reported a RESET, or the
  query thread has all of the initialisation before it (`Unreset`), because its RESET is the next
  request and neither skipped nor answered by an old report. It is here that a write cut short has
  to be excepted. `OInv` is the conjunction.
  `MeasurementsAwaited` (`MeasurementIsAwaited`): `tx_frame` looks at its predicate before it waits,
  so the answer evaluated last must be to another request. `WInv` has the two reasons why it is. Two
  requests in a row of a round differ, and the last of a round differs from the first of the next
  (`Chain`); and a measurement under way is the one the query thread waits for, and the only one
  (`OnTheWay`), so no late answer can put `last` back (`NewAnswer`). Requests of the commands do not
  disturb this, as none of them is a measurement (`ClientsMeasureNothing`). The assumption
  `Unrepeated` is what the code has to offer for that: the driver is an EV's or reads the PP voltage,
  else a round ends with the request the next one begins with, and the property is false
  (`cable_unawaited`); and nobody calls `get_duty_cycle`, which no module does. A write cut short
  makes `tx_frame` return without an answer and is excepted in the property.
- `EvseBoardSupportProofs`: `TypeCorrect`, `FaultsStayConsistent`, `CpErrorIsCurrent`,
  `CableEndsProximityFault`, `AmpacityIsKnown` (`AmpacityKnownToBoth`), `StateIsTracked`
  (`CpStateTracked`), `RemovalIsReported` (`PlugRemovalReportedUndisturbed`). `ReadingFits` ties the
  value under evaluation to the reader's step, `ProximityInv` states what each step of the reader
  knows about the fault flags, `Programs` what a handler may have left. None of these needs to know
  how the threads interleave. The last three do: `DisabledFirst` says that the later steps of a
  disable find the driver disabled, so that no evaluation begins among them, and only one that was
  under way before can still be there (`overlapped`). Without it, `AmpacityInv`: while the driver is
  enabled, the ampacity it remembers is the module's, or is being published; when it is disabled,
  nothing is evaluated and it is forgotten after its own step. `TrackedInv` says the same of the CP
  state, if no CP measurement is faulty. The removal of a plug follows from it: the module compares
  with the state it was told last.
- `EvBoardSupportProofs`: `TypeCorrect`, `DutyErrorsEnd`, `MeasurementIsCurrent`, `ResistorsFollow`,
  `StateIsTracked`, about `MCEvBoardSupport` and thus about both modules that implement
  `ev_board_support`, for all codings, readings and duty cycles of the types `Constants` names. Each
  module has an inductive invariant of its own; `IInv` is the one of the module that runs (`focus`).
  EVAchargeSEEV: `KL02DutyInv`: a duty cycle latched as an error is stored as the last one, so the
  next good one differs from it and clears the latch. The coding the driver remembers is the one
  published, except between the two halves of `on_pp_change`; what the resistors are is stated for
  each step a handler may be at, unless the request before was not sent (`unsent`). `TrackedInv` as
  above.
  MCSTesterEV: `Rounds` is what the query thread may have left of a round. `MCUAmpacityInv` and
  `MCUPresentsInv` hold in every environment; when nothing goes wrong (`CalmInv`), the published duty
  cycle is the simulated one, or will be published in this round, or the removal of the plug has
  changed one of the two ahead of the other (`MCUDutyInv`); the previous state is what the voltages
  mean, because the two memories of the ampacity agree when the event is made (`StateInv`,
  `CodingInv`).
- `KL02WireProofs`: `FrameIsFound`: if a frame starts at a position that is looked at and none starts
  before it, `push_back` moves it to the front, however the bytes were cut (`FrameAtFront`: a frame
  stays one when what precedes it goes). `DeafForever`: a buffer that is deaf keeps every byte and
  stays deaf, whatever comes. Both hold for all byte sequences. From them the properties of the run:
  while an answer is on its way, buffer and line together are garbage without a start byte and the
  answer behind it (`OnItsWay`); a chunk that completes the answer makes it a frame, one that does
  not leaves a part in which none is found, because an answer has no second start byte where one
  would matter (`Shape`); else the buffer is deaf. `WireInv` is that, with `Arrived` and `Lost`, and
  gives `AnswersAreHandled` and `OnlyTheSentIsHandled` for every noise, every chunk and every number
  of rounds.
  `CpBandsAreTolerances`, `PpBandsHaveNoGap` and `DutyHasMeaning` hold for each of
  the 65536 words by arithmetic over the ends of the bands. The checksum is used as an unknown
  function with a byte as its value: what a fold computes for every input is induction.
- `MCULinkProofs`: `TypeCorrect`; `PairsIfPrompt`, `Spec => PairedIfPrompt`; `Implements`,
  `Spec => ServesOneAtATime`. That a command takes its own line is not inductive, for a line says
  nothing of its command: `Paired` states that of the command a thread waits for there is at most
  one trace (`OneTrace`), the command on its way, its line on its way, or its line in the slot, and
  that while nobody waits the slot and an open connection are empty. What may be left is a command
  the MCU received before the connection broke; `SleepDone` deals with it before the next one.
  `IInv` (types, `LockHeld`, `WaiterBusy`, `WakeRoom`) supplies that there is one waiter, and is all
  the refinement needs.
- `SL032ReaderProofs`: `ReportedInOrder`, `Spec => []ReportsInOrder`. Receive buffer, chunk in hand and
  line form one row of cells, `Pipe`, that ends in what the reader would answer now, `Scene`. The
  verdicts in the row are in the order of the placements, none is later than `Scene`, and none is
  about a tag before the one reported last, nor about another tag of the same placement (`PipeOK`).
  An echo that is discarded, a frame that is searched for, a broken connection and a buffer that
  overflows take a part of the row away and keep that; a report advances `reported_tag` and
  `LastReport` together. No assumption on the echo, the counter or the cutting of the line is needed.
  `TypeCorrect` rests on `TInv`: the row consists of parts of messages about tags that were placed.
  `InStepWithReader` (`UpToDate`): as long as nothing fails, every exchange is a row of its own
  (`Exchange`): what was discarded, what is in the buffer, the chunk and the line make up one echo and
  one answer, and the counter is what is missing of the echo until the first read beyond it
  (`Underway`). The row is used up when the next request is counted, so the counter counts one echo
  only and the buffer holds less than an answer. `Sync` is `faults = 0 => InStep`; it includes that no
  wake is pending, since before a first failure no gensio is destroyed.
- `MCModulesProofs`: `TypeCorrect`, `LinkIsTrue` (`LinkAgrees`), `InputIsHandled` (`InputHandled`).
  `DummyEvSlac` (`SlacInv`): in any interleaving, `CountedDown`: the countdown and the time since the
  trigger add up to 5 s at least, unless a reset has stopped the countdown before. Unless `overlapped`,
  `OneAtATime`: one of the two threads is not at work, the other has in its copy the state as it
  stands (`ReadyAlone`, `HandlerAlone`), and when neither is at work, what is published is the state
  (`Agreed`). `EVDevInput`: the releases in the queue are the
  last keys typed, in the order in which they were typed (`Reads`), so the events handled are the
  first `n` keys, and `TokensRead` and `StopsRead` say what has been published after `n` keys. An
  overflow breaks the tie between the token collected and what was typed, until the next Enter; that
  each overflow spoils one token only needs that, whenever the tie is broken, there has been one
  more overflow than tokens spoilt.

Only model-checked: what holds under fairness (`KeepsMeasuring`, `CommandReturns`, `TagIsReported`,
`MatchingEnds`, `LimitsReachLeaf`), since liveness and `ENABLED` are beyond the prover.

## 5. What the checks found

The four `violation` runs are listed under `findings`. Of these, `open_failure_flaps` concerns all
serial modules (`KL02.hpp:137-139`, `MCU.hpp:95-97`, `StronglinkSL032Event.hpp:76-78` have the same
`freed`): after one failed open or one break every connection is closed as soon as it is open, and its
destruction leaves the wake that closes the next. Measuring does not go on then, nor need a tag be
reported; `KeepsMeasuring` and `TagIsReported` are therefore about connections that hold.

Besides these, while modelling:

- A write that is cut short or fails is logged and the request counts as done (`KL02.cpp:78-90`). If
  it is RESET, the query thread clears `reinit` (`KL02.cpp:22`) and measures with a KL02 that was
  never reset. If it is the request of `set_cp_state`, that returns normally although the resistors
  did not switch (`unsent`; the same in `MCU.cpp:59-74`, which returns an empty answer).
  `MeasuresInitialised`, `MeasurementIsAwaited` and `PresentsRequested` have this as an exception.
- `last_svc_response` survives a connection. If the last thing said over one was the report of a
  RESET, the RESET of the next is not awaited: PP pull-up and measurements follow at once, while the
  KL02 boots. The same holds of SET_UCP after SET_UCP (`cable_unawaited` is the general case).
- A thread that writes while the connection loop destroys the gensio uses a dangling pointer
  (`KL02.cpp:76`): `tx_enabled` is switched off after `wait`, but a thread may have looked before, and
  commands do not look. `TxDangling` ends the process or goes on as if the request were done; a write
  before the first gensio exists goes through NULL.
- `append_u16` has the comment that its byte order seems wrong compared to what is received
  (`KL02USSProtocol.cpp:281`); it writes what `read_u16` reads. Which of the two is right can not be
  decided from this repository.
- `execute_command` of the MCS tester says at `MCU.cpp:76` that it waits for the response to this
  request; with a slow MCU a late line completes the next command. `mcs_link.cfg` with `{"slow"}` as
  `Envs` and `ResponseIsToRequest` as its property shows it; a note, as nothing says the MCU is slow.
- If the framework thread disables the driver while the reader evaluates, the reader's `CpRemember`
  puts back the state `disable` has just forgotten: after the next enable that state counts as
  unchanged and is not published until it changes, so a plug removal in between is not reported.
  Likewise an ampacity that was seen to be there may be gone when `value()` is called, whose
  exception leaves the callback. (`overlapped`, the exception in the last three properties of
  `evse`.)
- `MCU::disable` leaves `Disconnected` as the previous state, so a plug that has gone when the module
  is enabled again is not reported. In `KL02.cpp`, where the same line stands, that value means *out
  of range*: a positive voltage between two bands with a negative one inside a band is no error there,
  counts as unchanged after a disable and is not published. `CpStateTracked` has it as an exception
  in all three modules.
- `KL02.cpp:144` says "setting the duty cycle only works if PWM is enabled, so enable it if not yet
  done", but `pwm_status` may be wrong. RESET switches PWM off and leaves `pwm_status` set, so a
  command before the RESET of a new connection makes later ones skip PWM_ENABLE. And a PWM_DISABLE
  that follows a PWM_ENABLE is not awaited (same service, see `cable_unawaited`): the next
  `set_duty_cycle` may look at `pwm_status` before the answer has changed it. `KL02Link` states the
  comment as `SetPwmFindsPwmOn`; `cable_unawaited.cfg` with that property instead of its own shows
  the second case, with `"early"` in `Envs` the first. For the same reason `require_on` may throw in a
  `set_duty_cycle` directly after a `pwm_disable`.
- The RESET of a new connection also takes an EV's resistors back to A; `requested_cp_state` is
  applied again only by the next command (`lost` in `PresentsRequested`).
- `DummyEvSlac`: after a reset during a matching the next countdown goes on where the last one was
  (`reset` in `LinkAgrees`). A reset between the look and the assignment of MATCHED is undone and a
  link reported; a reset between the copy of MATCHED and its publication leaves MATCHED published last
  with the state UNMATCHED (both are the exception `overlapped`).
- `SimpleSwitch3ph1phAPI`: the header calls `enforce_limits` a "helper to update the
  schedule/timestamp", but the schedule keeps the initial limits; a command pushes twice (lines 64
  and 65); an exception of the periodic push is caught by nobody and ends `ready` (`ended`); its doc
  names another topic than the code subscribes to.
- `GenericEVDevTokenProvider`, `SimpleEVDevTxStopBtn`: after the device has gone `poll` returns at
  once with POLLHUP, which nothing looks at (`Spin`); no error is reported unless the device goes
  between `poll` and the read. If `libevdev_new_from_fd` fails, `fd` stays valid and `ready` uses an
  uninitialised handle. After SYN_DROPPED nobody asks for the missed events and `id_token` keeps the
  first half of a token (`InputHandled`: one overflow spoils one token).
- `StronglinkSL032TokenProvider`: `err` is never reset; an answer that was read together with
  another one stays in the buffer until the next one arrives, so after a late answer every report
  is one poll late until an answer comes in two chunks; the search has the limits of `USSFrame` and
  becomes deaf in the same way, and a chunk is copied without a look at the room left.
- `MCU.cpp:161` says that PowerOn signals out-of-range; the code returns A before it gets there.
- If ID contradicts CE for one round, the MCS tester's published duty cycle stays at 100 % while the
  driver works with 5 % (`MeasurementCurrent` asks for `env = {}`).
- `USSFrame.cpp` lines 57-58 and 104-105 say that garbage is discarded. A buffer of 265 bytes and
  more without a start byte in its first 261, or with one at index 0 only that starts no frame, is
  never shortened, and frames are looked for in those 261 positions only: the driver hears nothing
  from then on, and the buffer grows (`Deaf`, the exception in `AnswerIsHandled`, proved permanent by
  `DeafForever`).
- After garbage was discarded the search is not repeated: a frame that is then in the buffer is found
  when the next bytes arrive.
- Noise that contains a start byte can swallow an answer, if it makes up a frame with its first
  bytes: `02 04 02 03` before `02 05 ...` is one; `clear` then drops the rest. `HandledIsSent`
  therefore asks for noise without start bytes.
- An `echo` or `slow` MCU puts `MCULink` one line behind for good, and an ERR meant for a client
  then ends the query thread and with it the process.

## 6. What is not modelled, and the plan

Destructors of the drivers (the modules never destroy them), tracing and logging, requests of the
protocol nobody sends, `handle_allow_power_on` and capabilities of the EVSE module (they publish
only), what `init` of the modules configures, the parsing of an MQTT command (one that cannot be
parsed changes nothing), the type of a token guessed from its length, an exception of
`call_stop_transaction`, an `interval_ms` of 0 in the token provider's configuration (it would poll
without a pause). `IgnoreEcho = FALSE` is covered by the proofs of `SL032ReaderProofs` but not run.
`InputHandled` counts tokens that were published but not typed; a token that is lost or published
twice after an overflow is not counted. The schedule `SimpleSwitch3ph1phAPI` pushes along with the
limits keeps its initial value and is left out. BaptismData, its test and the logger are pure I/O.

What is assumed of code outside `src/`: gensio delivers bytes in order, in chunks of any size, and
calls `read` from one thread at a time, and runs `freed` when a gensio is destroyed; the KL02 sends
the bytes of a word in the order the driver reads them; a checksum tells a frame from parts of two;
libevdev returns the events of the kernel in order and drops what it had read behind a SYN_DROPPED
that is not synced.

Left of the plan: an abstract specification of what a board support publishes, implemented by
`EvseBoardSupport` and `EvBoardSupport`; one of a token provider (tokens come one after the other, as
presented), implemented by `SL032Reader` and `EVDevInput`.

The number of runs is kept small; questions of one system share a run by way of `Envs`.

## 7. Running

    tlc -config link_mishaps.cfg MCKL02Link.tla
    tlapm KL02LinkProofs.tla

`PROJECT.json` lists the module of every run.
